---------------------------- MODULE MC_ProcThread ----------------------------
(***************************************************************************)
(* The process table on two CPUs under two kinds of programs: processes    *)
(* without threads, with kill and failing allocations (P), and one process *)
(* that creates threads and joins them (the constants of the cfg, under    *)
(* which JoinOwnThread reads the joins).                                   *)
(***************************************************************************)
EXTENDS Proc

VARIABLE program

P == INSTANCE Proc WITH
        Threaded <- {}, OutOfMemory <- TRUE,
        Calls <- {"fork", "exit", "wait", "kill"}, ThreadCalls <- {}

Only == UNCHANGED program
MC_Init == \/ program = "processes" /\ P!Init
           \/ program = "threads" /\ Init
MC_Next == \/ program = "processes" /\ P!Next /\ Only
           \/ program = "threads" /\ Next /\ Only
MC_Spec == MC_Init /\ [][MC_Next]_<<vars, program>>

\* Without threads the processes never all wait for each other in wait().
NoStandstill == program = "processes" => SomeoneRuns
=============================================================================
