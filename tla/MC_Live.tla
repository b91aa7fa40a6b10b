------------------------------- MODULE MC_Live -------------------------------
(***************************************************************************)
(* What must eventually happen in the process table and in the log; Proc's *)
(* constants come from the cfg.  A behaviour is that of processes, or of   *)
(* calls to the log: three processes that write one block, or two that     *)
(* write two; the variables of the other part keep their initial values.   *)
(***************************************************************************)
EXTENDS Proc

CONSTANTS p1, p2, p3, b1, b2, v0, NoBuf, NoBlock

VARIABLES part, home, logblk, head, cache, dirty, lh, outstanding, committing,
          tail, lpc, cur, wrote, sys

L == INSTANCE Log WITH
        Procs <- {p1, p2, p3}, Blocks <- {b1, b2}, Values <- {v0}, Zero <- v0,
        MAXOPBLOCKS <- 3, LOGSIZE <- 6, NLOG <- 6, OpBlocks <- 1, pc <- lpc

logVars == <<home, logblk, head, cache, dirty, lh, outstanding, committing,
             tail, lpc, cur, wrote, sys>>

\* What runs of the log: three processes and block b1, or p1, p2 and both.
InLog(A) == /\ part \in {"three", "two"} /\ A /\ UNCHANGED <<part, vars>>
            /\ IF part = "three" THEN cache'[b2] = NoBuf ELSE lpc'[p3] = "idle"
InProc(A) == part = "proc" /\ A /\ UNCHANGED <<part, logVars>>

MC_Init == part \in {"three", "two", "proc"} /\ L!Init /\ Init
MC_Next == InLog(L!Running) \/ InProc(Next)
MC_Vars == <<part, vars, logVars>>

\* The fairness that Log and Proc each state, for the part that runs: the
\* steps of a process in the log's code but EndOp exclude each other, so that
\* one condition stands for theirs, and process i of the log shares its
\* conditions with slot i.
LogProc == <<p1, p2, p3>>
InKernel(p) == L!Begin(p) \/ L!Log_write(p) \/ L!Commit(p)
MC_LiveSpec ==
    /\ MC_Init /\ [][MC_Next]_MC_Vars
    /\ WF_MC_Vars(InLog(L!Recover))
    /\ \A i \in Slots :
          /\ WF_MC_Vars(InLog(InKernel(LogProc[i])) \/ InProc(Yield(i)))
          /\ SF_MC_Vars(InLog(L!EndOp(LogProc[i])) \/ InProc(Dispatch(i)))
          /\ SF_MC_Vars(InProc(Step(i)))
    /\ SF_MC_Vars(InProc(Trap(initproc)))
    /\ SF_MC_Vars(InProc(WaitScan(initproc)))
-----------------------------------------------------------------------------
\* A process asleep in begin_op is woken (log.c).
SleeperWoken == L!SleeperWoken

\* A commit comes to its end (log.c).
CommitEnds == L!CommitEnds
=============================================================================
