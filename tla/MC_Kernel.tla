------------------------------ MODULE MC_Kernel ------------------------------
(***************************************************************************)
(* Six parts of the kernel that share no state, in one run: the pipe, the  *)
(* memory of processes, the contents of files over the log, the console,   *)
(* the spin locks with the scheduler and the clock, and the process table  *)
(* when programs mix its calls as they like.  A behaviour is that of one   *)
(* part; the others keep their initial values.                             *)
(***************************************************************************)
EXTENDS Pipe, Vm, Bmap, Console, Spin

CONSTANTS p1, p2, p3, x1, x2
VARIABLES part, mixTable, mixOn, mixPc, mixLoc, mixGave, mixGot

MC_Messages == {<<x1>>, <<x2, x1, x2>>}
MC_Segs == {<<1>>, <<3, 5>>}
\* Two processes: one sleeps or reads the disk, one reads the disk or kills.
MC_SpCalls == <<{"sleep", "disk"}, {"disk", "kill"}>>
MC_Sym == Permutations(Procs)
mixVars == <<mixTable, mixOn, mixPc, mixLoc, mixGave, mixGot>>
kernelVars == <<part, vars, vmVars, bmVars, cnVars, spVars, mixVars>>

\* One CPU, where what a thread hands over is not looked at: always the same.
Mix == INSTANCE Proc WITH
          NPROC <- 3, NCPU <- 1, NTID <- 1, Values <- {x1}, NoValue <- x1,
          Calls <- {"fork", "exit", "wait", "kill", "thread_create", "thread_join"},
          ThreadCalls <- {"exit", "thread_exit"},
          Threaded <- {1, 2}, Disciplined <- FALSE, OutOfMemory <- TRUE,
          ptable <- mixTable, on <- mixOn, pc <- mixPc, loc <- mixLoc,
          gave <- mixGave, got <- mixGot

MC_Init == /\ part \in {"pipe", "memory", "files", "console", "locks", "mix"}
           /\ Init /\ VmInit /\ BmInit /\ CnInit /\ SpInit /\ Mix!Init
           /\ part # "pipe" => fd["r"] = {p1}
MC_Next ==
    \/ part = "pipe" /\ Next /\ UNCHANGED <<part, vmVars, bmVars, cnVars, spVars, mixVars>>
    \/ part = "memory" /\ VmNext /\ UNCHANGED <<part, vars, bmVars, cnVars, spVars, mixVars>>
    \/ part = "files" /\ BmNext /\ UNCHANGED <<part, vars, vmVars, cnVars, spVars, mixVars>>
    \/ part = "console" /\ CnNext /\ UNCHANGED <<part, vars, vmVars, bmVars, spVars, mixVars>>
    \/ part = "locks" /\ SpNext /\ UNCHANGED <<part, vars, vmVars, bmVars, cnVars, mixVars>>
    \/ part = "mix" /\ Mix!Next /\ UNCHANGED <<part, vars, vmVars, bmVars, cnVars, spVars>>
MC_Spec == MC_Init /\ [][MC_Next]_kernelVars
-----------------------------------------------------------------------------
\* Every page has one use and none is lost, and the memory a process was
\* promised is there (kalloc.c, vm.c, exec.c, proc.c).
MemorySound == part = "memory" => PagesExact /\ MemoryBacked

\* Files read back as they were written, after a crash too, and the bitmap
\* and the inodes agree (fs.c, file.c).
FilesSound == part = "files" => ReadsBack /\ BlocksExact

\* Readers get the lines that were sent, and are awake when there is one; the
\* screen shows the line being typed (console.c).
ConsoleSound == part = "console" => LinesExact /\ ReaderAwake /\ LineShown
\* Whatever mix of process and thread calls the programs make, the table is
\* well formed, a killed process is awake, and no exit ends or frees the slot
\* that executes (proc.c).
AnyMixSound == part = "mix" => Mix!AnyMixSound
=============================================================================
