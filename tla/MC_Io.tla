-------------------------------- MODULE MC_Io --------------------------------
(***************************************************************************)
(* The buffer cache with the disk, and a pipe whose users may be killed:   *)
(* what must never happen and what must eventually happen.  A behaviour is *)
(* one of the two; the variables of the other keep their initial values.   *)
(***************************************************************************)
EXTENDS Bcache, Pipe

CONSTANTS a, p1, p2, p3
VARIABLE part

MC_Messages == {<<a, a>>}
ioVars == <<part, bcVars, vars>>

MC_Init == /\ part \in {"bcache", "pipe"} /\ BcInit /\ Init
           /\ disk = [b \in Blocks |-> CHOOSE v \in Values : TRUE]
           /\ part = "bcache" => fd["r"] = {p1}
MC_Next == \/ part = "bcache" /\ BcNext /\ UNCHANGED <<part, vars>>
           \/ part = "pipe" /\ Next /\ UNCHANGED <<part, bcVars>>

\* The fairness of the two LiveSpecs: the disk answers, and a process inside
\* a call gets the CPU.
InCache(p) == p \in BcProcs /\ (Bread(p) \/ IderwDone(p)) /\ UNCHANGED <<part, vars>>
InPipe(p) == (PipeWrite(p) \/ PipeReadEmpty(p) \/ PipeRead(p) \/ PipeClose(p)) /\ UNCHANGED <<part, bcVars>>
MC_LiveSpec == /\ MC_Init /\ [][MC_Next]_ioVars
               /\ WF_ioVars(part = "bcache" /\ Ideintr /\ UNCHANGED <<part, vars>>)
               /\ \A p \in Procs : WF_ioVars(IF part = "bcache" THEN InCache(p) ELSE InPipe(p))
-----------------------------------------------------------------------------

\* Every request to the disk comes back to its user (bio.c, ide.c), and when
\* one end of the pipe is gone everybody at the other end gets out (pipe.c).
CallsEnd == RequestDone /\ PeerGone
=============================================================================
