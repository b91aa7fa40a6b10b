----------------------------- MODULE AtomicDisk -----------------------------
(***************************************************************************)
(* What the xv6 log promises to the file-system calls above it, without    *)
(* saying how (OS_project/xv6-public/log.c, lines 9-30): calls run         *)
(* concurrently between begin_op and end_op, their updates are seen at     *)
(* once in memory, and they reach the disk all together, at an instant at  *)
(* which no call is running.  A crash falls back to the last such instant. *)
(***************************************************************************)

CONSTANTS Procs,    \* processes that issue file-system calls
          Blocks,   \* home block numbers
          Values    \* contents of a block

VARIABLES mem,      \* contents the running system sees
          durable,  \* contents a crash would leave after recovery
          active,   \* processes between begin_op and end_op
          flushing  \* the last end_op has not returned yet

vars == <<mem, durable, active, flushing>>

Init == /\ mem \in [Blocks -> Values]
        /\ durable = mem
        /\ active = {}
        /\ flushing = FALSE

\* A call starts; none starts while the group is being made durable.
Begin(p) == /\ p \notin active
            /\ ~flushing
            /\ active' = active \cup {p}
            /\ UNCHANGED <<mem, durable, flushing>>

Write(p, b, v) == /\ p \in active
                  /\ mem' = [mem EXCEPT ![b] = v]
                  /\ UNCHANGED <<durable, active, flushing>>

\* A call ends; the last one of the group has the whole group to flush.
End(p) == /\ p \in active
          /\ active' = active \ {p}
          /\ flushing' = (active = {p})
          /\ UNCHANGED <<mem, durable>>

\* The group becomes durable in one step.
Commit == /\ flushing
          /\ durable' = mem
          /\ UNCHANGED <<mem, active, flushing>>

\* The last end_op returns only when nothing is left to lose.
Return == /\ flushing
          /\ durable = mem
          /\ flushing' = FALSE
          /\ UNCHANGED <<mem, durable, active>>

Crash == /\ mem' = durable
         /\ active' = {}
         /\ flushing' = FALSE
         /\ UNCHANGED durable

Next == \/ \E p \in Procs : Begin(p) \/ End(p)
        \/ \E p \in Procs, b \in Blocks, v \in Values : Write(p, b, v)
        \/ Commit
        \/ Return
        \/ Crash

Spec == Init /\ [][Next]_vars
=============================================================================
