-------------------------------- MODULE Fifo --------------------------------
(***************************************************************************)
(* What a pipe promises: the bytes of its writers come out once each, in   *)
(* the order they went in, and at most Capacity of them are on the way.    *)
(* A write may be split, and may be given up after any prefix of it.       *)
(***************************************************************************)
EXTENDS Naturals, Sequences

CONSTANTS Procs, Messages, Capacity

VARIABLES
    queue,   \* the bytes on the way
    todo,    \* what each writer still has to put in
    given    \* what the last reader was handed

fifoVars == <<queue, todo, given>>

FifoInit == queue = <<>> /\ todo = [p \in Procs |-> <<>>]
                         /\ given = <<>>

Ask(p) == /\ todo[p] = <<>>
          /\ \E m \in Messages : todo' = [todo EXCEPT ![p] = m]
          /\ UNCHANGED <<queue, given>>

Put(p) == \E k \in 0 .. Len(todo[p]) :
             /\ Len(queue) + k <= Capacity
             /\ queue' = queue \o SubSeq(todo[p], 1, k)
             /\ \E rest \in {SubSeq(todo[p], k + 1, Len(todo[p])), <<>>} :
                   todo' = [todo EXCEPT ![p] = rest]
             /\ UNCHANGED given

Get == \E k \in 0 .. Len(queue) :
          /\ given' = SubSeq(queue, 1, k)
          /\ queue' = SubSeq(queue, k + 1, Len(queue))
          /\ UNCHANGED todo

FifoNext == Get \/ \E p \in Procs : Ask(p) \/ Put(p)

FifoSpec == FifoInit /\ [][FifoNext]_fifoVars
=============================================================================
