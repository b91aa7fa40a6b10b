----------------------------- MODULE BlockStore -----------------------------
(***************************************************************************)
(* What the buffer cache promises its users: every disk block has one      *)
(* current content, and one user at a time may look at it and change it.   *)
(***************************************************************************)
CONSTANTS Procs, Blocks, Values, Nobody

VARIABLES content, holder

storeVars == <<content, holder>>

StoreInit == content \in [Blocks -> Values] /\ holder = [b \in Blocks |-> Nobody]

Take(p, b) == /\ holder[b] = Nobody
              /\ holder' = [holder EXCEPT ![b] = p]
              /\ UNCHANGED content

Change(p, b) == /\ holder[b] = p
                /\ \E v \in Values : content' = [content EXCEPT ![b] = v]
                /\ UNCHANGED holder

GiveBack(p, b) == /\ holder[b] = p
                  /\ holder' = [holder EXCEPT ![b] = Nobody]
                  /\ UNCHANGED content

StoreNext == \E p \in Procs, b \in Blocks : Take(p, b) \/ Change(p, b) \/ GiveBack(p, b)

StoreSpec == StoreInit /\ [][StoreNext]_storeVars
=============================================================================
