---------------------------- MODULE PagedFile ----------------------------
(***************************************************************************)
(* What the paged-file layer of FS_project/edubase promises its clients:   *)
(* a file is a sequence of pages, each free or holding the last value      *)
(* written to it; buffering, replacement, flushing and closing show        *)
(* nowhere.                                                                *)
(***************************************************************************)
EXTENDS Naturals, Sequences

CONSTANTS PFiles, PVals, FreePage, NoFile

VARIABLE store

Init == store = [f \in PFiles |-> NoFile]

Exists(f) == store[f] # NoFile
Create(f) == ~Exists(f) /\ store' = [store EXCEPT ![f] = <<>>]
Destroy(f) == Exists(f) /\ store' = [store EXCEPT ![f] = NoFile]

\* A new page is zeroed, whether it is at the end or was disposed of before.
Extend(f) == Exists(f) /\ store' = [store EXCEPT ![f] = Append(@, 0)]
Reuse(f, i) == store[f][i] = FreePage /\ store' = [store EXCEPT ![f][i] = 0]
Write(f, i, v) == store[f][i] # FreePage /\ store' = [store EXCEPT ![f][i] = v]
Dispose(f, i) == store[f][i] # FreePage /\ store' = [store EXCEPT ![f][i] = FreePage]

Next == \E f \in PFiles :
           \/ Create(f) \/ Destroy(f) \/ Extend(f)
           \/ /\ Exists(f)
              /\ \E i \in 1 .. Len(store[f]) : \/ Reuse(f, i) \/ Dispose(f, i)
                                               \/ \E v \in PVals : Write(f, i, v)

Spec == Init /\ [][Next]_store
=============================================================================
