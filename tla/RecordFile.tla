---------------------------- MODULE RecordFile ----------------------------
(***************************************************************************)
(* What the record layer of FS_project/edubase promises: a file is a set   *)
(* of records, each under a record identifier (RID) of its own that names  *)
(* it until the record is deleted.  Pages, bitmaps, the list of pages with *)
(* room, closing and opening show nowhere.                                 *)
(***************************************************************************)
CONSTANT RVals

VARIABLE recs      \* the value of every record, by RID

Init == recs = <<>>

Insert(r, v) ==
    /\ r \notin DOMAIN recs
    /\ recs' = [x \in DOMAIN recs \cup {r} |-> IF x = r THEN v ELSE recs[x]]
Update(r, v) == r \in DOMAIN recs /\ recs' = [recs EXCEPT ![r] = v]
Delete(r) == r \in DOMAIN recs /\ recs' = [x \in DOMAIN recs \ {r} |-> recs[x]]
Destroy == recs' = <<>>

Next == \/ Destroy
        \/ \E r \in DOMAIN recs : Delete(r) \/ \E v \in RVals : Update(r, v)
        \/ \E r \in DOMAIN recs', v \in RVals : Insert(r, v)

Spec == Init /\ [][Next]_recs
=============================================================================
