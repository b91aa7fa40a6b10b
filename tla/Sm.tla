-------------------------------- MODULE Sm --------------------------------
(***************************************************************************)
(* The catalog and the statements of FS_project/edubase: SM_Manager,       *)
(* QL_Manager, FileScan and IndexScan.  The program reads one statement    *)
(* at a time, and a statement is one action.  Every scan has file handles  *)
(* of its own and so buffers of its own (PF_Manager::OpenFile), which is   *)
(* why a statement that changes what it scans still sees the records as    *)
(* they were when it began.                                                *)
(* A relation's records are a function from record ids to tuples, a tuple  *)
(* is the sequence of its attribute values, all of them integers.          *)
(* Relation and attribute names are numbers in their alphabetical order.   *)
(* An index is its entries in key order; Ix has the tree.                  *)
(***************************************************************************)
EXTENDS Integers, FiniteSets, Sequences, SequencesExt, Functions

CONSTANTS SRels,       \* names of relations
          SCatalogs,   \* the names relcat and attrcat
          SSchemas,    \* attribute lists of create table statements
          SVals,       \* values of attributes
          SRecs,       \* bound on the records of the database
          SNone,       \* no such entry or file
          SFiles,      \* data files for load: sequences of lines
          SWheres      \* where clauses: sequences of conditions <<attribute, value>>

VARIABLES db,          \* relcat and attrcat, the files of records and of indexes, useIndexNo
          stmt         \* the last statement, with its return code and its effect

smVars == <<db, stmt>>

BadLine == <<"bad">>
IsTuple(t) == t # BadLine
Start == [op |-> "open", rel |-> SNone, arg |-> <<>>, rc |-> "ok", early |-> FALSE,
          before |-> <<>>, out |-> {}]

SmInit == /\ db = [relcat |-> [r \in SRels |-> SNone], attrcat |-> [r \in SRels |-> <<>>],
                   file |-> [r \in SRels |-> SNone], index |-> [r \in SRels |-> <<>>], use |-> -1]
          /\ stmt = Start
-----------------------------------------------------------------------------
(* The catalog *)
\* GetRelationInfo, GetAttributeInfo: what the catalogs say of a relation
\* and the offset of an attribute, 0 when there is none.
Known(r) == r \in SRels /\ db.relcat[r] # SNone
Offset(r, a) == IF \E i \in DOMAIN db.attrcat[r] : db.attrcat[r][i].name = a
                THEN CHOOSE i \in DOMAIN db.attrcat[r] : db.attrcat[r][i].name = a ELSE 0
Attrs(r) == db.attrcat[r]
Indexed(r) == {i \in DOMAIN Attrs(r) : Attrs(r)[i].indexNo # -1}
Tuples(r) == db.file[r]
AllRecords == UNION {{<<r, id>> : id \in DOMAIN Tuples(r)} : r \in {q \in SRels : Known(q)}}

\* An index with one entry more or less.
InsertPair(x, k, id) ==
    InsertAt(x, Cardinality({i \in DOMAIN x : x[i][1] <= k}) + 1, <<k, id>>)
DropPair(x, k, id) == SelectSeq(x, LAMBDA p : p # <<k, id>>)

\* The statement ended with rc, without an effect or with db as given.
Returns(op, r, arg, rc) == /\ stmt' = [Start EXCEPT !.op = op, !.rel = r, !.arg = arg, !.rc = rc]
                           /\ UNCHANGED db
Does(op, r, arg, rc, d) ==
    /\ stmt' = [Start EXCEPT !.op = op, !.rel = r, !.arg = arg, !.rc = rc,
                             !.before = IF db.file[r] = SNone THEN <<>> ELSE db.file[r]]
    /\ db' = d

CreateTable(r, names) ==
    IF r \in SCatalogs \/ ~IsInjective(names) \/ Known(r) THEN Returns("create table", r, names, "error")
    ELSE Does("create table", r, names, "ok",
              [db EXCEPT !.relcat[r] = [attrCount |-> Len(names), indexCount |-> 0],
                         !.attrcat[r] = [i \in DOMAIN names |-> [name |-> names[i], indexNo |-> -1]],
                         !.file[r] = <<>>,
                         !.index[r] = [i \in DOMAIN names |-> SNone]])

\* Mutant: the indexes of the relation are not destroyed.
DropTable_indexes(r) ==
    IF r \in SCatalogs \/ ~Known(r) THEN Returns("drop table", r, <<>>, "error")
    ELSE Does("drop table", r, <<>>, "ok",
              [db EXCEPT !.relcat[r] = SNone, !.attrcat[r] = <<>>, !.file[r] = SNone])

DropTable(r) ==
    IF r \in SCatalogs \/ ~Known(r) THEN Returns("drop table", r, <<>>, "error")
    ELSE Does("drop table", r, <<>>, "ok",
              [db EXCEPT !.relcat[r] = SNone, !.attrcat[r] = <<>>, !.file[r] = SNone,
                         !.index[r] = <<>>])

\* The index of the attribute at offset i of records f, filled by a scan.
BuildIndex(f, i) == FoldLeft(LAMBDA x, id : InsertPair(x, f[id][i], id), <<>>,
                             SetToSortSeq(DOMAIN f, <))
CreateIndex(r, a) ==
    IF ~Known(r) \/ Offset(r, a) = 0 THEN Returns("create index", r, a, "error")
    ELSE IF Offset(r, a) \in Indexed(r) THEN Returns("create index", r, a, "error")
    ELSE Does("create index", r, a, "ok",
              [db EXCEPT !.index[r][Offset(r, a)] = BuildIndex(Tuples(r), Offset(r, a)),
                         !.attrcat[r][Offset(r, a)].indexNo = Offset(r, a),
                         !.relcat[r].indexCount = @ + 1])
DropIndex(r, a) ==
    IF ~Known(r) \/ Offset(r, a) = 0 THEN Returns("drop index", r, a, "error")
    ELSE IF Offset(r, a) \notin Indexed(r) THEN Returns("drop index", r, a, "error")
    ELSE Does("drop index", r, a, "ok",
              [db EXCEPT !.index[r][Offset(r, a)] = SNone,
                         !.attrcat[r][Offset(r, a)].indexNo = -1,
                         !.relcat[r].indexCount = @ - 1])
-----------------------------------------------------------------------------
(* Tuples *)
\* Mutant: the slot after as many as there are records.
FreeId_count(f) == Cardinality(DOMAIN f) + 1

FreeId(f) == CHOOSE id \in 1 .. SRecs + 1 : id \notin DOMAIN f /\ \A j \in 1 .. id - 1 : j \in DOMAIN f
WithRecord(d, r, id, t) ==
    [d EXCEPT !.file[r] = [j \in DOMAIN @ \cup {id} |-> IF j = id THEN t ELSE @[j]],
              !.index[r] = [i \in DOMAIN @ |-> IF @[i] = SNone THEN SNone ELSE InsertPair(@[i], t[i], id)]]

\* Load: the lines up to the first one with a wrong number of values.
GoodLines(r, lines) ==
    LET bad == {i \in DOMAIN lines : ~IsTuple(lines[i]) \/ Len(lines[i]) # db.relcat[r].attrCount}
    IN  IF bad = {} THEN lines ELSE SubSeq(lines, 1, (CHOOSE i \in bad : \A j \in bad : i <= j) - 1)
Load(r, lines) ==
    IF r \in SCatalogs \/ ~Known(r) THEN Returns("load", r, lines, "error")
    ELSE /\ Cardinality(AllRecords) + Len(GoodLines(r, lines)) <= SRecs
         /\ Does("load", r, lines, IF GoodLines(r, lines) = lines THEN "ok" ELSE "error",
                 FoldLeft(LAMBDA d, t : WithRecord(d, r, FreeId(d.file[r]), t), db, GoodLines(r, lines)))

\* Insert.  InsertRecord opens the indexes through a null array: with any
\* index on the relation the program ends there, before it has changed
\* anything, and is started again.
Insert(r, t) ==
    IF ~Known(r) \/ Len(t) # db.relcat[r].attrCount THEN Returns("insert", r, t, "error")
    ELSE IF Indexed(r) # {} THEN Returns("insert", r, t, "crash")
    ELSE /\ Cardinality(AllRecords) < SRecs
         /\ Does("insert", r, t, "ok", WithRecord(db, r, FreeId(Tuples(r)), t))
-----------------------------------------------------------------------------
(* Scans *)
\* GetLeafIterator: the condition that decides the scan.  Of the conditions
\* on an indexed attribute it is the last one of the attribute that comes
\* last, otherwise the first of all.
OnIndex(r, where) == {j \in DOMAIN where : Offset(r, where[j][1]) \in Indexed(r)}
Chosen(r, where) ==
    IF OnIndex(r, where) = {} THEN 1
    ELSE CHOOSE j \in OnIndex(r, where) :
            \A k \in OnIndex(r, where) : \/ where[k][1] < where[j][1]
                                         \/ where[k][1] = where[j][1] /\ k <= j
\* A null iterator: no relation, or a file scan on an unknown attribute.
NoIterator(r, where) ==
    \/ ~Known(r)
    \/ where # <<>> /\ OnIndex(r, where) = {} /\ Offset(r, where[1][1]) = 0
\* The records the scan returns.  The other conditions are looked up, which
\* fails for an unknown attribute, and are not compared.
Selected(r, where) ==
    IF where = <<>> THEN DOMAIN Tuples(r)
    ELSE LET c == where[Chosen(r, where)]
         IN  {id \in DOMAIN Tuples(r) : Tuples(r)[id][Offset(r, c[1])] = c[2]}
LookupFails(r, where) == /\ Selected(r, where) # {}
                         /\ \E j \in DOMAIN where : Offset(r, where[j][1]) = 0
\* What a scan through an index may return: from the second call on
\* IX_IndexScan::GetNextEntry may take an uninitialised rc for IX_EOF.
Fetched(r, where) ==
    IF OnIndex(r, where) = {} THEN {Selected(r, where)}
    ELSE {s \in SUBSET Selected(r, where) : Selected(r, where) # {} => s # {}}

Select(r, where) ==
    IF NoIterator(r, where) THEN Returns("select", r, where, "nothing")
    ELSE IF LookupFails(r, where) THEN Returns("select", r, where, "error")
    ELSE \E got \in Fetched(r, where) :
            /\ stmt' = [Start EXCEPT !.op = "select", !.rel = r, !.arg = where, !.out = got,
                                     !.early = got # Selected(r, where), !.before = Tuples(r)]
            /\ UNCHANGED db

\* Delete: the records, and their entries in every index.
\* Mutant: only the index of the scan is kept up to date.
Deleting_one(d, r, got, where) ==
    [d EXCEPT !.file[r] = Restrict(@, DOMAIN @ \ got),
              !.index[r] = [i \in DOMAIN @ |->
                  IF @[i] = SNone \/ where = <<>> \/ i # Offset(r, where[1][1]) THEN @[i]
                  ELSE SelectSeq(@[i], LAMBDA p : p[2] \notin got)]]

Deleting(d, r, got, where) ==
    [d EXCEPT !.file[r] = Restrict(@, DOMAIN @ \ got),
              !.index[r] = [i \in DOMAIN @ |->
                  IF @[i] = SNone THEN SNone
                  ELSE SelectSeq(@[i], LAMBDA p : p[2] \notin got)]]
Delete(r, where) ==
    IF NoIterator(r, where) THEN Returns("delete", r, where, "crash")
    ELSE IF LookupFails(r, where) THEN Returns("delete", r, where, "error")
    ELSE \E got \in Fetched(r, where) :
            /\ stmt' = [Start EXCEPT !.op = "delete", !.rel = r, !.arg = where,
                                     !.early = got # Selected(r, where), !.before = Tuples(r)]
            /\ db' = Deleting(db, r, got, where)

\* Update: the attribute in the records, and its index.
Moved(x, f, i, v, got) ==
    FoldLeft(LAMBDA y, id : InsertPair(DropPair(y, f[id][i], id), v, id), x, SetToSortSeq(got, <))
SetValue(d, r, i, v, got) ==
    [d EXCEPT !.file[r] = [id \in DOMAIN @ |-> IF id \in got THEN [@[id] EXCEPT ![i] = v] ELSE @[id]],
              !.index[r][i] = IF @ = SNone THEN SNone ELSE Moved(@, d.file[r], i, v, got)]
Update(r, a, v, where) ==
    IF NoIterator(r, where) THEN Returns("update", r, <<a, v, where>>, "crash")
    ELSE IF Offset(r, a) = 0          \* IsAttrIndexed follows an uninitialised pointer
    THEN \E rc \in {"crash", "nothing"} : Returns("update", r, <<a, v, where>>, rc)
    ELSE IF LookupFails(r, where) THEN Returns("update", r, <<a, v, where>>, "error")
    ELSE \E got \in Fetched(r, where) :
            /\ stmt' = [Start EXCEPT !.op = "update", !.rel = r, !.arg = <<a, v, where>>,
                                     !.early = got # Selected(r, where), !.before = Tuples(r)]
            /\ db' = SetValue(db, r, Offset(r, a), v, got)

\* Set useindex and Print.  The sorted print opens an index scan with NO_OP,
\* which IX_IndexScan::OpenScan refuses.
SetUseIndex(n) == /\ stmt' = [Start EXCEPT !.op = "set", !.arg = n]
                  /\ db' = [db EXCEPT !.use = n]
PrintRel(r) == IF ~Known(r) \/ db.use >= 0 THEN Returns("print", r, <<>>, "error")
            ELSE /\ stmt' = [Start EXCEPT !.op = "print", !.rel = r, !.out = DOMAIN Tuples(r),
                                          !.before = Tuples(r)]
                 /\ UNCHANGED db

SNames == UNION {Range(s) : s \in SSchemas}
STuples == UNION {[1 .. n -> SVals] : n \in 1 .. 2}
SmNext ==
    \/ \E r \in SRels \cup SCatalogs : \E s \in SSchemas : CreateTable(r, s)
    \/ \E r \in SRels \cup SCatalogs : DropTable(r)
    \/ \E r \in SRels \cup SCatalogs : \E f \in SFiles : Load(r, f)
    \/ \E r \in SRels, a \in SNames : CreateIndex(r, a) \/ DropIndex(r, a)
    \/ \E r \in SRels, t \in STuples : Insert(r, t)
    \/ \E r \in SRels, w \in SWheres : Select(r, w) \/ Delete(r, w)
    \/ \E r \in SRels, a \in SNames, v \in SVals, w \in SWheres : Update(r, a, v, w)
    \/ \E n \in {-1, 0} : SetUseIndex(n)
    \/ \E r \in SRels : PrintRel(r)

SmSpec == SmInit /\ [][SmNext]_smVars
-----------------------------------------------------------------------------
\* The two catalogs agree with each other and with the files there are: a
\* relation is in both or in neither and then has its file, its index count
\* is the number of its indexes, and an attribute's index number says whether
\* the index file exists.
CatalogExact ==
    \A r \in SRels :
        IF db.relcat[r] = SNone
        THEN db.attrcat[r] = <<>> /\ db.file[r] = SNone /\ \A i \in DOMAIN db.index[r] : db.index[r][i] = SNone
        ELSE /\ db.file[r] # SNone
             /\ db.relcat[r].attrCount = Len(Attrs(r))
             /\ db.relcat[r].indexCount = Cardinality(Indexed(r))
             /\ \A i \in DOMAIN Attrs(r) : i \in Indexed(r) <=> db.index[r][i] # SNone

\* Every index has exactly one entry for each record, under the record's
\* value of the attribute.
IndexesMirror ==
    \A r \in {q \in SRels : Known(q)} : \A i \in Indexed(r) :
        /\ Range(db.index[r][i]) = {<<Tuples(r)[id][i], id>> : id \in DOMAIN Tuples(r)}
        /\ Len(db.index[r][i]) = Cardinality(DOMAIN Tuples(r))

\* The tuples of the relation before the statement that meet all of some
\* conditions.
Meeting(conds) ==
    {id \in DOMAIN stmt.before : \A c \in conds : stmt.before[id][Offset(stmt.rel, c[1])] = c[2]}
\* The records that a scan for the where clause may stop at: all of them, or
\* those that meet one of the conditions, which of several is not said.
Described(where) == IF where = <<>> THEN {Meeting({})} ELSE {Meeting({c}) : c \in Range(where)}
\* What delete and update make of the tuples b when they touch those in s.
Changed(b, s) ==
    IF stmt.op = "delete" THEN Restrict(b, DOMAIN b \ s)
    ELSE [id \in DOMAIN b |-> IF id \in s THEN [b[id] EXCEPT ![Offset(stmt.rel, stmt.arg[1])] = stmt.arg[2]]
                              ELSE b[id]]
Clause == IF stmt.op = "update" THEN stmt.arg[3] ELSE stmt.arg
\* A statement that returns without error did what it says: select returned
\* and delete removed the records that the where clause describes, update
\* changed those and no others, insert and load added their tuples; unless
\* an uninitialised return code ended its scan early.  With one condition
\* the description is exact.  Of several, which all must hold according to
\* ql_manager.cc:288 and 400, the scans compare one (file_scan.cc:181).
StatementMeans ==
    LET f == db.file[stmt.rel]
        b == stmt.before
    IN  stmt.rc = "ok" /\ ~stmt.early =>
        CASE stmt.op = "select" -> stmt.out \in Described(Clause)
          [] stmt.op = "print" -> stmt.out = DOMAIN b
          [] stmt.op \in {"delete", "update"} -> \E s \in Described(Clause) : f = Changed(b, s)
          [] stmt.op \in {"insert", "load"} ->
                /\ \A id \in DOMAIN b : f[id] = b[id]
                /\ LET new == [id \in DOMAIN f \ DOMAIN b |-> f[id]]
                       lines == IF stmt.op = "insert" THEN <<stmt.arg>> ELSE stmt.arg
                   IN  /\ Cardinality(DOMAIN new) = Len(lines)
                       /\ \A t \in Range(lines) \cup Range(new) :
                             Cardinality({id \in DOMAIN new : new[id] = t})
                                 = Cardinality({i \in DOMAIN lines : lines[i] = t})
          [] OTHER -> TRUE

=============================================================================
