------------------------------ MODULE Contacts ------------------------------
(***************************************************************************)
(* The two contact managers of FS_project.  hw1/ContactManager.c keeps     *)
(* records of fixed size in a file and finds its way with lseek;           *)
(* edubase/src/homework2.cc keeps one contact a page, on paged files and   *)
(* the buffer pool, and homework3.cc fills the same file.  "people" is     *)
(* what the user was given to believe.  A contact is its four fields; in   *)
(* the second program a field is the sequence of words between commas.     *)
(***************************************************************************)
EXTENDS Integers, Sequences, SequencesExt, FiniteSetsExt, BagsExt

CONSTANTS CbLedger,      \* contacts of the first program
          CbBook,        \* contacts of the second
          CbRecords,     \* bound: the records of the first program's file
          CbPages,       \* bound: the pages of the second's
          CbMany,        \* the contacts that homework3 inserts at once
          PF_BUFFER_SIZE

VARIABLES cm,            \* hw1: the file (byte -> field that starts there), people
          bk             \* homework2: pages, free pages, pool and disk, people

cbVars == <<cm, bk>>

fieldSizeSet == <<32, 64, 32, 32>>
fieldPointSet == <<0, 32, 96, 128>>
\* Mutant: the same way to the next record from every field.
offsetSet_same == <<128, 128, 128, 128>>
offsetSet == <<128, 96, 128, 128>>
OFFSET == 160
Deleted == <<"-1", "-1", "-1", "-1">>
CmInit == cm = [file |-> <<>>, people |-> <<>>, lost |-> FALSE]
-----------------------------------------------------------------------------
(* hw1/ContactManager.c *)
isEof == IF cm.file = <<>> THEN 0 ELSE Max(DOMAIN cm.file) + 32
ReadAt(p) == IF p \in DOMAIN cm.file THEN cm.file[p] ELSE ""
Fields(p, c) == [q \in {p + fieldPointSet[f] : f \in 1 .. 4} |-> c[CHOOSE f \in 1 .. 4 : q = p + fieldPointSet[f]]]
WriteAt(p, c) == [q \in DOMAIN Fields(p, c) \cup DOMAIN cm.file |->
                     IF q \in DOMAIN Fields(p, c) THEN Fields(p, c)[q] ELSE cm.file[q]]
RecordAt(p) == [f \in 1 .. 4 |-> ReadAt(p + fieldPointSet[f])]
Starts == {p \in 0 .. isEof - 1 : p % OFFSET = 0}
\* showAllItem
Visible == SelectSeq([i \in 1 .. Cardinality(Starts) |-> RecordAt(OFFSET * (i - 1))], LAMBDA r : r[1] # "-1")
\* Where the loops of delete, update and search stop for a value of field f.
\* On an empty file they compare what happens to be on the stack, and write
\* where the field would be.
Looked(f) == {p \in fieldPointSet[f] .. isEof - 1 : (p - fieldPointSet[f]) % (fieldSizeSet[f] + offsetSet[f]) = 0}
Matches(f, v) == {p \in Looked(f) : ReadAt(p) = v}
Finds(f, v) == IF isEof = 0 THEN BOOLEAN ELSE {Matches(f, v) # {}}
Place(f, v) == IF isEof = 0 THEN fieldPointSet[f] ELSE Min(Matches(f, v)) - fieldPointSet[f]
searchItem(f, v) == {IF found THEN <<RecordAt(Place(f, v))>> ELSE <<>> : found \in Finds(f, v)}
Having(f, v) == {i \in DOMAIN cm.people : cm.people[i][f] = v}

\* setOption: the field and the value to look for.
setOption == {<<f, c[f]>> : f \in 1 .. 4, c \in CbLedger}
insertItem(c) ==
    LET blank == {p \in Starts : ReadAt(p) = ""}
    IN  /\ isEof < CbRecords * OFFSET
        /\ cm' = [cm EXCEPT !.file = WriteAt(IF blank = {} THEN isEof ELSE Min(blank), c), !.people = Append(@, c)]
deleteItem(f, v) ==
    \E found \in Finds(f, v) :
        cm' = [cm EXCEPT !.file = IF found THEN WriteAt(Place(f, v), Deleted) ELSE @,
                         !.lost = @ \/ (found /\ isEof = 0),
                         !.people = IF Having(f, v) = {} THEN @ ELSE RemoveAt(@, Min(Having(f, v)))]
updateItem(f, v, c) ==
    \E found \in Finds(f, v) :
        cm' = [cm EXCEPT !.file = IF found THEN WriteAt(Place(f, v), c) ELSE @,
                         !.lost = @ \/ (found /\ isEof = 0),
                         !.people = IF Having(f, v) = {} THEN @ ELSE ReplaceAt(@, Min(Having(f, v)), c)]
CmNext == /\ ~cm.lost /\ UNCHANGED bk
          /\ \/ \E c \in CbLedger : insertItem(c)
             \/ \E o \in setOption : deleteItem(o[1], o[2])
             \/ \E o \in setOption, c \in CbLedger : updateItem(o[1], o[2], c)
-----------------------------------------------------------------------------
(* edubase/src/homework2.cc and homework3.cc *)
recordTo_pData(person) == FlattenSeq(person)
pDataToRecord(pData) == [f \in 1 .. 4 |-> <<pData[f]>>]
Hole == [s |-> "hole", data |-> <<>>]
BkInit == bk = [pages |-> <<>>, free |-> <<>>, held |-> {}, disk |-> <<>>, people |-> EmptyBag,
                searched |-> {}, crashed |-> FALSE]
NoPage == 0
UsedPages(b) == {p \in DOMAIN b.pages : b.pages[p].s = "used"}
\* The pool has room for p, and the file is long enough for it.
CanGet(b, p) == /\ p \in b.held \/ Cardinality(b.held) < PF_BUFFER_SIZE
                /\ b.pages[p].s = "hole" => \E q \in p + 1 .. Len(b.disk) : b.disk[q].s # "hole"
\* GetNextPage from page to page: those it returns before an error ends it.
Reached(b) == {p \in UsedPages(b) : \A q \in 1 .. p : CanGet(b, q)}
\* With none, findPage returns the error's code as the number of a page.
NoFirst == Reached(bk) = {}
Read(p) == pDataToRecord(bk.pages[p].data)
Named(name) == {p \in Reached(bk) : Read(p)[1] = name}
findPage(name) == IF Named(name) = {} THEN NoPage ELSE Min(Named(name))
\* showAllContact
Listed == LET on == SetToSortSeq(Reached(bk), <) IN [i \in DOMAIN on |-> Read(on[i])]

UsedPage(c) == [s |-> "used", data |-> recordTo_pData(c)]
One(c) == SetToBag({pDataToRecord(recordTo_pData(c))})
Told(b, c) == IF b.searched = {} THEN b.people (+) One(c) ELSE b.people
InsertOne(b, c) ==
    IF b.free # <<>>
    THEN IF CanGet(b, Head(b.free))
         THEN [b EXCEPT !.pages[Head(b.free)] = UsedPage(c), !.free = Tail(@), !.people = Told(b, c)] ELSE b
    ELSE IF Cardinality(b.held) < PF_BUFFER_SIZE
         THEN [b EXCEPT !.pages = Append(@, UsedPage(c)), !.disk = Append(@, Hole),
                        !.people = Told(b, c)] ELSE b
insertContact(c) == /\ bk.free # <<>> \/ Len(bk.pages) < CbPages
                    /\ bk' = InsertOne(bk, c)
insert40Contacts == /\ Len(bk.pages) < Len(CbMany) /\ Len(bk.pages) + Len(CbMany) <= CbPages
                    /\ bk' = FoldLeft(InsertOne, bk, CbMany)
\* DisposePage wants a page that nobody holds.
deleteContact(name) ==
    LET p == findPage(name)
    IN  bk' = IF p = NoPage THEN bk
              ELSE [bk EXCEPT !.people = @ (-) SetToBag({Read(p)}),
                              !.pages = IF p \in bk.held THEN @ ELSE [@ EXCEPT ![p].s = "free"],
                              !.free = IF p \in bk.held THEN @ ELSE <<p>> \o @]
\* Mutant: an update leaves the pin of findPage, like a search.
Update_pinned(name, c) ==
    LET p == findPage(name)
    IN  bk' = IF p = NoPage THEN bk ELSE [bk EXCEPT !.pages[p] = UsedPage(c), !.held = @ \cup {p}]
\* An update or a search of a file without contacts goes on with a pointer
\* that nobody set.
updateContact(name, c) ==
    LET p == findPage(name)
    IN  bk' = IF p = NoPage THEN [bk EXCEPT !.crashed = NoFirst]
              ELSE [bk EXCEPT !.pages[p] = UsedPage(c),
                              !.people = IF bk.searched # {} THEN @ ELSE (@ (-) SetToBag({Read(p)})) (+) One(c)]
\* The page that a search finds stays pinned; from then on the file may fall
\* short of what the user believes.
searchContact(name) ==
    LET p == findPage(name)
    IN  bk' = IF p = NoPage THEN [bk EXCEPT !.crashed = NoFirst]
              ELSE [bk EXCEPT !.held = @ \cup {p}, !.searched = @ \cup {p}, !.people = EmptyBag]
Written(ps) == [p \in DOMAIN bk.pages |-> IF p \in ps THEN bk.pages[p] ELSE bk.disk[p]]
\* The pool writes a page that nobody holds when it needs the room.
Evict == \E p \in DOMAIN bk.pages \ bk.held : bk' = [bk EXCEPT !.disk = Written({p})]
\* CloseFile leaves out the pages that are pinned; the next run reads the rest.
Reopen == LET d == Written(DOMAIN bk.pages \ bk.held)
          IN  bk' = [bk EXCEPT !.disk = d, !.pages = d, !.held = {}]
BkNext == /\ ~bk.crashed /\ UNCHANGED cm
          /\ \/ \E c \in CbBook : insertContact(c) \/ deleteContact(c[1]) \/ searchContact(c[1])
             \/ \E c, d \in CbBook : updateContact(c[1], d)
             \/ insert40Contacts \/ Evict \/ Reopen

CbInit == CmInit /\ BkInit
CbNext == CmNext \/ BkNext
CbSpec == CbInit /\ [][CbNext]_cbVars
-----------------------------------------------------------------------------
\* The first program shows exactly the contacts that were entered and not
\* deleted, as they were last changed and in order, and finds the first that
\* has a value in a field, unless its file was searched while it was empty
\* and the stack held the answer (ContactManager.c).
LedgerExact ==
    cm.lost \/ /\ Visible = cm.people
               /\ isEof > 0 => \A o \in setOption :
                     searchItem(o[1], o[2]) = {IF Having(o[1], o[2]) = {} THEN <<>>
                                               ELSE <<cm.people[Min(Having(o[1], o[2]))]>>}

\* Only searches hold on to pages, and as long as none has found anything,
\* the second program lists the contacts that were entered, in this run of it
\* or an earlier one, but for what follows a comma (homework2.cc).
BookExact ==
    /\ bk.held \subseteq bk.searched
    /\ bk.searched = {} => ToBag(Listed) = bk.people
=============================================================================
