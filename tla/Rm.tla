-------------------------------- MODULE Rm --------------------------------
(***************************************************************************)
(* The record layer of FS_project/edubase: RM_Manager, RM_FileHandle and   *)
(* RM_FileScan, for one file.  The layer is sequential and a call is one   *)
(* action.  The paged-file layer below is module Pf; of it only the pages  *)
(* in use and the order in which it hands disposed pages out again remain. *)
(* A page has its nextFree field and its slots; the bitmap and the slots   *)
(* are one function, in which NoRec is a cleared bit.  Records are their   *)
(* one integer attribute.                                                  *)
(***************************************************************************)
EXTENDS Integers, FiniteSets, Sequences

CONSTANTS RVals,        \* the values of the attribute
          RPageSize,    \* PF_PAGE_SIZE
          RWord,        \* bits of an int
          RLoads        \* what clients do: records with the size of a record,
                        \* the number of pages the file grows to, what is
                        \* done to records (ops) and the conditions of scans

VARIABLES rm,           \* the file, its handle and the clients
          scan          \* an RM_FileScan, with what it owes its client

rmVars == <<rm, scan>>

RM_HEADER_PAGE_NUM == 0
RM_PAGE_LIST_END == -1
RM_PAGE_FULL == -2
RM_PageHdr == 4         \* its size
NoRec == -1             \* no value of an attribute here
NoPage == [nf |-> RM_PAGE_LIST_END, slots |-> <<>>]

\* CreateFile: the records that fit in a page beside its header and bitmap.
Room == RPageSize - RM_PageHdr - 1
\* Mutant: the bitmap is taken for a whole number of bytes.
numRecordsPerPage_loose(recordSize) == (Room * 8) \div (recordSize * 8 + 1) + 1

numRecordsPerPage(recordSize) ==
    LET n == (Room * 8) \div (recordSize * 8 + 1)
    IN  IF recordSize * (n + 1) + n \div 8 <= Room THEN n + 1 ELSE n
pageHeaderSize(recordSize) == RM_PageHdr + (numRecordsPerPage(recordSize) + 7) \div 8
SlotNums == 0 .. numRecordsPerPage(rm.load.size) - 1

Fresh(load) ==
    [load |-> load, exists |-> FALSE, open |-> FALSE,
     firstFree |-> RM_PAGE_LIST_END,    \* the handle's copy of the file header,
     changed |-> FALSE,                 \* bHdrChanged,
     hdr |-> RM_PAGE_LIST_END,          \* and firstFree in the header page
     pages |-> [p \in 1 .. load.pages |-> NoPage],
     used |-> {},                       \* pages in use but the header page
     disposed |-> <<>>,                 \* free pages, the next to be reused first
     torn |-> FALSE,                    \* a page has been emptied that was not the head of the list
     aborted |-> FALSE]                 \* an assertion has failed
NoScan == [open |-> FALSE, page |-> RM_HEADER_PAGE_NUM, slot |-> 0, op |-> "NO_OP", value |-> 0,
           due |-> {}, seen |-> {}]

RmInit == \E load \in RLoads : rm = Fresh(load) /\ scan = NoScan
-----------------------------------------------------------------------------
(* RM_FileScan *)
\* The difference is taken in an int, which overflows.
Cmp(i, value) == ((i - value + 2 ^ (RWord - 1)) % (2 ^ RWord)) - 2 ^ (RWord - 1)
Hit(op, cmp) ==
    CASE op = "NO_OP" -> TRUE
      [] op = "EQ_OP" -> cmp = 0
      [] op = "LT_OP" -> cmp < 0
      [] op = "GT_OP" -> cmp > 0
      [] op = "LE_OP" -> cmp <= 0
      [] op = "GE_OP" -> cmp >= 0
      [] op = "NE_OP" -> cmp # 0
CompOps == {"NO_OP", "EQ_OP", "LT_OP", "GT_OP", "LE_OP", "GE_OP", "NE_OP"}

\* The first slot of page p, from slot s on, with a record that satisfies the
\* condition; the number of slots if there is none.
FindNextRecInCurPage(p, s) ==
    LET n == numRecordsPerPage(rm.load.size)
    IN  CHOOSE t \in s .. n :
           /\ t < n => rm.pages[p].slots[t] # NoRec
                       /\ Hit(scan.op, Cmp(rm.pages[p].slots[t], scan.value))
           /\ \A u \in s .. t - 1 :
                 rm.pages[p].slots[u] = NoRec
                 \/ ~Hit(scan.op, Cmp(rm.pages[p].slots[u], scan.value))

\* The pages looked at: the current one unless it is done with or has been
\* disposed of, and then the next pages in use.
Looked == {p \in rm.used : p > scan.page}
          \cup (IF scan.slot < numRecordsPerPage(rm.load.size) THEN rm.used \cap {scan.page} ELSE {})
FirstSlot(p) == FindNextRecInCurPage(p, IF p = scan.page THEN scan.slot ELSE 0)
NextHit == {p \in Looked : /\ FirstSlot(p) < numRecordsPerPage(rm.load.size)
                           /\ \A q \in Looked : q < p => FirstSlot(q) = numRecordsPerPage(rm.load.size)}

Rids == {<<p, s>> : p \in DOMAIN rm.pages, s \in SlotNums}
Record(r) == IF r[1] \in rm.used THEN rm.pages[r[1]].slots[r[2]] ELSE NoRec
Satisfies(op, v, value) == v # NoRec /\ Hit(op, v - value)

Running == ~rm.aborted
OpenScan(op, value) ==
    /\ Running /\ rm.open /\ ~scan.open
    /\ scan' = [open |-> TRUE, op |-> op, value |-> value, page |-> RM_HEADER_PAGE_NUM,
                slot |-> numRecordsPerPage(rm.load.size),
                due |-> {r \in Rids : Satisfies(op, Record(r), value)}, seen |-> {}]
    /\ UNCHANGED rm

Eof == <<0, 0>>
Again == <<0, 1>>
Wrong == <<0, 2>>

\* What the scan has returned, with a note of what it should not return.
Returned(r) ==
    scan.seen \cup {r} \cup {e \in {Again} : r \in scan.seen}
              \cup {e \in {Wrong} : ~Satisfies(scan.op, Record(r), scan.value)}

\* Mutant: the scan goes on with the next page.
Hits_page(p) == [scan EXCEPT !.page = p, !.slot = numRecordsPerPage(rm.load.size),
                             !.due = @ \ {<<p, FirstSlot(p)>>},
                             !.seen = Returned(<<p, FirstSlot(p)>>)]

\* The scan returns the record it finds and already looks for the next one
\* in the page.
Hits(p) == [scan EXCEPT !.page = p, !.slot = FindNextRecInCurPage(p, FirstSlot(p) + 1),
                        !.due = @ \ {<<p, FirstSlot(p)>>},
                        !.seen = Returned(<<p, FirstSlot(p)>>)]
\* At the end of the file the scan stays on the last page.
AtEnd == IF Looked = {} THEN scan
         ELSE [scan EXCEPT !.page = CHOOSE p \in Looked : \A q \in Looked : q <= p,
                           !.slot = numRecordsPerPage(rm.load.size)]
GetNextRec ==
    /\ Running /\ rm.open /\ scan.open
    /\ IF NextHit = {} THEN scan' = [AtEnd EXCEPT !.seen = @ \cup {Eof}]
       ELSE \E p \in NextHit : scan' = Hits(p)
    /\ UNCHANGED rm
CloseScan == scan.open /\ Running /\ scan' = NoScan /\ UNCHANGED rm
-----------------------------------------------------------------------------
(* RM_FileHandle *)
\* AllocatePage of the paged-file layer: the page disposed of last, or a new
\* one.
NewPageNum == IF rm.disposed # <<>> THEN Head(rm.disposed) ELSE Cardinality(rm.used) + 1
Blanked == [s \in SlotNums |-> NoRec]
Allocated ==
    [rm EXCEPT !.used = @ \cup {NewPageNum},
               !.disposed = IF @ = <<>> THEN @ ELSE Tail(@),
               !.pages[NewPageNum] = [nf |-> RM_PAGE_LIST_END, slots |-> Blanked],
               !.firstFree = NewPageNum, !.changed = TRUE]

Full(slots) == \A s \in DOMAIN slots : slots[s] # NoRec
\* Mutant: only the first bit of the bitmap is looked at.
Empty_first(slots) == slots[0] = NoRec
Empty(slots) == \A s \in DOMAIN slots : slots[s] = NoRec

\* The page leaves the list when the record fills it.
Filled(m, p, slots) ==
    IF Full(slots)
    THEN [m EXCEPT !.pages[p] = [nf |-> RM_PAGE_FULL, slots |-> slots],
                   !.firstFree = m.pages[p].nf, !.changed = TRUE]
    ELSE [m EXCEPT !.pages[p].slots = slots]
FirstEmpty(slots) == CHOOSE s \in DOMAIN slots :
                        slots[s] = NoRec /\ \A t \in DOMAIN slots : t < s => slots[t] # NoRec
\* Into page p; the assertion says that there is an empty slot.
Into(m, p, v) ==
    IF p \notin m.used THEN m                               \* PF_INVALIDPAGE
    ELSE IF Full(m.pages[p].slots) THEN [m EXCEPT !.aborted = TRUE]
    ELSE Filled(m, p, [m.pages[p].slots EXCEPT ![FirstEmpty(m.pages[p].slots)] = v])
InsertRec(v) ==
    /\ Running /\ rm.open /\ "insert" \in rm.load.ops
    /\ IF rm.firstFree # RM_PAGE_LIST_END THEN rm' = Into(rm, rm.firstFree, v)
       ELSE /\ NewPageNum \in DOMAIN rm.pages
            /\ rm' = Into(Allocated, NewPageNum, v)
    /\ UNCHANGED scan

\* A record that is deleted or changed is no longer owed by the scan.
Forget(r) == scan' = [scan EXCEPT !.due = @ \ {r}, !.seen = @ \ {r}]

\* The page whose last record is deleted is disposed of, and the one after
\* it becomes the head of the list, wherever in the list the page was; a
\* page of one record was not in the list, and RM_PAGE_FULL becomes the head.
Emptied(p) == [rm EXCEPT !.firstFree = rm.pages[p].nf, !.changed = TRUE, !.used = @ \ {p},
                         !.pages[p] = NoPage, !.disposed = <<p>> \o @,
                         !.torn = @ \/ rm.firstFree # p]
Listed(p, slots) ==
    IF rm.pages[p].nf # RM_PAGE_FULL THEN [rm EXCEPT !.pages[p].slots = slots]
    ELSE [rm EXCEPT !.pages[p] = [nf |-> rm.firstFree, slots |-> slots],
                    !.firstFree = p, !.changed = TRUE]
Without(p, slots) == IF Empty(slots) THEN Emptied(p) ELSE Listed(p, slots)
DeleteRec(p, s) ==
    /\ Running /\ rm.open /\ "delete" \in rm.load.ops /\ Record(<<p, s>>) # NoRec
    /\ rm' = Without(p, [rm.pages[p].slots EXCEPT ![s] = NoRec])
    /\ Forget(<<p, s>>)

UpdateRec(p, s, v) ==
    /\ Running /\ rm.open /\ "update" \in rm.load.ops /\ Record(<<p, s>>) # NoRec
    /\ rm' = [rm EXCEPT !.pages[p].slots[s] = v]
    /\ scan' = [scan EXCEPT !.due = @ \ {<<p, s>>}]

\* ForcePages, and CloseFile before it closes, write the header.
WithHdr == IF rm.changed THEN [rm EXCEPT !.hdr = rm.firstFree, !.changed = FALSE] ELSE rm
RForcePages == Running /\ rm.open /\ rm' = WithHdr /\ UNCHANGED scan
-----------------------------------------------------------------------------
(* RM_Manager *)
RCreateFile == /\ Running /\ ~rm.exists
               /\ rm' = [rm EXCEPT !.exists = TRUE, !.hdr = RM_PAGE_LIST_END] /\ UNCHANGED scan
RDestroyFile == /\ Running /\ rm.exists /\ ~rm.open /\ "delete" \in rm.load.ops
                /\ rm' = Fresh(rm.load) /\ UNCHANGED scan
ROpenFile == /\ Running /\ rm.exists /\ ~rm.open
             /\ rm' = [rm EXCEPT !.open = TRUE, !.firstFree = rm.hdr, !.changed = FALSE]
             /\ UNCHANGED scan
\* Clients close their scans first.
RCloseFile == /\ Running /\ rm.open /\ ~scan.open
              /\ rm' = [WithHdr EXCEPT !.open = FALSE, !.firstFree = RM_PAGE_LIST_END]
              /\ UNCHANGED scan

RmNext == \/ RCreateFile \/ RDestroyFile \/ ROpenFile \/ RCloseFile \/ RForcePages
          \/ \E v \in RVals : InsertRec(v)
          \/ \E c \in rm.load.conds : OpenScan(c[1], c[2])
          \/ \E p \in DOMAIN rm.pages, s \in SlotNums : \/ DeleteRec(p, s)
                                                       \/ \E v \in RVals : UpdateRec(p, s, v)
          \/ GetNextRec \/ CloseScan

RmSpec == RmInit /\ [][RmNext]_rmVars
-----------------------------------------------------------------------------
\* A scan that reaches the end of the file has returned every record that
\* satisfied its condition all along, none twice, and none that did not
\* satisfy it, whatever is inserted, changed and deleted in between,
\* including the page it is on.
ScanExact == /\ Eof \in scan.seen => scan.due = {}
             /\ scan.seen \cap {Again, Wrong} = {}

\* Records are kept under their RIDs, through the list of pages with room,
\* closing and opening again.
Records == [r \in {x \in Rids : Record(x) # NoRec} |-> Record(r)]
RFile == INSTANCE RecordFile WITH recs <- Records
RecordsKept == RFile!Spec

\* As long as pages are emptied at the head of the list only, the list from
\* the header's or the handle's firstFree holds every page with a free slot
\* once and no other, through closing and opening, and an insert finds its
\* slot.  A page emptied elsewhere takes those before it out of the list, and
\* may later lead an insert to a full page, where "There should be a free slot"
\* (rm_filehandle.cc:182) fails.
FreeChained ==
    LET room == {p \in rm.used : ~Full(rm.pages[p].slots)}
        n == Cardinality(room)
        chain[i \in 0 .. n] ==
            IF i = 0 THEN IF rm.open THEN rm.firstFree ELSE rm.hdr
            ELSE IF chain[i - 1] \in rm.used THEN rm.pages[chain[i - 1]].nf ELSE RM_PAGE_LIST_END
    IN  ~rm.torn => /\ {chain[i] : i \in 0 .. n - 1} = room
                    /\ chain[n] = RM_PAGE_LIST_END
                    /\ ~rm.aborted

\* For every size CreateFile accepts, the page has room for its header, the
\* bitmap and a record in every slot, and there is a slot.
RecordsFit == /\ pageHeaderSize(rm.load.size) + rm.load.size * numRecordsPerPage(rm.load.size)
                    <= RPageSize
              /\ numRecordsPerPage(rm.load.size) > 0
=============================================================================
