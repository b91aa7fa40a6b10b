-------------------------------- MODULE Pf --------------------------------
(***************************************************************************)
(* The paged-file layer of FS_project/edubase: PF_Manager, PF_FileHandle,  *)
(* PF_BufferMgr and PF_HashTable.  The layer is sequential: a call is one  *)
(* action, built from functions that map the state pf to a result with the *)
(* new state and the return code.  Slots are numbered from 1 and 0 stands  *)
(* for INVALID_SLOT; a page is its header's nextFree and one value.  The   *)
(* chains of the hash table are a set of entries.  io says whether the     *)
(* disk works during a call.                                               *)
(***************************************************************************)
EXTENDS Integers, FiniteSets, Sequences, SequencesExt

CONSTANTS PFiles,     \* file names; an open file's descriptor is its name
          PVals,      \* what clients store in a page; 0 is a page of zeros
          PPages,     \* bound on the pages of a file in every workload
          PSlots,     \* PF_BUFFER_SIZE
          PPins,      \* bound on the pins clients hold
          PLoads,     \* what clients do, and with which buffer manager: records
                      \* with policy ("mru": edubase, "lru": hw3), ops, and the
                      \* number of pages to which they let a file grow
          Reckless    \* whether clients clear the buffer with pages in use

VARIABLES pf,         \* buffer pool, hash table, file handles and disk
          pins        \* the pins clients hold on each page

pfVars == <<pf, pins>>

INVALID_SLOT == 0
PF_PAGE_LIST_END == -1
PF_PAGE_USED == -2
MEMORY_FD == "memory"

Blank == [nf |-> 0, val |-> 0]
EmptySlot == [fd |-> MEMORY_FD, page |-> -1, dirty |-> FALSE, pin |-> 0, data |-> Blank,
              prev |-> INVALID_SLOT, next |-> INVALID_SLOT]
NewTable(n) == [i \in 1 .. n |-> [EmptySlot EXCEPT !.next = (i + 1) % (n + 1)]]
Closed == [open |-> FALSE, firstFree |-> PF_PAGE_LIST_END, numPages |-> 0, changed |-> FALSE]
NoDisk == [exists |-> FALSE, firstFree |-> PF_PAGE_LIST_END, numPages |-> 0, pages |-> <<>>]

PfInit ==
    /\ \E load \in PLoads :
          pf = [tab |-> NewTable(PSlots), first |-> INVALID_SLOT, last |-> INVALID_SLOT,
                free |-> 1, hash |-> {}, load |-> load,
                fh |-> [f \in PFiles |-> Closed], disk |-> [f \in PFiles |-> NoDisk]]
    /\ pins = [f \in PFiles |-> [p \in 0 .. PPages - 1 |-> 0]]

Ret(b, rc) == [pf |-> b, rc |-> rc]
-----------------------------------------------------------------------------
(* The doubly linked list of slots in use, the list of free ones.          *)
\* What else a free slot still says is never read.
InsertFree(b, s) == [b EXCEPT !.tab[s] = [EmptySlot EXCEPT !.next = b.free], !.free = s]

LinkHead(b, s) ==
    LET t == [b.tab EXCEPT ![s].next = b.first, ![s].prev = INVALID_SLOT]
    IN  [b EXCEPT !.tab = IF b.first = INVALID_SLOT THEN t ELSE [t EXCEPT ![b.first].prev = s],
                  !.first = s,
                  !.last = IF @ = INVALID_SLOT THEN s ELSE @]

\* Mutant: last still points to the slot.
Unlink_last(b, s) ==
    LET n == b.tab[s].next
        p == b.tab[s].prev
        t == [i \in DOMAIN b.tab |->
                CASE i = s -> [b.tab[i] EXCEPT !.next = INVALID_SLOT, !.prev = INVALID_SLOT]
                  [] i = n /\ i # s -> [b.tab[i] EXCEPT !.prev = p]
                  [] i = p /\ i \notin {s, n} -> [b.tab[i] EXCEPT !.next = n]
                  [] OTHER -> b.tab[i]]
    IN  [b EXCEPT !.tab = t, !.first = IF @ = s THEN n ELSE @]

Unlink(b, s) ==
    LET n == b.tab[s].next
        p == b.tab[s].prev
        t == [i \in DOMAIN b.tab |->
                CASE i = s -> [b.tab[i] EXCEPT !.next = INVALID_SLOT, !.prev = INVALID_SLOT]
                  [] i = n /\ i # s -> [b.tab[i] EXCEPT !.prev = p]
                  [] i = p /\ i \notin {s, n} -> [b.tab[i] EXCEPT !.next = n]
                  [] OTHER -> b.tab[i]]
    IN  [b EXCEPT !.tab = t, !.first = IF @ = s THEN n ELSE @, !.last = IF @ = s THEN p ELSE @]

\* The slots met when a list is followed from s.
Chain(b, s, link) ==
    LET n == Len(b.tab)
        c[i \in 0 .. n] == IF i = 0 THEN s
                           ELSE IF c[i - 1] = INVALID_SLOT THEN INVALID_SLOT
                           ELSE b.tab[c[i - 1]][link]
    IN  SelectSeq([i \in 1 .. n + 1 |-> c[i - 1]], LAMBDA x : x # INVALID_SLOT)
-----------------------------------------------------------------------------
(* Hash table, and pages on disk *)
Find(b, f, p) == {e \in b.hash : e[1] = f /\ e[2] = p}
InBuf(b, f, p) == \E e \in b.hash : e[1] = f /\ e[2] = p
SlotOf(b, f, p) == (CHOOSE e \in b.hash : e[1] = f /\ e[2] = p)[3]
HashInsert(b, f, p, s) == [b EXCEPT !.hash = @ \cup {<<f, p, s>>}]
HashDelete(b, f, p) == [b EXCEPT !.hash = @ \ Find(b, f, p)]

\* Writing past the end of a file leaves zeros in between.
PutPage(pages, p, page) ==
    [i \in 1 .. (IF p < Len(pages) THEN Len(pages) ELSE p + 1) |->
        IF i = p + 1 THEN page ELSE IF i <= Len(pages) THEN pages[i] ELSE Blank]
WritePage(b, s) ==
    [b EXCEPT !.tab[s].dirty = FALSE,
              !.disk[b.tab[s].fd].pages = PutPage(@, b.tab[s].page, b.tab[s].data)]
Cleaned(b, s) == IF b.tab[s].dirty THEN WritePage(b, s) ELSE b

InitPageDesc(b, f, p, s) ==
    [b EXCEPT !.tab[s] = [@ EXCEPT !.fd = f, !.page = p, !.dirty = FALSE, !.pin = 1]]

\* The page to replace: the scan of the list of used slots, from its head
\* in edubase and from its tail in hw3.
FirstUnpinned(b, order) ==
    LET i == CHOOSE j \in 1 .. Len(order) + 1 :
                /\ j <= Len(order) => b.tab[order[j]].pin = 0
                /\ \A k \in 1 .. j - 1 : b.tab[order[k]].pin > 0
    IN  IF i <= Len(order) THEN order[i] ELSE INVALID_SLOT
VictimMRU(b) == FirstUnpinned(b, Chain(b, b.first, "next"))
VictimLRU(b) == FirstUnpinned(b, Chain(b, b.last, "prev"))
Victim(b) == IF b.load.policy = "mru" THEN VictimMRU(b) ELSE VictimLRU(b)

\* Mutant: a dirty victim is not written.
Replace_unwritten(b, s, io) ==
    IF s = INVALID_SLOT THEN Ret(b, "PF_NOBUF")
    ELSE Ret(LinkHead(Unlink(HashDelete(b, b.tab[s].fd, b.tab[s].page), s), s), "OK")

Replace(b, s, io) ==
    IF s = INVALID_SLOT THEN Ret(b, "PF_NOBUF")
    ELSE IF b.tab[s].dirty /\ ~io THEN Ret(b, "PF_UNIX")
    ELSE Ret(LinkHead(Unlink(HashDelete(Cleaned(b, s), b.tab[s].fd, b.tab[s].page), s), s), "OK")
InternalAlloc(b, io) ==
    IF b.free = INVALID_SLOT THEN Replace(b, Victim(b), io)
    ELSE Ret(LinkHead([b EXCEPT !.free = b.tab[b.free].next], b.free), "OK")
-----------------------------------------------------------------------------
(* PF_BufferMgr.  After InternalAlloc the slot is the head of the list.    *)
ToHead(b, s) == LinkHead(Unlink(b, s), s)

Pin(b, s, bMultiplePins) ==
    IF ~bMultiplePins /\ b.tab[s].pin > 0 THEN Ret(b, "PF_PAGEPINNED")
    ELSE Ret(ToHead([b EXCEPT !.tab[s].pin = @ + 1], s), "OK")
Fetch(r, f, p, io) ==
    LET s == r.pf.first
    IN  IF r.rc # "OK" THEN r
        ELSE IF ~io \/ p >= Len(r.pf.disk[f].pages)
        THEN Ret(InsertFree(Unlink(r.pf, s), s), "PF_INCOMPLETEREAD")
        ELSE Ret(InitPageDesc(HashInsert([r.pf EXCEPT !.tab[s].data = r.pf.disk[f].pages[p + 1]],
                                     f, p, s), f, p, s), "OK")
GetPage(b, f, p, bMultiplePins, io) ==
    IF InBuf(b, f, p) THEN Pin(b, SlotOf(b, f, p), bMultiplePins)
    ELSE Fetch(InternalAlloc(b, io), f, p, io)

Describe(r, f, p) == IF r.rc # "OK" THEN r
                     ELSE Ret(InitPageDesc(HashInsert(r.pf, f, p, r.pf.first), f, p, r.pf.first), "OK")
AllocPage(b, f, p, io) == IF InBuf(b, f, p) THEN Ret(b, "PF_PAGEINBUF")
                          ELSE Describe(InternalAlloc(b, io), f, p)

BufMarkDirty(b, f, p) ==
    LET s == SlotOf(b, f, p)
    IN  IF ~InBuf(b, f, p) THEN Ret(b, "PF_PAGENOTINBUF")
        ELSE IF b.tab[s].pin = 0 THEN Ret(b, "PF_PAGEUNPINNED")
        ELSE Ret(ToHead([b EXCEPT !.tab[s].dirty = TRUE], s), "OK")

BufUnpinPage(b, f, p) ==
    LET s == SlotOf(b, f, p)
        u == [b EXCEPT !.tab[s].pin = @ - 1]
    IN  IF ~InBuf(b, f, p) THEN Ret(b, "PF_PAGENOTINBUF")
        ELSE IF b.tab[s].pin = 0 THEN Ret(b, "PF_PAGEUNPINNED")
        ELSE Ret(IF b.tab[s].pin = 1 THEN ToHead(u, s) ELSE u, "OK")

\* The page in slot s leaves the pool.
Discard(b, s) == InsertFree(Unlink(HashDelete(b, b.tab[s].fd, b.tab[s].page), s), s)

\* A failed write ends the scan; a pinned page only leaves a warning.
FlushOne(f, io, r, s) ==
    LET d == r.pf.tab[s]
    IN  IF r.rc = "PF_UNIX" \/ d.fd # f THEN r
        ELSE IF d.pin > 0 THEN Ret(r.pf, "PF_PAGEPINNED")
        ELSE IF d.dirty /\ ~io THEN Ret(r.pf, "PF_UNIX")
        ELSE Ret(Discard(Cleaned(r.pf, s), s), r.rc)
BufFlushPages(b, f, io) ==
    FoldLeft(LAMBDA r, s : FlushOne(f, io, r, s), Ret(b, "OK"), Chain(b, b.first, "next"))

ForceOne(f, p, io, r, s) ==
    LET d == r.pf.tab[s]
    IN  IF r.rc # "OK" \/ d.fd # f \/ (p # -1 /\ d.page # p) \/ ~d.dirty THEN r
        ELSE IF io THEN Ret(WritePage(r.pf, s), "OK") ELSE Ret(r.pf, "PF_UNIX")
BufForcePages(b, f, p, io) ==
    FoldLeft(LAMBDA r, s : ForceOne(f, p, io, r, s), Ret(b, "OK"), Chain(b, b.first, "next"))

\* ClearBuffer throws unpinned pages away, dirty or not.
BufClearBuffer(b) ==
    FoldLeft(LAMBDA c, s : IF b.tab[s].pin = 0 THEN Discard(c, s) ELSE c,
             b, Chain(b, b.first, "next"))

\* ResizeBuffer: what ClearBuffer leaves gets a slot of the new table in the
\* hash table, and the slot goes back to the free list.
KeepPage(r, d) ==
    IF r.rc # "OK" THEN r
    ELSE LET i == Describe(InternalAlloc(r.pf, TRUE), d.fd, d.page)
         IN  IF i.rc # "OK" THEN i ELSE Ret(InsertFree(Unlink(i.pf, i.pf.first), i.pf.first), "OK")
Resized(c, kept, n) ==
    FoldLeft(KeepPage,
             Ret([c EXCEPT !.tab = NewTable(n), !.first = INVALID_SLOT, !.last = INVALID_SLOT,
                           !.free = 1, !.hash = {e \in @ : e[3] \notin Range(kept)}], "OK"),
             [i \in DOMAIN kept |-> c.tab[kept[i]]]).pf
Kept(c, n) == Resized(c, Chain(c, c.first, "next"), n)
BufResizeBuffer(b, n) == Kept(BufClearBuffer(b), n)
-----------------------------------------------------------------------------
(* PF_FileHandle and PF_Manager *)
IsValidPageNum(b, f, p) == b.fh[f].open /\ p >= 0 /\ p < b.fh[f].numPages

\* The page just got is at the head of the list.
HeadPage(b) == b.tab[b.first].data
SetHead(b, page) == [b EXCEPT !.tab[b.first].data = page]

\* Mutant: a page that is not in use stays pinned.
IfUsed_pinned(g, f, p) ==
    IF g.rc # "OK" \/ HeadPage(g.pf).nf = PF_PAGE_USED THEN g ELSE Ret(g.pf, "PF_INVALIDPAGE")

IfUsed(g, f, p) ==
    IF g.rc # "OK" \/ HeadPage(g.pf).nf = PF_PAGE_USED THEN g
    ELSE Ret(BufUnpinPage(g.pf, f, p).pf, "PF_INVALIDPAGE")
GetThisPage(b, f, p, io) ==
    IF IsValidPageNum(b, f, p) THEN IfUsed(GetPage(b, f, p, TRUE, io), f, p)
    ELSE Ret(b, "PF_INVALIDPAGE")

\* GetNextPage and GetPrevPage: the first of the candidates that is in use.
Found(g, p) == [pf |-> g.pf, page |-> p,
                rc |-> IF g.rc = "PF_INVALIDPAGE" THEN "PF_EOF" ELSE g.rc]
GetSomePage(b, f, candidates, io) ==
    FoldLeft(LAMBDA r, p : IF r.rc # "PF_EOF" THEN r ELSE Found(GetThisPage(r.pf, f, p, io), p),
             [pf |-> b, page |-> -1, rc |-> "PF_EOF"], candidates)
Forward(b, f, p) == [i \in 1 .. b.fh[f].numPages - 1 - p |-> p + i]
Backward(p) == [i \in 1 .. p |-> p - i]

\* A new page is marked used, zeroed and dirty.
NewPage(g, f, p, hdr) ==
    IF g.rc # "OK" THEN [pf |-> g.pf, page |-> -1, rc |-> g.rc]
    ELSE [pf |-> BufMarkDirty(SetHead([g.pf EXCEPT !.fh[f] = hdr], [nf |-> PF_PAGE_USED, val |-> 0]),
                              f, p).pf,
          page |-> p, rc |-> "OK"]
\* Mutant: the page stays on the list of free pages.
ReusePage_listed(g, f, h) == NewPage(g, f, h.firstFree, [h EXCEPT !.changed = TRUE])

ReusePage(g, f, h) == NewPage(g, f, h.firstFree,
                              [h EXCEPT !.firstFree = HeadPage(g.pf).nf, !.changed = TRUE])
AllocatePage(b, f, io) ==
    LET h == b.fh[f]
    IN  IF h.firstFree # PF_PAGE_LIST_END
        THEN ReusePage(GetPage(b, f, h.firstFree, TRUE, io), f, h)
        ELSE NewPage(AllocPage(b, f, h.numPages, io), f, h.numPages,
                     [h EXCEPT !.numPages = @ + 1, !.changed = TRUE])

FreePageOf(g, f, p) ==
    LET h == g.pf.fh[f]
    IN  IF g.rc # "OK" THEN g
        ELSE IF HeadPage(g.pf).nf # PF_PAGE_USED
             THEN Ret(BufUnpinPage(g.pf, f, p).pf, "PF_PAGEFREE")
        ELSE BufUnpinPage(BufMarkDirty(SetHead([g.pf EXCEPT !.fh[f] = [h EXCEPT !.firstFree = p,
                                                                               !.changed = TRUE]],
                                               [HeadPage(g.pf) EXCEPT !.nf = h.firstFree]),
                                       f, p).pf, f, p)
DisposePage(b, f, p, io) == FreePageOf(GetPage(b, f, p, FALSE, io), f, p)

\* The header goes to disk before the pages.
WriteHdr(b, f) ==
    IF ~b.fh[f].changed THEN b
    ELSE [b EXCEPT !.fh[f].changed = FALSE,
                   !.disk[f] = [@ EXCEPT !.firstFree = b.fh[f].firstFree,
                                         !.numPages = b.fh[f].numPages]]
FlushPages(b, f, io) == IF b.fh[f].changed /\ ~io THEN Ret(b, "PF_UNIX")
                        ELSE BufFlushPages(WriteHdr(b, f), f, io)
ForcePages(b, f, p, io) == IF b.fh[f].changed /\ ~io THEN Ret(b, "PF_UNIX")
                           ELSE BufForcePages(WriteHdr(b, f), f, p, io)

\* Pages that are pinned keep the file open.
ClosedIf(r, f) == IF r.rc # "OK" THEN r ELSE Ret([r.pf EXCEPT !.fh[f] = Closed], "OK")
CloseFile(b, f, io) == ClosedIf(FlushPages(b, f, io), f)

OpenFile(b, f) ==
    [b EXCEPT !.fh[f] = [open |-> TRUE, changed |-> FALSE, firstFree |-> b.disk[f].firstFree,
                         numPages |-> b.disk[f].numPages]]
-----------------------------------------------------------------------------
(* What clients do.  They unpin what they pinned, write to pages they have *)
(* pinned and then call MarkDirty, destroy files that are not open, and    *)
(* clear or resize the buffer when it holds nothing they would miss.       *)
Pinned == UNION {{<<f, p>> : p \in {q \in 0 .. PPages - 1 : pins[f][q] > 0}} : f \in PFiles}
Call(op) == op \in pf.load.ops
MayPin == Cardinality(Pinned) < PPins
Clean == Reckless \/ \A e \in pf.hash : pf.tab[e[3]].pin = 0 /\ ~pf.tab[e[3]].dirty

\* The result of a call that pins page p when it succeeds.
Pins(f, p, r) ==
    /\ pf' = r.pf
    /\ pins' = IF r.rc = "OK" THEN [pins EXCEPT ![f][p] = @ + 1] ELSE pins

Create(f) == ~pf.disk[f].exists /\ pf' = [pf EXCEPT !.disk[f].exists = TRUE] /\ UNCHANGED pins
Destroy(f) == /\ pf.disk[f].exists /\ ~pf.fh[f].open
              /\ pf' = [pf EXCEPT !.disk[f] = NoDisk] /\ UNCHANGED pins
Open(f) == /\ pf.disk[f].exists /\ ~pf.fh[f].open
           /\ pf' = OpenFile(pf, f) /\ UNCHANGED pins
Close(f, io) == pf.fh[f].open /\ pf' = CloseFile(pf, f, io).pf /\ UNCHANGED pins
GetThis(f, p, io) == /\ pf.fh[f].open /\ MayPin /\ pins[f][p] < 2
                     /\ Pins(f, p, GetThisPage(pf, f, p, io))
Scan(f, p, io) ==
    /\ pf.fh[f].open /\ MayPin
    /\ \E c \in {Forward(pf, f, p), Backward(p)} :
          LET r == GetSomePage(pf, f, c, io)
          IN  (r.rc = "OK" => pins[f][r.page] < 2) /\ Pins(f, r.page, r)
Allocate(f, io) ==
    LET r == AllocatePage(pf, f, io)
    IN  /\ pf.fh[f].open /\ MayPin
        /\ pf.fh[f].firstFree = PF_PAGE_LIST_END => pf.fh[f].numPages < pf.load.pages
        /\ Pins(f, r.page, r)
Dispose(f, p, io) == /\ Call("dispose") /\ IsValidPageNum(pf, f, p)
                     /\ pf' = DisposePage(pf, f, p, io).pf /\ UNCHANGED pins
Modify(f, p, v) ==
    /\ Call("modify") /\ pins[f][p] > 0
    /\ pf' = BufMarkDirty([pf EXCEPT !.tab[SlotOf(pf, f, p)].data.val = v], f, p).pf
    /\ UNCHANGED pins
Unpin(f, p) == /\ pins[f][p] > 0
               /\ pf' = BufUnpinPage(pf, f, p).pf
               /\ pins' = [pins EXCEPT ![f][p] = @ - 1]
Flush(f, io) == pf.fh[f].open /\ pf' = FlushPages(pf, f, io).pf /\ UNCHANGED pins
Force(f, p, io) == pf.fh[f].open /\ pf' = ForcePages(pf, f, p, io).pf /\ UNCHANGED pins
ClearBuffer == Call("resize") /\ Clean /\ pf' = BufClearBuffer(pf) /\ UNCHANGED pins
ResizeBuffer(n) == Call("resize") /\ Clean /\ pf' = BufResizeBuffer(pf, n) /\ UNCHANGED pins

\* A block is a slot whose page number is its address.
AllocateBlock(io) ==
    LET a == InternalAlloc(pf, io)
        s == a.pf.first
    IN  /\ Call("block") /\ MayPin
        /\ pf' = IF a.rc # "OK" THEN a.pf
                 ELSE InitPageDesc(HashInsert(a.pf, MEMORY_FD, s, s), MEMORY_FD, s, s)
        /\ UNCHANGED pins
DisposeBlock(s) == /\ InBuf(pf, MEMORY_FD, s) /\ pf.tab[s].pin > 0
                   /\ pf' = BufUnpinPage(pf, MEMORY_FD, s).pf /\ UNCHANGED pins

OnPage(f, p) == \/ Unpin(f, p)
                \/ \E v \in PVals : Modify(f, p, v)
                \/ \E io \in BOOLEAN : GetThis(f, p, io) \/ Scan(f, p, io) \/ Dispose(f, p, io)
                                       \/ Force(f, p, io)
OnFile(f) == \/ Create(f) \/ Destroy(f) \/ Open(f)
             \/ \E io \in BOOLEAN : Close(f, io) \/ Allocate(f, io) \/ Flush(f, io) \/ Force(f, -1, io)
OnBuffer == \/ ClearBuffer
            \/ \E n \in {PSlots, PSlots - 1} : ResizeBuffer(n)
            \/ \E io \in BOOLEAN : AllocateBlock(io)
            \/ \E s \in DOMAIN pf.tab : DisposeBlock(s)

PfNext == \/ OnBuffer
          \/ \E f \in PFiles : OnFile(f) \/ \E p \in 0 .. PPages - 1 : OnPage(f, p)

PfSpec == PfInit /\ [][PfNext]_pfVars
-----------------------------------------------------------------------------
\* The two lists hold every slot once, the list in use is the same in both
\* directions, and the hash table maps exactly the pages in it to their
\* slots.
PoolSound ==
    LET used == Chain(pf, pf.first, "next")
        free == Chain(pf, pf.free, "next")
    IN  /\ Reverse(used) = Chain(pf, pf.last, "prev")
        /\ Len(used) + Len(free) = Len(pf.tab)
        /\ Range(used) \cup Range(free) = DOMAIN pf.tab
        /\ pf.hash = {<<pf.tab[s].fd, pf.tab[s].page, s>> : s \in Range(used)}

\* The pins of a page in the pool are the ones its clients hold, and a page
\* somebody holds is in the pool (comment of PF_FileHandle::UnpinPage: a
\* page is "free to be written back" only then).
PinsExact ==
    \A f \in PFiles, p \in 0 .. PPages - 1 :
        pins[f][p] = IF InBuf(pf, f, p) THEN pf.tab[SlotOf(pf, f, p)].pin ELSE 0

\* A page as a client would find it: in the pool or else on disk.
Here(f, p) ==
    IF InBuf(pf, f, p) THEN pf.tab[SlotOf(pf, f, p)].data
    ELSE IF p < Len(pf.disk[f].pages) THEN pf.disk[f].pages[p + 1]
    ELSE Blank
Header(f) == IF pf.fh[f].open THEN pf.fh[f] ELSE pf.disk[f]

\* From the header's firstFree one meets every page that is not in use,
\* once, and then the end of the list.
FreePagesChained ==
    \A f \in PFiles :
        LET n == Header(f).numPages
            c[i \in 0 .. n] == IF i = 0 THEN Header(f).firstFree
                               ELSE IF c[i - 1] < 0 THEN c[i - 1] ELSE Here(f, c[i - 1]).nf
            met == {c[i] : i \in 0 .. n}
        IN  /\ met \ {PF_PAGE_LIST_END} = {p \in 0 .. n - 1 : Here(f, p).nf # PF_PAGE_USED}
            /\ c[n] = PF_PAGE_LIST_END

\* The layer implements paged files: what a client finds in a page is what
\* was last written to it, through replacement, failed writes, flushing,
\* closing and opening again.
FreePage == -1
NoFile == <<-2>>
Contents == [f \in PFiles |->
               IF ~pf.disk[f].exists THEN NoFile
               ELSE [i \in 1 .. Header(f).numPages |->
                       IF Here(f, i - 1).nf = PF_PAGE_USED THEN Here(f, i - 1).val ELSE FreePage]]
PagedFiles == INSTANCE PagedFile WITH store <- Contents
KeepsContents == PagedFiles!Spec
=============================================================================
