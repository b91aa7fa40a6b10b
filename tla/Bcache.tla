------------------------------- MODULE Bcache -------------------------------
(***************************************************************************)
(* The buffer cache of OS_project/xv6-public: bget, bread, bwrite, brelse  *)
(* (bio.c), the sleep lock of a buffer (sleeplock.c) and the disk driver's *)
(* request queue (ide.c).  A member of BcProcs is one use of a buffer from *)
(* bread to brelse.  An action is one critical section of bcache.lock, of  *)
(* the sleep lock's spin lock or of idelock.                               *)
(***************************************************************************)
EXTENDS Naturals, FiniteSets, FiniteSetsExt, Sequences, SequencesExt

CONSTANTS BcProcs, Blocks, NoBlock, Nobody, Values,
          NBUF   \* param.h: buffers in the cache

ASSUME BcacheConstants ==
    /\ NBUF \in Nat \ {0} /\ IsFiniteSet(BcProcs)
    /\ NoBlock \notin Blocks /\ Nobody \notin BcProcs
    /\ Nobody \notin [write : BOOLEAN, data : Values \cup {Nobody}]

Bufs == 1 .. NBUF

VARIABLES
    bcache,     \* struct buf of every buffer
    lru,        \* bcache.head's list, most recently used first
    idequeue,   \* requests to the disk; the first one is active
    active,     \* command at the controller, with the data outsl sent to it
    disk,
    bpc, my,     \* step of a user and its buffer
    want        \* the block it asked for

bcVars == <<bcache, lru, idequeue, active, disk, bpc, my, want>>

Cached(blk) == {b \in Bufs : bcache[b].blockno = blk}
\* Mutant: a buffer in use is recycled.
Free_in_use == {b \in Bufs : ~bcache[b].dirty}

\* Mutant: a buffer the log has not installed yet is recycled.
Free_dirty == {b \in Bufs : bcache[b].refcnt = 0}

Free == {b \in Bufs : bcache[b].refcnt = 0 /\ ~bcache[b].dirty}

\* Walks over bcache.head's list, from the front and from the back.
MostRecent(S) == lru[Min({i \in DOMAIN lru : lru[i] \in S})]
LeastRecent(S) == lru[Max({i \in DOMAIN lru : lru[i] \in S})]
Place(b) == CHOOSE i \in DOMAIN lru : lru[i] = b

Goto(p, s) == bpc' = [bpc EXCEPT ![p] = s]

\* No CPU that panicked holds bcache.lock.
LockFree == \A p \in BcProcs : bpc[p] # "panic"
-----------------------------------------------------------------------------
(* bget *)
BgetHit(p, blk) ==
    LET b == MostRecent(Cached(blk))
    IN  /\ bpc[p] = "idle" /\ LockFree /\ Cached(blk) # {}
        /\ bcache' = [bcache EXCEPT ![b].refcnt = @ + 1]
        /\ my' = [my EXCEPT ![p] = b]
        /\ want' = [want EXCEPT ![p] = blk]
        /\ Goto(p, "lock")
        /\ UNCHANGED <<lru, idequeue, active, disk>>

\* Mutant: the miss was found before the lock was taken.
BgetMiss_stale(p, blk) ==
    LET b == LeastRecent(Free)
    IN  /\ bpc[p] = "idle" /\ LockFree /\ Free # {}
        /\ bcache' = [bcache EXCEPT ![b] = [@ EXCEPT !.blockno = blk, !.valid = FALSE,
                                                     !.dirty = FALSE, !.refcnt = 1]]
        /\ my' = [my EXCEPT ![p] = b]
        /\ want' = [want EXCEPT ![p] = blk]
        /\ Goto(p, "lock")
        /\ UNCHANGED <<lru, idequeue, active, disk>>

\* Recycle the least recently used buffer that is clean and unused.
BgetMiss(p, blk) ==
    LET b == LeastRecent(Free)
    IN  /\ bpc[p] = "idle" /\ LockFree /\ Cached(blk) = {} /\ Free # {}
        /\ bcache' = [bcache EXCEPT ![b] = [@ EXCEPT !.blockno = blk, !.valid = FALSE,
                                                     !.dirty = FALSE, !.refcnt = 1]]
        /\ my' = [my EXCEPT ![p] = b]
        /\ want' = [want EXCEPT ![p] = blk]
        /\ Goto(p, "lock")
        /\ UNCHANGED <<lru, idequeue, active, disk>>

\* panic("bget: no buffers"): this CPU stops with bcache.lock held.
BgetPanic(p, blk) ==
    /\ bpc[p] = "idle" /\ LockFree /\ Cached(blk) = {} /\ Free = {}
    /\ Goto(p, "panic")
    /\ UNCHANGED <<bcache, lru, idequeue, active, disk, my, want>>
-----------------------------------------------------------------------------
(* The sleep lock of a buffer *)
AcquireSleep(p) ==
    /\ bpc[p] = "lock"
    /\ IF bcache[my[p]].locked
       THEN Goto(p, "locksleep") /\ UNCHANGED bcache
       ELSE Goto(p, "locked") /\ bcache' = [bcache EXCEPT ![my[p]].locked = TRUE]
    /\ UNCHANGED <<lru, idequeue, active, disk, my, want>>

\* Mutant: releasesleep does not wake the sleepers.
ReleaseSleep_no_wakeup(p) ==
    /\ bpc[p] = "have"
    /\ bcache' = [bcache EXCEPT ![my[p]].locked = FALSE]
    /\ Goto(p, "unref")
    /\ UNCHANGED <<lru, idequeue, active, disk, my, want>>

\* brelse, first half: the sleepers of this lock run again.
ReleaseSleep(p) ==
    /\ bpc[p] = "have"
    /\ bcache' = [bcache EXCEPT ![my[p]].locked = FALSE]
    /\ bpc' = [q \in BcProcs |-> IF q = p THEN "unref"
                                ELSE IF bpc[q] = "locksleep" /\ my[q] = my[p] THEN "lock"
                                ELSE bpc[q]]
    /\ UNCHANGED <<lru, idequeue, active, disk, my, want>>

\* Mutant: the buffer is not unlinked from its old place.
Unref_linked_twice(p) ==
    /\ bpc[p] = "unref" /\ LockFree
    /\ bcache' = [bcache EXCEPT ![my[p]].refcnt = @ - 1]
    /\ lru' = <<my[p]>> \o lru
    /\ my' = [my EXCEPT ![p] = 1] /\ want' = [want EXCEPT ![p] = NoBlock]
    /\ Goto(p, "idle")
    /\ UNCHANGED <<idequeue, active, disk>>

\* brelse, second half, under bcache.lock.
Unref(p) ==
    LET b == my[p]
        last == bcache[b].refcnt = 1
    IN  /\ bpc[p] = "unref" /\ LockFree
        /\ bcache' = [bcache EXCEPT ![b].refcnt = @ - 1]
        /\ lru' = IF last THEN <<b>> \o RemoveAt(lru, Place(b)) ELSE lru
        /\ my' = [my EXCEPT ![p] = 1] /\ want' = [want EXCEPT ![p] = NoBlock]
        /\ Goto(p, "idle")
        /\ UNCHANGED <<idequeue, active, disk>>
-----------------------------------------------------------------------------
(* bread, bwrite and the disk driver *)

\* idestart: a read command, or a write command and the buffer's data.
Idestart(b, bc) == [write |-> bc[b].dirty,
                    data |-> IF bc[b].dirty THEN bc[b].data ELSE Nobody]

\* iderw up to its sleep: the request is queued, and started if it is alone.
Iderw(p, bc) ==
    /\ idequeue' = Append(idequeue, my[p])
    /\ active' = IF idequeue = <<>> THEN Idestart(my[p], bc) ELSE active
    /\ Goto(p, "io")

\* bread with the buffer locked.
Bread(p) ==
    /\ bpc[p] = "locked"
    /\ IF bcache[my[p]].valid
       THEN Goto(p, "have") /\ UNCHANGED <<idequeue, active>>
       ELSE Iderw(p, bcache)
    /\ UNCHANGED <<bcache, lru, disk, my, want>>

\* The user changes the data and calls bwrite.
Bwrite(p, v) ==
    /\ bpc[p] = "have"
    /\ bcache' = [bcache EXCEPT ![my[p]].data = v, ![my[p]].dirty = TRUE]
    /\ Iderw(p, bcache')
    /\ UNCHANGED <<lru, disk, my, want>>

\* Mutant: log_write forgets B_DIRTY.
LogWrite_clean(p, v) ==
    /\ bpc[p] = "have"
    /\ bcache' = [bcache EXCEPT ![my[p]].data = v]
    /\ UNCHANGED <<lru, idequeue, active, disk, bpc, my, want>>

\* The user changes the data and calls log_write, which pins the buffer.
LogWrite(p, v) ==
    /\ bpc[p] = "have"
    /\ bcache' = [bcache EXCEPT ![my[p]].data = v, ![my[p]].dirty = TRUE]
    /\ UNCHANGED <<lru, idequeue, active, disk, bpc, my, want>>

\* Mutant: the next request is not started.
Ideintr_no_restart ==
    LET b == Head(idequeue)
        blk == bcache[b].blockno
    IN  /\ active # Nobody
        /\ disk' = IF active.write THEN [disk EXCEPT ![blk] = active.data] ELSE disk
        /\ bcache' = [bcache EXCEPT ![b].data = IF active.write THEN @ ELSE disk[blk],
                                    ![b].valid = TRUE, ![b].dirty = FALSE]
        /\ idequeue' = Tail(idequeue)
        /\ active' = Nobody
        /\ bpc' = [q \in BcProcs |-> IF bpc[q] = "io" /\ my[q] = b THEN "woken" ELSE bpc[q]]
        /\ UNCHANGED <<lru, my, want>>

\* The disk has done the first request: ideintr wakes its user and starts
\* the next one.
Ideintr ==
    LET b == Head(idequeue)
        blk == bcache[b].blockno
        wr == bcache[b].dirty
    IN  /\ active # Nobody
        /\ disk' = IF active.write THEN [disk EXCEPT ![blk] = active.data] ELSE disk
        /\ bcache' = [bcache EXCEPT ![b].data = IF wr THEN @ ELSE disk[blk],
                                    ![b].valid = TRUE, ![b].dirty = FALSE]
        /\ idequeue' = Tail(idequeue)
        /\ active' = IF Tail(idequeue) = <<>> THEN Nobody
                     ELSE Idestart(idequeue[2], bcache)
        /\ bpc' = [q \in BcProcs |-> IF bpc[q] = "io" /\ my[q] = b THEN "woken" ELSE bpc[q]]
        /\ UNCHANGED <<lru, my, want>>

\* The user's loop in iderw sees the flags and returns.
IderwDone(p) ==
    /\ bpc[p] = "woken"
    /\ Goto(p, IF bcache[my[p]].valid /\ ~bcache[my[p]].dirty THEN "have" ELSE "io")
    /\ UNCHANGED <<bcache, lru, idequeue, active, disk, my, want>>
-----------------------------------------------------------------------------
\* binit(): the buffers hold device 0, block 0, which nobody asks for.
BcInit == /\ bcache = [b \in Bufs |-> [blockno |-> NoBlock, valid |-> FALSE,
                                     dirty |-> FALSE, refcnt |-> 0,
                                     locked |-> FALSE, data |-> Nobody]]
        /\ lru = [i \in Bufs |-> NBUF + 1 - i]
        /\ idequeue = <<>> /\ active = Nobody
        /\ disk \in [Blocks -> Values]
        /\ bpc = [p \in BcProcs |-> "idle"]
        /\ my = [p \in BcProcs |-> 1]
        /\ want = [p \in BcProcs |-> NoBlock]

User(p) == \/ AcquireSleep(p) \/ ReleaseSleep(p) \/ Unref(p)
           \/ Bread(p) \/ IderwDone(p)
           \/ \E blk \in Blocks : BgetHit(p, blk) \/ BgetMiss(p, blk) \/ BgetPanic(p, blk)
           \/ \E v \in Values : Bwrite(p, v) \/ LogWrite(p, v)

BcNext == Ideintr \/ \E p \in BcProcs : User(p)

BcSpec == BcInit /\ [][BcNext]_bcVars

\* The disk answers every request, and a user that has work in the kernel
\* gets on with it.
BcFairness == /\ WF_bcVars(Ideintr)
              /\ \A p \in BcProcs : WF_bcVars(Bread(p) \/ IderwDone(p))

BcLiveSpec == BcSpec /\ BcFairness
-----------------------------------------------------------------------------
(***************************************************************************)
(* Properties                                                              *)
(***************************************************************************)
BcSteps == {"idle", "panic", "lock", "locksleep", "locked", "io", "woken", "have", "unref"}

\* Every field has its type, and the list holds every buffer once.
BcTypeOK ==
    /\ bcache \in [Bufs -> [blockno : Blocks \cup {NoBlock}, valid : BOOLEAN,
                            dirty : BOOLEAN, refcnt : 0 .. Cardinality(BcProcs),
                            locked : BOOLEAN, data : Values \cup {Nobody}]]
    /\ Len(lru) = NBUF /\ ToSet(lru) = Bufs
    /\ IsInjective(idequeue) /\ ToSet(idequeue) \subseteq Bufs
    /\ disk \in [Blocks -> Values]
    /\ bpc \in [BcProcs -> BcSteps] /\ my \in [BcProcs -> Bufs]

\* A block is in one buffer at most.
OneCopy == \A blk \in Blocks : \A b, c \in Cached(blk) : b = c

Inside(p) == bpc[p] \in {"locked", "io", "woken", "have"}

\* Between bread and brelse the buffer stays with its user: it holds the
\* block asked for, nobody else has it, and at "have" its data are valid.
UserExclusive ==
    \A p \in BcProcs : Inside(p) =>
        /\ bcache[my[p]].blockno = want[p] /\ bcache[my[p]].locked
        /\ bpc[p] = "have" => bcache[my[p]].valid
        /\ \A q \in BcProcs : Inside(q) /\ my[q] = my[p] => q = p

\* Nobody sleeps for a free sleep lock or for a request the disk does not
\* have: no wakeup of releasesleep or ideintr is missed.
WaitJustified ==
    \A p \in BcProcs : /\ bpc[p] = "locksleep" => bcache[my[p]].locked
                       /\ bpc[p] = "io" => my[p] \in ToSet(idequeue)

\* A clean valid buffer is what the disk holds, so that bget may recycle it.
CleanIsOnDisk ==
    \A b \in Bufs : (bcache[b].valid /\ ~bcache[b].dirty)
                    => bcache[b].data = disk[bcache[b].blockno]

\* bio.c: "a synchronization point for disk blocks used by multiple
\* processes": recycling buffers and queueing requests is invisible, a user
\* finds in a block what the last one left there.
Content == [blk \in Blocks |->
              IF \E b \in Cached(blk) : bcache[b].valid \/ bcache[b].dirty
              THEN bcache[CHOOSE b \in Cached(blk) : TRUE].data ELSE disk[blk]]
Holder == [blk \in Blocks |->
              IF \E p \in BcProcs : Inside(p) /\ want[p] = blk
              THEN CHOOSE p \in BcProcs : Inside(p) /\ want[p] = blk ELSE Nobody]
Store == INSTANCE BlockStore WITH Procs <- BcProcs, content <- Content, holder <- Holder
Transparent == Store!StoreSpec

\* Every request to the disk returns to its user.
RequestDone == \A p \in BcProcs : bpc[p] = "io" ~> bpc[p] = "have"

\* The list of buffers, their locks and their contents: every buffer is on
\* the list once, a block has one buffer and a buffer one user, a sleeper has
\* somebody to wake it, and a clean buffer is its block (bio.c).
CacheSound == BcTypeOK /\ OneCopy /\ UserExclusive /\ WaitJustified /\ CleanIsOnDisk
=============================================================================
