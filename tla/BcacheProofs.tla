----------------------------- MODULE BcacheProofs -----------------------------
(***************************************************************************)
(* Proofs about the buffer cache, for any number of uses, buffers, blocks  *)
(* and values.  The inductive invariant says that refcnt counts the users  *)
(* of a buffer (Counted), that a buffer in use keeps its block (Wanted),   *)
(* that a sleep lock has one holder who finds what it needs (Exclusive),   *)
(* that a dirty buffer has contents (Filled), and that every request has a *)
(* user waiting for it (Queued); with it the cache implements BlockStore.  *)
(***************************************************************************)
EXTENDS Bcache, Integers, FiniteSetTheorems, SequenceTheorems,
        WellFoundedInduction, TLAPS

\* A nonempty set of naturals has a least member.
LEMMA MinExists ==
    ASSUME NEW S, S \subseteq Nat, S # {}
    PROVE  \E x \in S : \A y \in S : x <= y
  <1> DEFINE R == OpToRel(<, Nat)
  <1>1. IsWellFoundedOn(R, Nat)  BY NatLessThanWellFounded
  <1>2. \A x, y \in Nat : y < x => <<y, x>> \in R  BY DEF OpToRel
  <1> HIDE DEF R
  <1>3. PICK x \in S : \A y \in S : ~ (<<y, x>> \in R)  BY <1>1, WFMin
  <1>4. \A y \in S : x <= y
    <2> TAKE y \in S
    <2>1. x \in Nat /\ y \in Nat /\ ~(y < x)  BY <1>2, <1>3
    <2> QED  BY <2>1
  <1> QED  BY <1>4

\* Max of a nonempty set of positions is one of them.
LEMMA MaxExists ==
    ASSUME NEW k \in Nat, NEW S, S \subseteq 1 .. k, S # {}
    PROVE  Max(S) \in S
  <1> DEFINE T == {k - i : i \in S}
  <1>1. T \subseteq Nat  OBVIOUS
  <1>2. T # {}
    <2>1. PICK i : i \in S  OBVIOUS
    <2>2. k - i \in T  BY <2>1
    <2> QED  BY <2>2
  <1>3. PICK t \in T : \A u \in T : t <= u  BY <1>1, <1>2, MinExists
  <1>4. PICK x \in S : t = k - x  BY <1>3
  <1>5. \A y \in S : x >= y
    <2> TAKE y \in S
    <2>1. k - x <= k - y  BY <1>3, <1>4
    <2>2. x \in Int /\ y \in Int OBVIOUS
    <2> QED  BY <2>1, <2>2
  <1> QED  BY <1>5 DEF Max

\* Min of a nonempty set of naturals is one of them.
LEMMA MinInSet ==
    ASSUME NEW S, S \subseteq Nat, S # {}
    PROVE  Min(S) \in S
  BY MinExists DEF Min
-----------------------------------------------------------------------------
\* From bget's refcnt++ to brelse's refcnt--.
Holding == {"lock", "locksleep", "locked", "io", "woken", "have", "unref"}

\* The uses that count in b's refcnt.
Users(b) == {p \in BcProcs : bpc[p] \in Holding /\ my[p] = b}

\* struct buf.
Kinds == [blockno : Blocks \cup {NoBlock}, valid : BOOLEAN, dirty : BOOLEAN,
          refcnt : 0 .. Cardinality(BcProcs), locked : BOOLEAN,
          data : Values \cup {Nobody}]

\* Every variable has its type; list and queue hold a buffer once.
Typed ==
    /\ bcache \in [Bufs -> Kinds]
    /\ lru \in [Bufs -> Bufs] /\ IsInjective(lru) /\ ToSet(lru) = Bufs
    /\ idequeue \in Seq(Bufs) /\ IsInjective(idequeue)
    /\ active \in {Nobody} \cup [write : BOOLEAN, data : Values \cup {Nobody}]
    /\ disk \in [Blocks -> Values]
    /\ bpc \in [BcProcs -> BcSteps] /\ my \in [BcProcs -> Bufs]
    /\ want \in [BcProcs -> Blocks \cup {NoBlock}]

\* refcnt is the number of uses: bget and brelse keep in step.
Counted == \A b \in Bufs : bcache[b].refcnt = Cardinality(Users(b))

\* A buffer in use holds the block its user asked for: bget recycles none.
Wanted ==
    \A p \in BcProcs : bpc[p] \in Holding =>
        want[p] \in Blocks /\ bcache[my[p]].blockno = want[p]

\* The sleep lock has one holder.  At "have" the data are valid, and the flags
\* that iderw waits for are set when its user is woken.
Exclusive ==
    \A p \in BcProcs : Inside(p) =>
        /\ bcache[my[p]].locked
        /\ bpc[p] = "have" => bcache[my[p]].valid
        /\ bpc[p] = "woken" => bcache[my[p]].valid /\ ~bcache[my[p]].dirty
        /\ \A q \in BcProcs : Inside(q) /\ my[q] = my[p] => q = p

\* Dirty data were read or written first, and belong to a block.
Filled ==
    \A b \in Bufs : /\ bcache[b].dirty => bcache[b].valid
                    /\ bcache[b].valid => /\ bcache[b].blockno \in Blocks
                                          /\ bcache[b].data \in Values

\* A user waits for every request, and the controller works on the first one
\* with the data that the buffer has.
Queued ==
    /\ \A b \in ToSet(idequeue) : \E p \in BcProcs : bpc[p] = "io" /\ my[p] = b
    /\ active # Nobody <=> idequeue # <<>>
    /\ active # Nobody => active = Idestart(Head(idequeue), bcache)

\* The inductive invariant.
BcInv == /\ Typed /\ Counted /\ Wanted /\ OneCopy /\ Exclusive
         /\ WaitJustified /\ CleanIsOnDisk /\ Filled /\ Queued

\* binit() establishes the invariant.
LEMMA BcInitInv == BcInit => BcInv
  <1> SUFFICES ASSUME BcInit PROVE BcInv  OBVIOUS
  <1>1. Cardinality(BcProcs) \in Nat  BY FS_CardinalityType, BcacheConstants
  <1>2. lru \in [Bufs -> Bufs] /\ IsInjective(lru) /\ ToSet(lru) = Bufs
    <2>1. DOMAIN lru = Bufs /\ \A i \in Bufs : lru[i] = NBUF + 1 - i  BY DEF BcInit
    <2>2. \A i \in Bufs : NBUF + 1 - i \in Bufs /\ NBUF + 1 - (NBUF + 1 - i) = i
      BY BcacheConstants DEF Bufs
    <2>3. lru \in [Bufs -> Bufs] BY <2>2 DEF BcInit
    <2>4. \A i, j \in Bufs : lru[i] = lru[j] => i = j  BY <2>1, BcacheConstants DEF Bufs
    <2>5. \A b \in Bufs : b \in ToSet(lru)  BY <2>1, <2>2 DEF ToSet
    <2> QED  BY <2>1, <2>3, <2>4, <2>5 DEF IsInjective, ToSet
  <1>3. idequeue \in Seq(Bufs) /\ IsInjective(idequeue) /\ ToSet(idequeue) = {}
    BY DEF BcInit, IsInjective, ToSet
  <1>4. 1 \in Bufs  BY BcacheConstants DEF Bufs
  <1>5. Typed  BY <1>1, <1>2, <1>3, <1>4 DEF BcInit, Typed, Kinds, BcSteps
  <1>6. \A b \in Bufs : Users(b) = {}  BY DEF BcInit, Users, Holding
  <1>7. Counted  BY <1>6, FS_EmptySet DEF BcInit, Counted
  <1>8. OneCopy  BY BcacheConstants DEF BcInit, OneCopy, Cached
  <1>9. Wanted /\ Exclusive /\ WaitJustified
    BY DEF BcInit, Wanted, Holding, Exclusive, WaitJustified, Inside
  <1>10. CleanIsOnDisk /\ Filled  BY DEF BcInit, CleanIsOnDisk, Filled
  <1>11. Queued  BY <1>3 DEF BcInit, Queued
  <1> QED  BY <1>5, <1>7, <1>8, <1>9, <1>10, <1>11 DEF BcInv

\* The users of a buffer are a finite set, no more than there are uses.
LEMMA UsersFinite ==
    \A b : IsFiniteSet(Users(b)) /\ Cardinality(Users(b)) \in 0 .. Cardinality(BcProcs)
  <1> TAKE b
  <1>1. Users(b) \subseteq BcProcs  BY DEF Users
  <1> QED  BY <1>1, FS_Subset, FS_CardinalityType, BcacheConstants

\* A step between bget and brelse leaves refcnt right.
LEMMA SameUsers ==
    ASSUME Counted, my' = my,
           \A p \in BcProcs : bpc'[p] \in Holding <=> bpc[p] \in Holding,
           \A b \in Bufs : bcache'[b].refcnt = bcache[b].refcnt
    PROVE  Counted'
  <1>1. \A b : Users(b)' = Users(b)  BY DEF Users
  <1> QED  BY <1>1 DEF Counted

\* A use that gets buffer b in bget makes refcnt one more, and no overflow.
LEMMA Enters ==
    ASSUME Typed, Counted, NEW p \in BcProcs, NEW b \in Bufs, bpc[p] = "idle",
           bpc' = [bpc EXCEPT ![p] = "lock"], my' = [my EXCEPT ![p] = b],
           bcache'[b].refcnt = Cardinality(Users(b)) + 1,
           \A c \in Bufs \ {b} : bcache'[c].refcnt = bcache[c].refcnt
    PROVE  Counted' /\ Cardinality(Users(b)) + 1 \in 0 .. Cardinality(BcProcs)
  <1>1. Users(b)' = Users(b) \cup {p} /\ p \notin Users(b)  BY DEF Users, Holding, Typed
  <1>2. \A c \in Bufs \ {b} : Users(c)' = Users(c)  BY DEF Users, Holding, Typed
  <1>3. Cardinality(Users(b) \cup {p}) = Cardinality(Users(b)) + 1
    BY <1>1, UsersFinite, FS_AddElement
  <1>4. Users(b) \cup {p} \subseteq BcProcs  BY DEF Users
  <1>5. Cardinality(Users(b) \cup {p}) \in 0 .. Cardinality(BcProcs)
    BY <1>4, FS_Subset, FS_CardinalityType, BcacheConstants
  <1> QED  BY <1>1, <1>2, <1>3, <1>5 DEF Counted

\* The two walks over the list end at a buffer they look for.
LEMMA Places ==
    ASSUME Typed, NEW S, S \subseteq Bufs, S # {}
    PROVE  MostRecent(S) \in S /\ LeastRecent(S) \in S
  <1> DEFINE I == {i \in DOMAIN lru : lru[i] \in S}
  <1>1. I \subseteq 1 .. NBUF /\ I \subseteq Nat  BY BcacheConstants DEF Typed, Bufs
  <1>2. I # {}
    <2>1. PICK b \in S : b \in ToSet(lru)  BY DEF Typed
    <2> QED  BY <2>1 DEF ToSet
  <1>3. Min(I) \in I /\ Max(I) \in I  BY <1>1, <1>2, MinInSet, MaxExists, BcacheConstants
  <1> QED  BY <1>3 DEF MostRecent, LeastRecent

\* Setting refcnt leaves a struct buf.
LEMMA CountTyped ==
    ASSUME NEW f \in [Bufs -> Kinds], NEW b \in Bufs, NEW k \in 0 .. Cardinality(BcProcs)
    PROVE  [f EXCEPT ![b].refcnt = k] \in [Bufs -> Kinds]
  <1>1. [f[b] EXCEPT !.refcnt = k] \in Kinds  BY DEF Kinds
  <1> QED  BY <1>1

\* Setting locked leaves a struct buf.
LEMMA LockTyped ==
    ASSUME NEW f \in [Bufs -> Kinds], NEW b \in Bufs, NEW x \in BOOLEAN
    PROVE  [f EXCEPT ![b].locked = x] \in [Bufs -> Kinds]
  <1>1. [f[b] EXCEPT !.locked = x] \in Kinds  BY DEF Kinds
  <1> QED  BY <1>1

\* bget that finds the block keeps the invariant.
LEMMA HitStep ==
    ASSUME BcInv, NEW p \in BcProcs, NEW blk \in Blocks, BgetHit(p, blk)
    PROVE  BcInv'
  <1> USE DEF BcInv
  <1> DEFINE b == MostRecent(Cached(blk))
  <1>1. b \in Bufs /\ bcache[b].blockno = blk
    BY Places DEF BgetHit, Cached
  <1>2. /\ bpc[p] = "idle" /\ bpc' = [bpc EXCEPT ![p] = "lock"]
        /\ bcache' = [bcache EXCEPT ![b].refcnt = @ + 1]
        /\ my' = [my EXCEPT ![p] = b] /\ want' = [want EXCEPT ![p] = blk]
        /\ UNCHANGED <<lru, idequeue, active, disk>>
    BY DEF BgetHit, Goto
  <1> HIDE DEF b
  <1>3. \A c \in Bufs : /\ bcache'[c].blockno = bcache[c].blockno
                        /\ bcache'[c].valid = bcache[c].valid
                        /\ bcache'[c].dirty = bcache[c].dirty
                        /\ bcache'[c].locked = bcache[c].locked
                        /\ bcache'[c].data = bcache[c].data
                        /\ bcache'[c].refcnt = IF c = b THEN bcache[b].refcnt + 1
                                                        ELSE bcache[c].refcnt
    BY <1>1, <1>2 DEF Typed, Kinds
  <1>4. Counted' /\ bcache[b].refcnt + 1 \in 0 .. Cardinality(BcProcs)
    <2>1. bcache[b].refcnt = Cardinality(Users(b))  BY <1>1 DEF Counted
    <2>2. bcache'[b].refcnt = Cardinality(Users(b)) + 1  BY <1>1, <1>3, <2>1
    <2>3. \A c \in Bufs \ {b} : bcache'[c].refcnt = bcache[c].refcnt  BY <1>3
    <2> QED  BY <1>1, <1>2, <2>1, <2>2, <2>3, Enters
  <1>5. Typed'
    <2>1. bcache' \in [Bufs -> Kinds]  BY <1>1, <1>2, <1>4, CountTyped DEF Typed
    <2> QED  BY <1>1, <1>2, <2>1 DEF Typed, BcSteps
  <1>6. Wanted'  BY <1>1, <1>2, <1>3 DEF Wanted, Typed, Holding
  <1>7. OneCopy'  BY <1>3 DEF OneCopy, Cached
  <1>8. \A q \in BcProcs : /\ Inside(q)' => Inside(q) /\ q # p
                           /\ q # p => my'[q] = my[q] /\ bpc'[q] = bpc[q]
    BY <1>2 DEF Inside, Typed
  <1>9. Exclusive'  BY <1>1, <1>2, <1>3, <1>8 DEF Exclusive, Typed
  <1>10. WaitJustified'  BY <1>2, <1>3, <1>8 DEF WaitJustified, Typed
  <1>11. CleanIsOnDisk' /\ Filled'  BY <1>2, <1>3 DEF CleanIsOnDisk, Filled
  <1>12. Queued'
    <2>1. \A c \in ToSet(idequeue) : c \in Bufs BY DEF ToSet, Typed
    <2>2. idequeue # <<>> => Head(idequeue) \in Bufs BY DEF Typed
    <2> QED BY <1>2, <1>3, <1>8, <2>1, <2>2 DEF Queued, Idestart
  <1> QED  BY <1>4, <1>5, <1>6, <1>7, <1>9, <1>10, <1>11, <1>12

\* bget that recycles a buffer keeps the invariant: nobody uses the buffer, so
\* no user loses its block, and no request of it is queued.
LEMMA MissStep ==
    ASSUME BcInv, NEW p \in BcProcs, NEW blk \in Blocks, BgetMiss(p, blk)
    PROVE  BcInv'
  <1> USE DEF BcInv
  <1> DEFINE b == LeastRecent(Free)
             r == [bcache[b] EXCEPT !.blockno = blk, !.valid = FALSE,
                                    !.dirty = FALSE, !.refcnt = 1]
  <1>1. b \in Bufs /\ bcache[b].refcnt = 0 /\ Cached(blk) = {}
    BY Places DEF BgetMiss, Free
  <1>2. /\ bpc[p] = "idle" /\ bpc' = [bpc EXCEPT ![p] = "lock"]
        /\ bcache' = [bcache EXCEPT ![b] = r]
        /\ my' = [my EXCEPT ![p] = b] /\ want' = [want EXCEPT ![p] = blk]
        /\ UNCHANGED <<lru, idequeue, active, disk>>
    BY DEF BgetMiss, Goto
  <1>3. Cardinality(Users(b)) = 0 /\ Users(b) = {}
    BY <1>1, UsersFinite, FS_EmptySet DEF Counted
  <1>4. \A q \in BcProcs : bpc[q] \in Holding => my[q] # b  BY <1>3 DEF Users
  <1> HIDE DEF b
  <1>5. /\ r.blockno = blk /\ r.valid = FALSE /\ r.dirty = FALSE /\ r.refcnt = 1
        /\ r.locked = bcache[b].locked /\ r.data = bcache[b].data
    BY <1>1 DEF Typed, Kinds
  <1>6. /\ bcache'[b] = r /\ \A c \in Bufs \ {b} : bcache'[c] = bcache[c]
        /\ \A c \in Bufs : bcache'[c].locked = bcache[c].locked
    BY <1>1, <1>2 DEF Typed
  <1>7. Counted' /\ 1 \in 0 .. Cardinality(BcProcs)
    <2>1. bcache'[b].refcnt = Cardinality(Users(b)) + 1  BY <1>3, <1>5, <1>6
    <2>2. \A c \in Bufs \ {b} : bcache'[c].refcnt = bcache[c].refcnt  BY <1>6
    <2>3. Counted' /\ Cardinality(Users(b)) + 1 \in 0 .. Cardinality(BcProcs)
      BY <1>1, <1>2, <2>1, <2>2, Enters
    <2> QED  BY <2>3, <1>3
  <1>8. Typed'
    <2>1. r \in Kinds
      <3>1. bcache[b] \in Kinds  BY <1>1 DEF Typed
      <3> DEFINE r1 == [bcache[b] EXCEPT !.blockno = blk]
                 r2 == [r1 EXCEPT !.valid = FALSE]
                 r3 == [r2 EXCEPT !.dirty = FALSE]
                 r4 == [r3 EXCEPT !.refcnt = 1]
      <3>2. r1 \in Kinds  BY <3>1 DEF Kinds
      <3> HIDE DEF r1
      <3>3. r2 \in Kinds  BY <3>2 DEF Kinds
      <3> HIDE DEF r2
      <3>4. r3 \in Kinds  BY <3>3 DEF Kinds
      <3> HIDE DEF r3
      <3>5. r4 \in Kinds  BY <3>4, <1>7 DEF Kinds
      <3>6. r = r4  BY DEF r1, r2, r3
      <3> QED  BY <3>5, <3>6
    <2> HIDE DEF r
    <2>2. bcache' \in [Bufs -> Kinds]  BY <1>1, <1>2, <2>1 DEF Typed
    <2> QED  BY <1>1, <1>2, <2>2 DEF Typed, BcSteps
  <1> HIDE DEF r
  <1>9. Wanted'
    <2>1. my'[p] = b /\ want'[p] = blk  BY <1>2 DEF Typed
    <2>2. \A q \in BcProcs \ {p} : my'[q] = my[q] /\ want'[q] = want[q] /\ bpc'[q] = bpc[q]
      BY <1>2 DEF Typed
    <2>3. \A q \in BcProcs : my[q] \in Bufs  BY DEF Typed
    <2> QED  BY <1>4, <1>5, <1>6, <2>1, <2>2, <2>3 DEF Wanted
  <1>10. OneCopy'
    <2>1. \A c \in Bufs : bcache'[c].blockno = IF c = b THEN blk ELSE bcache[c].blockno
      BY <1>5, <1>6
    <2> QED  BY <1>1, <2>1 DEF OneCopy, Cached
  <1>11. \A q \in BcProcs : /\ Inside(q)' => Inside(q) /\ q # p
                            /\ q # p => my'[q] = my[q] /\ bpc'[q] = bpc[q]
                            /\ Inside(q) \/ bpc[q] = "locksleep" => my[q] # b /\ my[q] \in Bufs
    BY <1>2, <1>4 DEF Inside, Typed, Holding
  <1>12. Exclusive'  BY <1>6, <1>11 DEF Exclusive
  <1>13. WaitJustified'
    BY <1>2, <1>5, <1>6, <1>11 DEF WaitJustified, Typed, Inside
  <1>14. CleanIsOnDisk' /\ Filled'  BY <1>2, <1>5, <1>6 DEF CleanIsOnDisk, Filled
  <1>15. Queued'
    <2>1. \A c \in ToSet(idequeue) : c \in Bufs \ {b}
      <3> TAKE c \in ToSet(idequeue)
      <3>1. PICK q \in BcProcs : bpc[q] = "io" /\ my[q] = c  BY DEF Queued
      <3> QED  BY <1>4, <3>1 DEF Typed, Holding
    <2>2. idequeue # <<>> => Head(idequeue) \in Bufs \ {b}
      BY <2>1 DEF Typed, ToSet
    <2> QED BY <1>2, <1>6, <1>11, <2>1, <2>2 DEF Queued, Idestart, Inside
  <1> QED  BY <1>7, <1>8, <1>9, <1>10, <1>12, <1>13, <1>14, <1>15

\* panic("bget: no buffers") changes nothing but the CPU that stops.
LEMMA PanicStep ==
    ASSUME BcInv, NEW p \in BcProcs, NEW blk \in Blocks, BgetPanic(p, blk)
    PROVE  BcInv'
  <1> USE DEF BcInv
  <1>1. /\ bpc[p] = "idle" /\ bpc' = [bpc EXCEPT ![p] = "panic"]
        /\ UNCHANGED <<bcache, lru, idequeue, active, disk, my, want>>
    BY DEF BgetPanic, Goto
  <1>2. Typed'  BY <1>1 DEF Typed, BcSteps
  <1>3. Counted'  BY <1>1, SameUsers DEF Typed, Holding
  <1>4. OneCopy' /\ CleanIsOnDisk' /\ Filled'
    BY <1>1 DEF OneCopy, Cached, CleanIsOnDisk, Filled
  <1>5. Wanted' /\ Exclusive' /\ WaitJustified'
    BY <1>1 DEF Wanted, Holding, Exclusive, Inside, WaitJustified, Typed
  <1>6. Queued'  BY <1>1 DEF Queued, Typed
  <1> QED  BY <1>2, <1>3, <1>4, <1>5, <1>6

\* acquiresleep keeps the invariant: the lock is taken when nobody has it.
LEMMA AcquireStep ==
    ASSUME BcInv, NEW p \in BcProcs, AcquireSleep(p)
    PROVE  BcInv'
  <1> USE DEF BcInv
  <1> DEFINE b == my[p]
  <1>1. /\ bpc[p] = "lock" /\ UNCHANGED <<lru, idequeue, active, disk, my, want>>
        /\ b \in Bufs
    BY DEF AcquireSleep, Typed
  <1>2. CASE bcache[b].locked
    <2>1. bcache' = bcache /\ bpc' = [bpc EXCEPT ![p] = "locksleep"]
      BY <1>2 DEF AcquireSleep, Goto
    <2>2. Typed'  BY <1>1, <2>1 DEF Typed, BcSteps
    <2>3. Counted'  BY <1>1, <2>1, SameUsers DEF Typed, Holding
    <2>4. OneCopy' /\ CleanIsOnDisk' /\ Filled'
      BY <1>1, <2>1 DEF OneCopy, Cached, CleanIsOnDisk, Filled
    <2>5. Wanted' /\ Exclusive' /\ WaitJustified'
      BY <1>1, <1>2, <2>1 DEF Wanted, Holding, Exclusive, Inside, WaitJustified, Typed
    <2>6. Queued'  BY <1>1, <2>1 DEF Queued, Typed
    <2> QED  BY <2>2, <2>3, <2>4, <2>5, <2>6
  <1>3. CASE ~bcache[b].locked
    <2>1. bcache' = [bcache EXCEPT ![b].locked = TRUE] /\ bpc' = [bpc EXCEPT ![p] = "locked"]
      BY <1>3 DEF AcquireSleep, Goto
    <2> HIDE DEF b
    <2>2. \A c \in Bufs : /\ bcache'[c].blockno = bcache[c].blockno
                          /\ bcache'[c].valid = bcache[c].valid
                          /\ bcache'[c].dirty = bcache[c].dirty
                          /\ bcache'[c].data = bcache[c].data
                          /\ bcache'[c].refcnt = bcache[c].refcnt
                          /\ bcache'[c].locked <=> (c = b \/ bcache[c].locked)
      BY <1>1, <2>1 DEF Typed, Kinds
    <2>3. Typed'
      <3>1. bcache' \in [Bufs -> Kinds]  BY <1>1, <2>1, LockTyped DEF Typed
      <3> QED  BY <1>1, <2>1, <3>1 DEF Typed, BcSteps
    <2>4. Counted'  BY <1>1, <2>1, <2>2, SameUsers DEF Typed, Holding
    <2>5. OneCopy' /\ CleanIsOnDisk' /\ Filled'
      BY <1>1, <2>2 DEF OneCopy, Cached, CleanIsOnDisk, Filled
    <2>6. Wanted'  BY <1>1, <2>1, <2>2 DEF Wanted, Holding, Typed
    <2>7. Exclusive'
      <3>1. \A q \in BcProcs : Inside(q) => my[q] # b  BY <1>3 DEF Exclusive, b
      <3>2. /\ bpc'[p] = "locked" /\ my'[p] = b /\ my' = my /\ \A q \in BcProcs : my[q] \in Bufs
            /\ \A q \in BcProcs \ {p} : bpc'[q] = bpc[q]
        BY <1>1, <2>1 DEF Typed, b
      <3>3. \A q \in BcProcs \ {p} : Inside(q)' <=> Inside(q)  BY <3>2 DEF Inside
      <3>4. Inside(p)'  BY <3>2 DEF Inside
      <3> SUFFICES ASSUME NEW q \in BcProcs, Inside(q)'
                   PROVE  /\ bcache'[my[q]].locked
                          /\ bpc'[q] = "have" => bcache'[my[q]].valid
                          /\ bpc'[q] = "woken" => bcache'[my[q]].valid /\ ~bcache'[my[q]].dirty
                          /\ \A o \in BcProcs : Inside(o)' /\ my[o] = my[q] => o = q
        BY <3>2 DEF Exclusive
      <3>5. CASE q = p  BY <1>1, <2>2, <3>1, <3>2, <3>3, <3>5
      <3>6. CASE q # p
        <4>1. Inside(q) /\ my[q] # b /\ my[q] \in Bufs /\ bpc'[q] = bpc[q]
          BY <3>1, <3>2, <3>3, <3>6
        <4>2. /\ bcache'[my[q]].locked <=> bcache[my[q]].locked
              /\ bcache'[my[q]].valid = bcache[my[q]].valid
              /\ bcache'[my[q]].dirty = bcache[my[q]].dirty
          BY <2>2, <4>1
        <4>3. \A o \in BcProcs : Inside(o)' /\ my[o] = my[q] => o = q
          BY <3>2, <3>3, <4>1 DEF Exclusive
        <4> QED  BY <4>1, <4>2, <4>3 DEF Exclusive
      <3> QED  BY <3>5, <3>6
    <2>8. WaitJustified'  BY <1>1, <2>1, <2>2 DEF WaitJustified, Typed
    <2>9. Queued'
      <3>1. \A c \in ToSet(idequeue) : c \in Bufs BY DEF ToSet, Typed
      <3>2. idequeue # <<>> => Head(idequeue) \in Bufs BY DEF Typed
      <3> QED BY <1>1, <2>1, <2>2, <3>1, <3>2 DEF Queued, Idestart, Typed
    <2> QED  BY <2>3, <2>4, <2>5, <2>6, <2>7, <2>8, <2>9
  <1> QED  BY <1>2, <1>3

\* releasesleep keeps the invariant: every sleeper of the lock runs again.
LEMMA ReleaseStep ==
    ASSUME BcInv, NEW p \in BcProcs, ReleaseSleep(p)
    PROVE  BcInv'
  <1> USE DEF BcInv
  <1> DEFINE b == my[p]
  <1>1. /\ bpc[p] = "have" /\ UNCHANGED <<lru, idequeue, active, disk, my, want>>
        /\ bcache' = [bcache EXCEPT ![b].locked = FALSE] /\ b \in Bufs
        /\ bpc' = [q \in BcProcs |-> IF q = p THEN "unref"
                                ELSE IF bpc[q] = "locksleep" /\ my[q] = my[p] THEN "lock"
                                ELSE bpc[q]]
    BY DEF ReleaseSleep, Typed
  <1>2. \A q \in BcProcs : /\ my[q] \in Bufs
                           /\ Inside(q)' => Inside(q) /\ my[q] # b
                           /\ Inside(q)' => bpc'[q] = bpc[q]
                           /\ bpc'[q] = "locksleep" => bpc[q] = "locksleep" /\ my[q] # b
                           /\ bpc'[q] = "io" <=> bpc[q] = "io"
                           /\ bpc'[q] \in Holding <=> bpc[q] \in Holding
    BY <1>1 DEF Typed, Inside, Exclusive, Holding
  <1>3. \A c \in Bufs : /\ bcache'[c].blockno = bcache[c].blockno
                        /\ bcache'[c].valid = bcache[c].valid
                        /\ bcache'[c].dirty = bcache[c].dirty
                        /\ bcache'[c].data = bcache[c].data
                        /\ bcache'[c].refcnt = bcache[c].refcnt
                        /\ c # b => bcache'[c].locked = bcache[c].locked
    <2> SUFFICES ASSUME NEW c \in Bufs
                 PROVE  /\ bcache'[c].blockno = bcache[c].blockno
                        /\ bcache'[c].valid = bcache[c].valid
                        /\ bcache'[c].dirty = bcache[c].dirty
                        /\ bcache'[c].data = bcache[c].data
                        /\ bcache'[c].refcnt = bcache[c].refcnt
                        /\ c # b => bcache'[c].locked = bcache[c].locked
      OBVIOUS
    <2>1. bcache[c] \in Kinds  BY DEF Typed
    <2>2. bcache'[c] = IF c = b THEN [bcache[c] EXCEPT !.locked = FALSE] ELSE bcache[c]
      BY <1>1 DEF Typed
    <2> QED  BY <2>1, <2>2 DEF Kinds
  <1>4. Typed'
    <2>1. bcache' \in [Bufs -> Kinds]  BY <1>1, LockTyped DEF Typed
    <2> QED  BY <1>1, <2>1 DEF Typed, BcSteps
  <1>5. Counted'  BY <1>1, <1>2, <1>3, SameUsers
  <1>6. OneCopy' /\ CleanIsOnDisk' /\ Filled'
    BY <1>1, <1>3 DEF OneCopy, Cached, CleanIsOnDisk, Filled
  <1>7. Wanted'  BY <1>1, <1>2, <1>3 DEF Wanted
  <1>8. Exclusive'
    <2> HIDE DEF b
    <2>1. my' = my  BY <1>1
    <2>2. \A q \in BcProcs : Inside(q)' => /\ Inside(q) /\ bpc'[q] = bpc[q]
                                          /\ bcache'[my[q]].locked = bcache[my[q]].locked
                                          /\ bcache'[my[q]].valid = bcache[my[q]].valid
                                          /\ bcache'[my[q]].dirty = bcache[my[q]].dirty
      <3> TAKE q \in BcProcs
      <3> HAVE Inside(q)'
      <3>1. my[q] \in Bufs /\ my[q] # b /\ Inside(q) /\ bpc'[q] = bpc[q]  BY <1>2
      <3> QED  BY <1>3, <3>1
    <2> QED  BY <2>1, <2>2 DEF Exclusive
  <1>9. WaitJustified'  BY <1>1, <1>2, <1>3 DEF WaitJustified
  <1>10. Queued'
    <2>1. idequeue # <<>> => Head(idequeue) \in Bufs BY DEF Typed
    <2> QED BY <1>1, <1>2, <1>3, <2>1 DEF Queued, Idestart
  <1> QED  BY <1>4, <1>5, <1>6, <1>7, <1>8, <1>9, <1>10

\* The places of a concatenation.
LEMMA Joined ==
    ASSUME NEW a \in Seq(Bufs), NEW b \in Seq(Bufs)
    PROVE  /\ a \o b \in Seq(Bufs) /\ Len(a \o b) = Len(a) + Len(b)
           /\ \A i \in 1 .. Len(a) : (a \o b)[i] = a[i]
           /\ \A i \in 1 .. Len(b) : (a \o b)[Len(a) + i] = b[i]
  OBVIOUS

\* x, and the list without the place it had.
Splice(x, t, u) == <<x>> \o (t \o u)

\* The places of Splice.
LEMMA Spliced ==
    ASSUME NEW x \in Bufs, NEW t \in Seq(Bufs), NEW u \in Seq(Bufs)
    PROVE  LET s == Splice(x, t, u)
           IN  /\ s \in Seq(Bufs) /\ Len(s) = 1 + Len(t) + Len(u) /\ s[1] = x
               /\ \A i \in 1 .. Len(t) : s[i + 1] = t[i]
               /\ \A i \in 1 .. Len(u) : s[Len(t) + i + 1] = u[i]
  <1> DEFINE w == t \o u  h == <<x>>  s == h \o w
  <1>1. /\ w \in Seq(Bufs) /\ Len(w) = Len(t) + Len(u)
        /\ \A i \in 1 .. Len(t) : w[i] = t[i]
        /\ \A i \in 1 .. Len(u) : w[Len(t) + i] = u[i]
    OBVIOUS
  <1>2. h \in Seq(Bufs) /\ Len(h) = 1 /\ h[1] = x  OBVIOUS
  <1> HIDE DEF w, h
  <1>3. /\ s \in Seq(Bufs) /\ Len(s) = 1 + Len(w) /\ s[1] = x
        /\ \A i \in 1 .. Len(w) : s[i + 1] = w[i]
    <2>1. h \in Seq(Bufs) /\ w \in Seq(Bufs)  BY <1>1, <1>2
    <2>2. /\ s \in Seq(Bufs) /\ Len(s) = Len(h) + Len(w)
          /\ \A i \in 1 .. Len(h) : s[i] = h[i]
          /\ \A i \in 1 .. Len(w) : s[Len(h) + i] = w[i]
      BY <2>1, Joined, Zenon
    <2>3. Len(w) \in Nat  BY <2>1
    <2> HIDE DEF s
    <2> QED  BY <1>2, <2>2, <2>3
  <1>4. Len(t) \in Nat /\ Len(u) \in Nat  OBVIOUS
  <1>5. Splice(x, t, u) = s  BY DEF Splice, w, h
  <1> HIDE DEF s
  <1> QED  BY <1>1, <1>3, <1>4, <1>5

\* brelse's unlinking and linking keeps every buffer on the list once.
LEMMA ListKept ==
    ASSUME Typed, NEW b \in Bufs
    PROVE  LET s == <<b>> \o RemoveAt(lru, Place(b))
           IN  s \in [Bufs -> Bufs] /\ IsInjective(s) /\ ToSet(s) = Bufs
  <1> DEFINE k == Place(b)  s == <<b>> \o RemoveAt(lru, k)
             t == SubSeq(lru, 1, k - 1)  u == SubSeq(lru, k + 1, NBUF)
  <1>1. NBUF \in Nat /\ Bufs = 1 .. NBUF  BY BcacheConstants DEF Bufs
  <1>2. lru \in [1 .. NBUF -> Bufs] /\ DOMAIN lru = 1 .. NBUF  BY <1>1 DEF Typed
  <1>3. k \in 1 .. NBUF /\ lru[k] = b  BY <1>2 DEF Place, Typed, ToSet
  <1> HIDE DEF k
  <1>4. \A i, j \in 1 .. NBUF : lru[i] = lru[j] => i = j  BY <1>2 DEF Typed, IsInjective
  <1>5. \A c \in Bufs : \E i \in 1 .. NBUF : lru[i] = c  BY <1>2 DEF Typed, ToSet
  <1>6. Len(lru) = NBUF
    <2>1. lru \in Seq(Bufs)  BY <1>1, <1>2, SeqDef
    <2>2. DOMAIN lru = 1 .. Len(lru) /\ Len(lru) \in Nat  BY <2>1, LenProperties
    <2> QED  BY <1>1, <1>2, <2>2
  <1>7. /\ t \in Seq(Bufs) /\ Len(t) = k - 1 /\ \A i \in 1 .. k - 1 : t[i] = lru[i]
    <2>1. \A i \in 1 .. k - 1 : lru[i] \in Bufs  BY <1>1, <1>2, <1>3
    <2>2. /\ t \in Seq(Bufs) /\ Len(t) = IF 1 <= k - 1 THEN k - 1 - 1 + 1 ELSE 0
          /\ \A i \in 1 .. k - 1 - 1 + 1 : t[i] = lru[1 + i - 1]
      BY <1>1, <1>3, <2>1, SubSeqProperties
    <2> HIDE DEF t
    <2> QED  BY <1>1, <1>3, <2>2
  <1>8. /\ u \in Seq(Bufs) /\ Len(u) = NBUF - k /\ \A i \in 1 .. NBUF - k : u[i] = lru[k + i]
    <2>1. \A i \in k + 1 .. NBUF : lru[i] \in Bufs  BY <1>1, <1>2, <1>3
    <2>2. /\ u \in Seq(Bufs) /\ Len(u) = IF k + 1 <= NBUF THEN NBUF - (k + 1) + 1 ELSE 0
          /\ \A i \in 1 .. NBUF - (k + 1) + 1 : u[i] = lru[(k + 1) + i - 1]
      BY <1>1, <1>3, <2>1, SubSeqProperties
    <2> HIDE DEF u
    <2> QED  BY <1>1, <1>3, <2>2
  <1>9. s = Splice(b, t, u)  BY <1>6 DEF RemoveAt, Splice
  <1> HIDE DEF s, t, u
  <1>10. /\ s \in Seq(Bufs) /\ Len(s) = 1 + Len(t) + Len(u) /\ s[1] = b
         /\ \A i \in 1 .. Len(t) : s[i + 1] = t[i]
         /\ \A i \in 1 .. Len(u) : s[Len(t) + i + 1] = u[i]
    <2>0. t \in Seq(Bufs) /\ u \in Seq(Bufs)  BY <1>7, <1>8
    <2> DEFINE o == Splice(b, t, u)
    <2>1. o \in Seq(Bufs) /\ Len(o) = 1 + Len(t) + Len(u) /\ o[1] = b
      BY <2>0, Spliced
    <2>2. \A i \in 1 .. Len(t) : o[i + 1] = t[i]  BY <2>0, Spliced
    <2>3. \A i \in 1 .. Len(u) : o[Len(t) + i + 1] = u[i]  BY <2>0, Spliced
    <2>4. s = o  BY <1>9
    <2> HIDE DEF o
    <2> QED  BY <2>1, <2>2, <2>3, <2>4
  <1>11. /\ Len(s) = NBUF
         /\ \A i \in 1 .. NBUF :
               s[i] = IF i = 1 THEN b ELSE IF i <= k THEN lru[i - 1] ELSE lru[i]
    <2>1. Len(s) = NBUF  BY <1>1, <1>3, <1>7, <1>8, <1>10
    <2>2. ASSUME NEW i \in 1 .. NBUF
          PROVE  s[i] = IF i = 1 THEN b ELSE IF i <= k THEN lru[i - 1] ELSE lru[i]
      <3>1. CASE i = 1  BY <1>10, <3>1
      <3>2. CASE i # 1 /\ i <= k
        <4> DEFINE j == i - 1
        <4>1. j \in 1 .. k - 1 /\ i = j + 1  BY <1>1, <1>3, <3>2
        <4> HIDE DEF j
        <4>2. s[i] = lru[j]  BY <1>7, <1>10, <4>1
        <4> QED  BY <3>2, <4>2 DEF j
      <3>3. CASE i > k
        <4> DEFINE j == i - k
        <4>1. j \in 1 .. NBUF - k /\ i = k - 1 + j + 1 /\ i = k + j  BY <1>1, <1>3, <3>3
        <4> HIDE DEF j
        <4>2. s[Len(t) + j + 1] = u[j] /\ u[j] = lru[k + j] /\ Len(t) = k - 1
          BY <1>7, <1>8, <1>10, <4>1
        <4>3. s[i] = lru[i]  BY <4>1, <4>2
        <4>4. i # 1 /\ ~(i <= k)  BY <1>1, <1>3, <3>3
        <4> QED  BY <4>3, <4>4
      <3>4. i = 1 \/ (i # 1 /\ i <= k) \/ i > k  BY <1>1, <1>3
      <3> QED  BY <3>1, <3>2, <3>3, <3>4
    <2> QED  BY <2>1, <2>2
  <1>12. s \in [1 .. NBUF -> Bufs]
    <2>1. s \in [1 .. Len(s) -> Bufs]  BY <1>10, LenProperties
    <2> QED  BY <1>11, <2>1
  <1>13. \A i, j \in 1 .. NBUF : s[i] = s[j] => i = j
    <2> TAKE i, j \in 1 .. NBUF
    <2> HAVE s[i] = s[j]
    <2> DEFINE f(x) == IF x = 1 THEN k ELSE IF x <= k THEN x - 1 ELSE x
    <2>1. f(i) \in 1 .. NBUF /\ f(j) \in 1 .. NBUF /\ s[i] = lru[f(i)] /\ s[j] = lru[f(j)]
      BY <1>1, <1>3, <1>11
    <2>2. f(i) = f(j)
      <3> HIDE DEF f
      <3> QED  BY <1>4, <2>1
    <2> QED  BY <1>1, <1>3, <2>2
  <1>14. ASSUME NEW c \in Bufs  PROVE \E i \in 1 .. NBUF : s[i] = c
    <2>1. PICK j \in 1 .. NBUF : lru[j] = c  BY <1>5
    <2> DEFINE i == IF j = k THEN 1 ELSE IF j < k THEN j + 1 ELSE j
    <2>2. i \in 1 .. NBUF /\ (i # 1 => (IF i <= k THEN i - 1 ELSE i) = j) /\ (i = 1 <=> j = k)
      BY <1>1, <1>3
    <2> HIDE DEF i
    <2>3. s[i] = lru[j]  BY <1>3, <1>11, <2>2
    <2> QED  BY <2>1, <2>2, <2>3
  <1>15. s \in [Bufs -> Bufs] /\ IsInjective(s) /\ ToSet(s) = Bufs
    <2>1. s \in [Bufs -> Bufs] /\ DOMAIN s = 1 .. NBUF  BY <1>1, <1>12
    <2>2. IsInjective(s)  BY <1>13, <2>1 DEF IsInjective
    <2>3. \A i \in 1 .. NBUF : s[i] \in Bufs  BY <1>12
    <2>4. ToSet(s) = {s[i] : i \in 1 .. NBUF}  BY <2>1 DEF ToSet
    <2>5. ToSet(s) = Bufs  BY <1>14, <2>3, <2>4
    <2> QED  BY <2>1, <2>2, <2>5
  <1> QED  BY <1>15 DEF s, k

\* brelse under bcache.lock keeps the invariant.
LEMMA UnrefStep ==
    ASSUME BcInv, NEW p \in BcProcs, Unref(p)
    PROVE  BcInv'
  <1> USE DEF BcInv
  <1> PICK b \in Bufs : b = my[p]  BY DEF Typed
  <1>1. /\ bpc[p] = "unref" /\ bpc' = [bpc EXCEPT ![p] = "idle"] /\ b \in Bufs
        /\ bcache' = [bcache EXCEPT ![b].refcnt = @ - 1]
        /\ lru' = lru \/ lru' = <<b>> \o RemoveAt(lru, Place(b))
        /\ my' = [my EXCEPT ![p] = 1] /\ want' = [want EXCEPT ![p] = NoBlock]
        /\ UNCHANGED <<idequeue, active, disk>>
    BY DEF Unref, Goto
  <1>2. \A c \in Bufs : /\ bcache'[c].blockno = bcache[c].blockno
                        /\ bcache'[c].valid = bcache[c].valid
                        /\ bcache'[c].dirty = bcache[c].dirty
                        /\ bcache'[c].data = bcache[c].data
                        /\ bcache'[c].locked = bcache[c].locked
                        /\ bcache'[c].refcnt = IF c = b THEN bcache[b].refcnt - 1
                                                        ELSE bcache[c].refcnt
    BY <1>1 DEF Typed, Kinds
  <1>3. Counted' /\ bcache[b].refcnt - 1 \in 0 .. Cardinality(BcProcs)
    <2>0. /\ p \in Users(b) /\ bpc'[p] = "idle"
          /\ \A q \in BcProcs \ {p} : bpc'[q] = bpc[q] /\ my'[q] = my[q]
      BY <1>1 DEF Users, Holding, Typed
    <2>1. Users(b)' = Users(b) \ {p}
      <3> QED  BY <2>0 DEF Users, Holding
    <2>2. \A c \in Bufs \ {b} : Users(c)' = Users(c)  BY <2>0 DEF Users, Holding
    <2>3. Cardinality(Users(b) \ {p}) = Cardinality(Users(b)) - 1
      BY <2>0, UsersFinite, FS_RemoveElement
    <2>4. Cardinality(Users(b) \ {p}) \in 0 .. Cardinality(BcProcs)
      <3>1. Users(b) \ {p} \subseteq BcProcs  BY DEF Users
      <3> QED  BY <3>1, FS_Subset, FS_CardinalityType, BcacheConstants
    <2>5. bcache[b].refcnt = Cardinality(Users(b))  BY <1>1 DEF Counted
    <2>6. \A c \in Bufs : bcache'[c].refcnt = Cardinality(Users(c)')
      <3> TAKE c \in Bufs
      <3>1. CASE c = b
        <4>1. bcache'[b].refcnt = bcache[b].refcnt - 1  BY <1>1, <1>2
        <4>2. Users(c)' = Users(b) \ {p}  BY <2>1, <3>1 DEF Users
        <4> QED  BY <2>3, <2>5, <3>1, <4>1, <4>2
      <3>2. CASE c # b
        <4>1. bcache'[c].refcnt = bcache[c].refcnt  BY <1>2, <3>2
        <4> QED  BY <2>2, <3>2, <4>1 DEF Counted
      <3> QED  BY <3>1, <3>2
    <2>7. bcache[b].refcnt - 1 \in 0 .. Cardinality(BcProcs)  BY <2>3, <2>4, <2>5
    <2>8. Counted'  BY <2>6 DEF Counted
    <2> QED  BY <2>7, <2>8
  <1>4. Typed'
    <2>1. bcache' \in [Bufs -> Kinds]  BY <1>1, <1>3, CountTyped DEF Typed
    <2>2. lru' \in [Bufs -> Bufs] /\ IsInjective(lru') /\ ToSet(lru') = Bufs
      <3>1. CASE lru' = lru  BY <3>1 DEF Typed
      <3>2. CASE lru' = <<b>> \o RemoveAt(lru, Place(b))  BY <3>2, ListKept
      <3> QED  BY <1>1, <3>1, <3>2
    <2>3. 1 \in Bufs  BY BcacheConstants DEF Bufs
    <2> QED  BY <1>1, <2>1, <2>2, <2>3 DEF Typed, BcSteps
  <1>5. \A q \in BcProcs : /\ my[q] \in Bufs
                           /\ bpc'[q] \in Holding \/ bpc'[q] = "locksleep" \/ bpc'[q] = "io" =>
                                 my'[q] = my[q] /\ want'[q] = want[q] /\ bpc'[q] = bpc[q]
                           /\ Inside(q)' => /\ my'[q] = my[q] /\ Inside(q)
                                            /\ bpc'[q] = bpc[q]
                           /\ bpc[q] = "io" => bpc'[q] = "io" /\ my'[q] = my[q]
    BY <1>1 DEF Typed, Holding, Inside
  <1>6. OneCopy' /\ CleanIsOnDisk' /\ Filled'
    BY <1>1, <1>2 DEF OneCopy, Cached, CleanIsOnDisk, Filled
  <1>7. Wanted'  BY <1>2, <1>5 DEF Wanted
  <1>8. Exclusive'  BY <1>2, <1>5 DEF Exclusive
  <1>9. WaitJustified'  BY <1>1, <1>2, <1>5 DEF WaitJustified
  <1>10. Queued'
    <2>1. idequeue # <<>> => Head(idequeue) \in Bufs BY DEF Typed
    <2> QED BY <1>1, <1>2, <1>5, <2>1 DEF Queued, Idestart
  <1> QED  BY <1>3, <1>4, <1>6, <1>7, <1>8, <1>9, <1>10

\* Appending a new buffer: what iderw does to idequeue.
LEMMA Appended ==
    ASSUME NEW q \in Seq(Bufs), NEW b \in Bufs, b \notin ToSet(q), IsInjective(q)
    PROVE  /\ Append(q, b) \in Seq(Bufs) /\ IsInjective(Append(q, b))
           /\ ToSet(Append(q, b)) = ToSet(q) \cup {b} /\ Append(q, b) # <<>>
           /\ Head(Append(q, b)) = IF q = <<>> THEN b ELSE Head(q)
  <1> DEFINE r == Append(q, b)
  <1>1. /\ r \in Seq(Bufs) /\ Len(r) = Len(q) + 1 /\ Len(q) \in Nat
        /\ \A i \in 1 .. Len(q) : r[i] = q[i]
        /\ r[Len(q) + 1] = b
    OBVIOUS
  <1>2. DOMAIN q = 1 .. Len(q) /\ DOMAIN r = 1 .. Len(q) + 1  BY <1>1
  <1>3. q # <<>> => Head(q) = q[1] /\ 1 \in 1 .. Len(q)  OBVIOUS
  <1>4. q = <<>> => Len(q) = 0  OBVIOUS
  <1>5. r # <<>> /\ Head(r) = r[1]  OBVIOUS
  <1> HIDE DEF r
  <1>6. IsInjective(r)
    <2>1. \A i \in 1 .. Len(q) : q[i] # b  BY <1>2 DEF ToSet
    <2>2. \A i, j \in 1 .. Len(q) : q[i] = q[j] => i = j  BY <1>2 DEF IsInjective
    <2>3. ASSUME NEW i \in 1 .. Len(q) + 1, NEW j \in 1 .. Len(q) + 1, r[i] = r[j]
          PROVE  i = j
      <3>1. (i \in 1 .. Len(q) \/ i = Len(q) + 1) /\ (j \in 1 .. Len(q) \/ j = Len(q) + 1)
        BY <1>1
      <3> QED  BY <1>1, <2>1, <2>2, <2>3, <3>1
    <2> QED  BY <1>2, <2>3 DEF IsInjective
  <1>7. ToSet(r) = ToSet(q) \cup {b}
    <2>1. \A i \in 1 .. Len(q) + 1 : i \in 1 .. Len(q) \/ i = Len(q) + 1  BY <1>1
    <2>2. 1 .. Len(q) \subseteq 1 .. Len(q) + 1 /\ Len(q) + 1 \in 1 .. Len(q) + 1  BY <1>1
    <2> QED  BY <1>1, <1>2, <2>1, <2>2 DEF ToSet
  <1>8. Head(r) = IF q = <<>> THEN b ELSE Head(q)  BY <1>1, <1>3, <1>4, <1>5
  <1> QED  BY <1>1, <1>5, <1>6, <1>7, <1>8 DEF r

\* Taking off the first buffer: what ideintr does to idequeue.
LEMMA Removed ==
    ASSUME NEW q \in Seq(Bufs), q # <<>>, IsInjective(q)
    PROVE  /\ Tail(q) \in Seq(Bufs) /\ IsInjective(Tail(q))
           /\ Head(q) \in ToSet(q) /\ ToSet(Tail(q)) = ToSet(q) \ {Head(q)}
           /\ Tail(q) # <<>> => Head(Tail(q)) = q[2] /\ q[2] \in ToSet(Tail(q))
  <1> DEFINE r == Tail(q)
  <1>1. /\ r \in Seq(Bufs) /\ Len(r) = Len(q) - 1 /\ Len(q) \in Nat \ {0}
        /\ \A i \in 1 .. Len(q) - 1 : r[i] = q[i + 1]
        /\ Head(q) = q[1]
    OBVIOUS
  <1>2. DOMAIN q = 1 .. Len(q) /\ DOMAIN r = 1 .. Len(q) - 1  BY <1>1
  <1>3. r # <<>> => Head(r) = r[1] /\ 1 \in 1 .. Len(q) - 1  BY <1>1
  <1> HIDE DEF r
  <1>4. \A i, j \in 1 .. Len(q) : q[i] = q[j] => i = j  BY <1>2 DEF IsInjective
  <1>5. IsInjective(r)
    <2>1. ASSUME NEW i \in 1 .. Len(q) - 1, NEW j \in 1 .. Len(q) - 1, r[i] = r[j]
          PROVE  i = j
      <3>1. i + 1 \in 1 .. Len(q) /\ j + 1 \in 1 .. Len(q) /\ q[i + 1] = q[j + 1]
        BY <1>1, <2>1
      <3> QED  BY <1>1, <1>4, <3>1
    <2> QED  BY <1>2, <2>1 DEF IsInjective
  <1>6. ToSet(r) = ToSet(q) \ {Head(q)}
    <2>1. ASSUME NEW i \in 1 .. Len(q) - 1  PROVE r[i] \in ToSet(q) \ {Head(q)}
      <3>1. i + 1 \in 1 .. Len(q) /\ 1 \in 1 .. Len(q) /\ i + 1 # 1  BY <1>1
      <3> QED  BY <1>1, <1>2, <1>4, <3>1 DEF ToSet
    <2>2. ASSUME NEW i \in 1 .. Len(q), q[i] # Head(q)  PROVE q[i] \in ToSet(r)
      <3> DEFINE j == i - 1
      <3>1. j \in 1 .. Len(q) - 1 /\ j + 1 = i  BY <1>1, <2>2
      <3> HIDE DEF j
      <3>2. r[j] = q[i]  BY <1>1, <3>1
      <3> QED  BY <1>2, <3>1, <3>2 DEF ToSet
    <2> QED  BY <1>2, <2>1, <2>2 DEF ToSet
  <1>7. r # <<>> => Head(r) = q[2] /\ q[2] \in ToSet(r)
    <2>1. CASE r # <<>>
      <3>1. Head(r) = r[1] /\ 1 \in 1 .. Len(q) - 1  BY <1>3, <2>1
      <3>2. r[1] = q[2]
        <4>1. r[1] = q[1 + 1]  BY <1>1, <3>1
        <4> QED  BY <4>1
      <3> QED  BY <1>2, <3>1, <3>2 DEF ToSet
    <2> QED  BY <2>1
  <1>8. Head(q) \in ToSet(q)
    <2>1. 1 \in 1 .. Len(q)  BY <1>1
    <2> QED  BY <1>1, <1>2, <2>1 DEF ToSet
  <1> QED  BY <1>1, <1>5, <1>6, <1>7, <1>8 DEF r

\* iderw queues the buffer of p once, whose bread or bwrite set the fields in f,
\* and the controller has the command of the first request.
LEMMA IderwQueued ==
    ASSUME BcInv, NEW p \in BcProcs, bpc[p] \in {"locked", "have"},
           NEW f \in [Bufs -> Kinds], Iderw(p, f),
           \A c \in Bufs \ {my[p]} : f[c] = bcache[c]
    PROVE  /\ idequeue' \in Seq(Bufs) /\ IsInjective(idequeue')
           /\ ToSet(idequeue') = ToSet(idequeue) \cup {my[p]}
           /\ active' \in [write : BOOLEAN, data : Values \cup {Nobody}]
           /\ idequeue' # <<>> /\ active' = Idestart(Head(idequeue'), f)
  <1> USE DEF BcInv
  <1> PICK b \in Bufs : b = my[p]  BY DEF Typed
  <1>1. idequeue' = Append(idequeue, b)
        /\ active' = IF idequeue = <<>> THEN Idestart(b, f) ELSE active
    BY DEF Iderw
  <1>2. b \notin ToSet(idequeue)
    <2> SUFFICES ASSUME b \in ToSet(idequeue) PROVE FALSE  OBVIOUS
    <2>1. PICK q \in BcProcs : bpc[q] = "io" /\ my[q] = b  BY DEF Queued
    <2>2. Inside(q) /\ Inside(p) /\ q # p  BY <2>1 DEF Inside
    <2> QED  BY <2>1, <2>2 DEF Exclusive
  <1>3. /\ idequeue' \in Seq(Bufs) /\ IsInjective(idequeue')
        /\ ToSet(idequeue') = ToSet(idequeue) \cup {b} /\ idequeue' # <<>>
        /\ Head(idequeue') = IF idequeue = <<>> THEN b ELSE Head(idequeue)
    BY <1>1, <1>2, Appended DEF Typed
  <1>4. \A c \in Bufs : Idestart(c, f) \in [write : BOOLEAN, data : Values \cup {Nobody}]
    <2> TAKE c \in Bufs
    <2>1. f[c].dirty \in BOOLEAN /\ f[c].data \in Values \cup {Nobody}  BY DEF Kinds
    <2> QED  BY <2>1 DEF Idestart
  <1>5. CASE idequeue = <<>>  BY <1>1, <1>3, <1>4, <1>5
  <1>6. CASE idequeue # <<>>
    <2>1. Head(idequeue) \in Bufs /\ Head(idequeue) \in ToSet(idequeue)
      BY <1>6, Removed DEF Typed
    <2>2. f[Head(idequeue)] = bcache[Head(idequeue)]  BY <1>2, <2>1
    <2>3. active' = Idestart(Head(idequeue), bcache)  BY <1>1, <1>6 DEF Queued
    <2>4. active' = Idestart(Head(idequeue), f)  BY <2>2, <2>3 DEF Idestart
    <2> QED  BY <1>3, <1>4, <1>6, <2>1, <2>4
  <1> QED  BY <1>5, <1>6

\* bread keeps the invariant, whether or not it asks the disk.
LEMMA BreadStep ==
    ASSUME BcInv, NEW p \in BcProcs, Bread(p)
    PROVE  BcInv'
  <1> USE DEF BcInv
  <1> PICK b \in Bufs : b = my[p]  BY DEF Typed
  <1>1. bpc[p] = "locked" /\ UNCHANGED <<bcache, lru, disk, my, want>>  BY DEF Bread
  <1>2. OneCopy' /\ CleanIsOnDisk' /\ Filled'
    BY <1>1 DEF OneCopy, Cached, CleanIsOnDisk, Filled
  <1>3. CASE bcache[b].valid
    <2>1. bpc' = [bpc EXCEPT ![p] = "have"] /\ UNCHANGED <<idequeue, active>>
      BY <1>3 DEF Bread, Goto
    <2>2. Typed'  BY <1>1, <2>1 DEF Typed, BcSteps
    <2>3. Counted'  BY <1>1, <2>1, SameUsers DEF Typed, Holding
    <2>4. Wanted' /\ WaitJustified'
      BY <1>1, <2>1 DEF Wanted, Holding, WaitJustified, Typed
    <2>5. Exclusive'
      <3>1. \A q \in BcProcs : /\ Inside(q)' <=> Inside(q)
                               /\ bpc'[q] = IF q = p THEN "have" ELSE bpc[q]
        BY <1>1, <2>1 DEF Inside, Typed
      <3> QED  BY <1>1, <1>3, <3>1 DEF Exclusive
    <2>6. Queued'  BY <1>1, <2>1 DEF Queued, Typed
    <2> QED  BY <1>2, <2>2, <2>3, <2>4, <2>5, <2>6
  <1>4. CASE ~bcache[b].valid
    <2>1. Iderw(p, bcache)  BY <1>4 DEF Bread
    <2>2. bpc' = [bpc EXCEPT ![p] = "io"]  BY <2>1 DEF Iderw, Goto
    <2>3. /\ idequeue' \in Seq(Bufs) /\ IsInjective(idequeue')
          /\ ToSet(idequeue') = ToSet(idequeue) \cup {my[p]}
          /\ active' \in [write : BOOLEAN, data : Values \cup {Nobody}]
          /\ idequeue' # <<>> /\ active' = Idestart(Head(idequeue'), bcache)
      BY <1>1, <2>1, IderwQueued DEF Typed
    <2>4. Typed'  BY <1>1, <2>2, <2>3 DEF Typed, BcSteps
    <2>5. Counted'  BY <1>1, <2>2, SameUsers DEF Typed, Holding
    <2>6. \A q \in BcProcs : bpc'[q] = IF q = p THEN "io" ELSE bpc[q]
      BY <2>2 DEF Typed
    <2>7. Wanted'  BY <1>1, <2>6 DEF Wanted, Holding
    <2>8. WaitJustified'  BY <1>1, <2>3, <2>6 DEF WaitJustified
    <2>9. Exclusive'
      <3>1. \A q \in BcProcs : Inside(q)' <=> Inside(q)  BY <1>1, <2>6 DEF Inside
      <3> QED  BY <1>1, <2>6, <3>1 DEF Exclusive
    <2>10. Queued'
      <3>1. active' # Nobody  BY <2>3, BcacheConstants
      <3>2. \A c \in ToSet(idequeue') : \E q \in BcProcs : bpc'[q] = "io" /\ my'[q] = c
        BY <1>1, <2>3, <2>6 DEF Queued
      <3>3. active' = Idestart(Head(idequeue'), bcache')  BY <1>1, <2>3
      <3> QED  BY <2>3, <3>1, <3>2, <3>3 DEF Queued, Idestart
    <2> QED  BY <1>2, <2>4, <2>5, <2>7, <2>8, <2>9, <2>10
  <1> QED  BY <1>3, <1>4

\* iderw's loop ends when its user is woken: the flags are as it wants.
LEMMA DoneStep ==
    ASSUME BcInv, NEW p \in BcProcs, IderwDone(p)
    PROVE  BcInv'
  <1> USE DEF BcInv
  <1>1. /\ bpc[p] = "woken" /\ bpc' = [bpc EXCEPT ![p] = "have"] /\ bcache[my[p]].valid
        /\ UNCHANGED <<bcache, lru, idequeue, active, disk, my, want>>
    <2>1. bpc[p] = "woken" /\ Inside(p)  BY DEF IderwDone, Inside
    <2>2. bcache[my[p]].valid /\ ~bcache[my[p]].dirty  BY <2>1 DEF Exclusive
    <2> QED  BY <2>1, <2>2 DEF IderwDone, Goto
  <1>2. \A q \in BcProcs : bpc'[q] = IF q = p THEN "have" ELSE bpc[q]
    BY <1>1 DEF Typed
  <1>3. Typed'  BY <1>1 DEF Typed, BcSteps
  <1>4. Counted'  BY <1>1, SameUsers DEF Typed, Holding
  <1>5. OneCopy' /\ CleanIsOnDisk' /\ Filled'
    BY <1>1 DEF OneCopy, Cached, CleanIsOnDisk, Filled
  <1>6. Wanted' /\ WaitJustified'
    BY <1>1, <1>2 DEF Wanted, Holding, WaitJustified
  <1>7. Exclusive'
    <2>1. \A q \in BcProcs : Inside(q)' <=> Inside(q)  BY <1>1, <1>2 DEF Inside
    <2> QED  BY <1>1, <1>2, <2>1 DEF Exclusive
  <1>8. Queued'  BY <1>1, <1>2 DEF Queued
  <1> QED  BY <1>3, <1>4, <1>5, <1>6, <1>7, <1>8

\* What bwrite and log_write do to the buffer.
Changed(f, b, v) == [f EXCEPT ![b].data = v, ![b].dirty = TRUE]

\* The fields after Changed.
LEMMA DataTyped ==
    ASSUME NEW f \in [Bufs -> Kinds], NEW b \in Bufs, NEW v \in Values
    PROVE  /\ Changed(f, b, v) \in [Bufs -> Kinds]
           /\ \A c \in Bufs : /\ Changed(f, b, v)[c].blockno = f[c].blockno
                              /\ Changed(f, b, v)[c].valid = f[c].valid
                              /\ Changed(f, b, v)[c].locked = f[c].locked
                              /\ Changed(f, b, v)[c].refcnt = f[c].refcnt
                              /\ c # b => Changed(f, b, v)[c] = f[c]
           /\ Changed(f, b, v)[b].dirty /\ Changed(f, b, v)[b].data = v
  <1> DEFINE e == [f EXCEPT ![b].data = v]  g == [e EXCEPT ![b].dirty = TRUE]
  <1>1. e \in [Bufs -> Kinds]
    <2>1. [f[b] EXCEPT !.data = v] \in Kinds  BY DEF Kinds
    <2> QED  BY <2>1
  <1>2. /\ \A c \in Bufs : /\ e[c].blockno = f[c].blockno /\ e[c].valid = f[c].valid
                           /\ e[c].locked = f[c].locked /\ e[c].refcnt = f[c].refcnt
                           /\ c # b => e[c] = f[c]
        /\ e[b].data = v
    BY DEF Kinds
  <1>3. Changed(f, b, v) = g  BY DEF Changed
  <1> HIDE DEF e
  <1>4. g \in [Bufs -> Kinds]
    <2>1. [e[b] EXCEPT !.dirty = TRUE] \in Kinds  BY <1>1 DEF Kinds
    <2> QED  BY <1>1, <2>1
  <1>5. /\ \A c \in Bufs : /\ g[c].blockno = e[c].blockno /\ g[c].valid = e[c].valid
                           /\ g[c].locked = e[c].locked /\ g[c].refcnt = e[c].refcnt
                           /\ c # b => g[c] = e[c]
        /\ g[b].data = e[b].data /\ g[b].dirty
    BY <1>1 DEF Kinds
  <1> HIDE DEF g
  <1> QED  BY <1>2, <1>3, <1>4, <1>5

\* The buffer cache after its user changed the data, at bwrite or log_write.
LEMMA ChangeKept ==
    ASSUME BcInv, NEW p \in BcProcs, bpc[p] = "have", NEW b \in Bufs, b = my[p],
           NEW v \in Values, bcache' = Changed(bcache, b, v),
           UNCHANGED <<lru, disk, my, want>>,
           \A q \in BcProcs \ {p} : bpc'[q] = bpc[q],
           bpc'[p] \in {"have", "io"}
    PROVE  /\ bcache' \in [Bufs -> Kinds] /\ \A c \in Bufs \ {b} : bcache'[c] = bcache[c]
           /\ \A c \in Bufs : bcache'[c].locked = bcache[c].locked
           /\ Counted' /\ Wanted' /\ OneCopy' /\ Exclusive' /\ CleanIsOnDisk' /\ Filled'
  <1> USE DEF BcInv
  <1>1. /\ bcache' \in [Bufs -> Kinds]
        /\ \A c \in Bufs : /\ bcache'[c].blockno = bcache[c].blockno
                           /\ bcache'[c].valid = bcache[c].valid
                           /\ bcache'[c].locked = bcache[c].locked
                           /\ bcache'[c].refcnt = bcache[c].refcnt
                           /\ c # b => bcache'[c] = bcache[c]
        /\ bcache'[b].dirty /\ bcache'[b].data = v
    <2>1. bcache \in [Bufs -> Kinds]  BY DEF Typed
    <2> QED  BY <2>1, DataTyped
  <1>2. Counted'
    <2>1. \A q \in BcProcs : bpc'[q] \in Holding <=> bpc[q] \in Holding  BY DEF Holding
    <2> QED  BY <1>1, <2>1, SameUsers
  <1>3. Wanted'
    <2>1. \A q \in BcProcs : my[q] \in Bufs /\ (bpc'[q] \in Holding <=> bpc[q] \in Holding)
      BY DEF Typed, Holding
    <2> QED  BY <1>1, <2>1 DEF Wanted
  <1>4. OneCopy'  BY <1>1 DEF OneCopy, Cached
  <1>5. Inside(p) /\ bcache[b].valid  BY DEF Exclusive, Inside
  <1>6. Exclusive'
    <2>1. \A q \in BcProcs : Inside(q)' <=> Inside(q)  BY DEF Inside
    <2>2. \A q \in BcProcs : my[q] \in Bufs  BY DEF Typed
    <2>3. \A q \in BcProcs \ {p} : Inside(q) => my[q] # b  BY <1>5 DEF Exclusive
    <2>4. ASSUME NEW q \in BcProcs, Inside(q)'
          PROVE  /\ bcache'[my[q]].locked
                 /\ bpc'[q] = "have" => bcache'[my[q]].valid
                 /\ bpc'[q] = "woken" => bcache'[my[q]].valid /\ ~bcache'[my[q]].dirty
                 /\ \A o \in BcProcs : Inside(o)' /\ my[o] = my[q] => o = q
      <3>1. CASE q = p
        <4>1. bcache[b].locked  BY <1>5 DEF Exclusive
        <4> QED  BY <1>1, <1>5, <2>1, <2>3, <3>1, <4>1
      <3>2. CASE q # p
        <4>1. /\ Inside(q) /\ bpc'[q] = bpc[q] /\ my[q] # b /\ my[q] \in Bufs
          BY <2>1, <2>2, <2>3, <2>4, <3>2
        <4>2. bcache'[my[q]] = bcache[my[q]]  BY <1>1, <4>1
        <4>3. \A o \in BcProcs : Inside(o)' /\ my[o] = my[q] => o = q
          BY <2>1, <4>1 DEF Exclusive
        <4> QED  BY <4>1, <4>2, <4>3 DEF Exclusive
      <3> QED  BY <3>1, <3>2
    <2> QED  BY <2>4 DEF Exclusive
  <1>7. CleanIsOnDisk'  BY <1>1 DEF CleanIsOnDisk
  <1>8. Filled'
    <2>1. bcache'[b].valid /\ bcache'[b].blockno \in Blocks  BY <1>1, <1>5 DEF Filled
    <2> QED  BY <1>1, <2>1 DEF Filled
  <1> QED  BY <1>1, <1>2, <1>3, <1>4, <1>6, <1>7, <1>8

\* log_write keeps the invariant: the changed buffer is not queued.
LEMMA LogWriteStep ==
    ASSUME BcInv, NEW p \in BcProcs, NEW v \in Values, LogWrite(p, v)
    PROVE  BcInv'
  <1> USE DEF BcInv
  <1> PICK b \in Bufs : b = my[p]  BY DEF Typed
  <1>1. /\ bpc[p] = "have" /\ bcache' = Changed(bcache, b, v)
        /\ UNCHANGED <<lru, idequeue, active, disk, bpc, my, want>>
    BY DEF LogWrite, Changed
  <1>2. /\ bcache' \in [Bufs -> Kinds] /\ \A c \in Bufs \ {b} : bcache'[c] = bcache[c]
        /\ \A c \in Bufs : bcache'[c].locked = bcache[c].locked
        /\ Counted' /\ Wanted' /\ OneCopy' /\ Exclusive' /\ CleanIsOnDisk' /\ Filled'
    BY <1>1, ChangeKept
  <1>3. Typed'  BY <1>1, <1>2 DEF Typed
  <1>5. WaitJustified'  BY <1>1, <1>2 DEF WaitJustified, Typed
  <1>6. Queued'
    <2>1. b \notin ToSet(idequeue)
      <3> SUFFICES ASSUME b \in ToSet(idequeue) PROVE FALSE  OBVIOUS
      <3>1. PICK q \in BcProcs : bpc[q] = "io" /\ my[q] = b  BY DEF Queued
      <3>2. Inside(q) /\ Inside(p) /\ q # p  BY <1>1, <3>1 DEF Inside
      <3> QED  BY <3>1, <3>2 DEF Exclusive
    <2>2. idequeue # <<>> => Head(idequeue) \in Bufs /\ Head(idequeue) \in ToSet(idequeue)
      BY Removed DEF Typed
    <2>3. idequeue # <<>> => bcache'[Head(idequeue)] = bcache[Head(idequeue)]
      BY <1>2, <2>1, <2>2
    <2> QED  BY <1>1, <2>3 DEF Queued, Idestart
  <1> QED  BY <1>2, <1>3, <1>5, <1>6

\* bwrite keeps the invariant.
LEMMA BwriteStep ==
    ASSUME BcInv, NEW p \in BcProcs, NEW v \in Values, Bwrite(p, v)
    PROVE  BcInv'
  <1> USE DEF BcInv
  <1> PICK b \in Bufs : b = my[p]  BY DEF Typed
  <1>1. /\ bpc[p] = "have" /\ bcache' = Changed(bcache, b, v)
        /\ Iderw(p, bcache') /\ bpc' = [bpc EXCEPT ![p] = "io"]
        /\ UNCHANGED <<lru, disk, my, want>>
    BY DEF Bwrite, Iderw, Goto, Changed
  <1>2. \A q \in BcProcs : bpc'[q] = IF q = p THEN "io" ELSE bpc[q]
    BY <1>1 DEF Typed
  <1>3. /\ bcache' \in [Bufs -> Kinds] /\ \A c \in Bufs \ {b} : bcache'[c] = bcache[c]
        /\ \A c \in Bufs : bcache'[c].locked = bcache[c].locked
        /\ Counted' /\ Wanted' /\ OneCopy' /\ Exclusive' /\ CleanIsOnDisk' /\ Filled'
    BY <1>1, <1>2, ChangeKept
  <1>4. /\ idequeue' \in Seq(Bufs) /\ IsInjective(idequeue')
        /\ ToSet(idequeue') = ToSet(idequeue) \cup {my[p]}
        /\ active' \in [write : BOOLEAN, data : Values \cup {Nobody}]
        /\ idequeue' # <<>> /\ active' = Idestart(Head(idequeue'), bcache')
    BY <1>1, <1>3, IderwQueued
  <1>5. Typed'  BY <1>1, <1>3, <1>4 DEF Typed, BcSteps
  <1>7. WaitJustified'  BY <1>1, <1>2, <1>3, <1>4 DEF WaitJustified, Typed
  <1>8. Queued'
    <2>1. active' # Nobody  BY <1>4, BcacheConstants
    <2>2. \A c \in ToSet(idequeue') : \E q \in BcProcs : bpc'[q] = "io" /\ my'[q] = c
      BY <1>1, <1>2, <1>4 DEF Queued
    <2> QED  BY <1>4, <2>1, <2>2 DEF Queued, Idestart
  <1> QED  BY <1>3, <1>5, <1>7, <1>8

\* What ideintr does to the buffer.
Served(f, b, x) == [f EXCEPT ![b].data = x, ![b].valid = TRUE, ![b].dirty = FALSE]

\* The fields after Served.
LEMMA ServedTyped ==
    ASSUME NEW f \in [Bufs -> Kinds], NEW b \in Bufs, NEW x \in Values \cup {Nobody}
    PROVE  /\ Served(f, b, x) \in [Bufs -> Kinds]
           /\ \A c \in Bufs : /\ Served(f, b, x)[c].blockno = f[c].blockno
                              /\ Served(f, b, x)[c].locked = f[c].locked
                              /\ Served(f, b, x)[c].refcnt = f[c].refcnt
                              /\ c # b => Served(f, b, x)[c] = f[c]
           /\ Served(f, b, x)[b].valid /\ ~Served(f, b, x)[b].dirty
           /\ Served(f, b, x)[b].data = x
  <1> DEFINE d == [f EXCEPT ![b].data = x]
             e == [d EXCEPT ![b].valid = TRUE]  g == [e EXCEPT ![b].dirty = FALSE]
  <1>1. d \in [Bufs -> Kinds]
    <2>1. [f[b] EXCEPT !.data = x] \in Kinds  BY DEF Kinds
    <2> QED  BY <2>1
  <1>2. /\ \A c \in Bufs : /\ d[c].blockno = f[c].blockno
                           /\ d[c].locked = f[c].locked /\ d[c].refcnt = f[c].refcnt
                           /\ c # b => d[c] = f[c]
        /\ d[b].data = x
    BY DEF Kinds
  <1>3. Served(f, b, x) = g  BY DEF Served
  <1> HIDE DEF d
  <1>4. e \in [Bufs -> Kinds]
    <2>1. [d[b] EXCEPT !.valid = TRUE] \in Kinds  BY <1>1 DEF Kinds
    <2> QED  BY <1>1, <2>1
  <1>5. /\ \A c \in Bufs : /\ e[c].blockno = d[c].blockno
                           /\ e[c].locked = d[c].locked /\ e[c].refcnt = d[c].refcnt
                           /\ c # b => e[c] = d[c]
        /\ e[b].data = d[b].data /\ e[b].valid
    BY <1>1 DEF Kinds
  <1> HIDE DEF e
  <1>6. g \in [Bufs -> Kinds]
    <2>1. [e[b] EXCEPT !.dirty = FALSE] \in Kinds  BY <1>4 DEF Kinds
    <2> QED  BY <1>4, <2>1
  <1>7. /\ \A c \in Bufs : /\ g[c].blockno = e[c].blockno
                           /\ g[c].locked = e[c].locked /\ g[c].refcnt = e[c].refcnt
                           /\ c # b => g[c] = e[c]
        /\ g[b].data = e[b].data /\ g[b].valid = e[b].valid /\ ~g[b].dirty
    BY <1>4 DEF Kinds
  <1> HIDE DEF g
  <1> QED  BY <1>2, <1>3, <1>5, <1>6, <1>7

\* The request that the controller works on: its buffer, its user, its block.
Request(b, p, blk) ==
    /\ b = Head(idequeue) /\ bpc[p] = "io" /\ my[p] = b
    /\ \A q \in BcProcs : Inside(q) /\ my[q] = b => q = p
    /\ bcache[b].blockno = blk /\ bcache[b].locked
    /\ idequeue' = Tail(idequeue)
    /\ idequeue' \in Seq(Bufs) /\ IsInjective(idequeue')
    /\ ToSet(idequeue') = ToSet(idequeue) \ {b}
    /\ idequeue' # <<>> => Head(idequeue') = idequeue[2]
                           /\ Head(idequeue') \in Bufs \ {b}
    /\ active' = IF idequeue' = <<>> THEN Nobody
                 ELSE Idestart(Head(idequeue'), bcache)
    /\ disk' = IF bcache[b].dirty THEN [disk EXCEPT ![blk] = bcache[b].data] ELSE disk
    /\ bcache' = Served(bcache, b, IF bcache[b].dirty THEN bcache[b].data ELSE disk[blk])
    /\ bpc' = [q \in BcProcs |-> IF q = p THEN "woken" ELSE bpc[q]]
    /\ UNCHANGED <<lru, my, want>>

\* ideintr serves the request of one user, who is the lock's holder.
LEMMA RequestFacts ==
    ASSUME BcInv, Ideintr
    PROVE  \E b \in Bufs, p \in BcProcs, blk \in Blocks : Request(b, p, blk)
  <1> USE DEF BcInv
  <1>1. active # Nobody /\ idequeue # <<>> /\ active = Idestart(Head(idequeue), bcache)
    BY DEF Ideintr, Queued
  <1>2. /\ idequeue \in Seq(Bufs) /\ IsInjective(idequeue) /\ Head(idequeue) \in Bufs
        /\ Tail(idequeue) \in Seq(Bufs) /\ IsInjective(Tail(idequeue))
        /\ Head(idequeue) \in ToSet(idequeue)
        /\ ToSet(Tail(idequeue)) = ToSet(idequeue) \ {Head(idequeue)}
        /\ Tail(idequeue) # <<>> => /\ Head(Tail(idequeue)) = idequeue[2]
                                    /\ idequeue[2] \in ToSet(Tail(idequeue))
    BY <1>1, Removed DEF Typed
  <1>3. PICK b \in Bufs : b = Head(idequeue)  BY <1>2
  <1>4. PICK p \in BcProcs : bpc[p] = "io" /\ my[p] = b  BY <1>2, <1>3 DEF Queued
  <1>5. /\ Inside(p) /\ bpc[p] \in Holding /\ bcache[b].locked
        /\ \A q \in BcProcs : Inside(q) /\ my[q] = b => q = p
    BY <1>4 DEF Inside, Holding, Exclusive
  <1>6. PICK blk \in Blocks : blk = bcache[b].blockno
    BY <1>4, <1>5 DEF Wanted
  <1>7. Tail(idequeue) # <<>> => idequeue[2] \in Bufs \ {b}
    <2>1. ASSUME NEW c \in ToSet(idequeue)  PROVE c \in Bufs
      <3>1. PICK q \in BcProcs : bpc[q] = "io" /\ my[q] = c  BY DEF Queued
      <3> QED  BY <3>1 DEF Typed
    <2> QED  BY <1>2, <1>3, <2>1
  <1>8. disk' = IF bcache[b].dirty THEN [disk EXCEPT ![blk] = bcache[b].data] ELSE disk
    BY <1>1, <1>3, <1>6 DEF Ideintr, Idestart
  <1>9. bcache' = Served(bcache, b, IF bcache[b].dirty THEN bcache[b].data ELSE disk[blk])
    BY <1>1, <1>3, <1>6 DEF Ideintr, Served
  <1>10. bpc' = [q \in BcProcs |-> IF q = p THEN "woken" ELSE bpc[q]]
    <2>1. bpc' = [q \in BcProcs |-> IF bpc[q] = "io" /\ my[q] = b THEN "woken" ELSE bpc[q]]
      BY <1>3 DEF Ideintr
    <2>2. \A q \in BcProcs : bpc[q] = "io" /\ my[q] = b <=> q = p
      BY <1>4, <1>5 DEF Inside
    <2> QED  BY <2>1, <2>2
  <1>11. /\ idequeue' = Tail(idequeue)
         /\ active' = IF Tail(idequeue) = <<>> THEN Nobody ELSE Idestart(idequeue[2], bcache)
         /\ UNCHANGED <<lru, my, want>>
    BY DEF Ideintr
  <1>12. idequeue' # <<>> => Head(idequeue') = idequeue[2] /\ Head(idequeue') \in Bufs \ {b}
    BY <1>2, <1>7, <1>11
  <1>13. active' = IF idequeue' = <<>> THEN Nobody ELSE Idestart(Head(idequeue'), bcache)
    BY <1>11, <1>12
  <1>14. /\ idequeue' \in Seq(Bufs) /\ IsInjective(idequeue')
         /\ ToSet(idequeue') = ToSet(idequeue) \ {b}
    BY <1>2, <1>3, <1>11
  <1>15. Request(b, p, blk)
    BY <1>3, <1>4, <1>5, <1>6, <1>8, <1>9, <1>10, <1>11, <1>12, <1>13, <1>14 DEF Request
  <1> QED  BY <1>15

\* ideintr keeps the invariant: it wakes the one user of the request, the block
\* and its buffer agree, and the next request is started.
LEMMA IdeintrStep ==
    ASSUME BcInv, Ideintr
    PROVE  BcInv'
  <1> USE DEF BcInv
  <1> PICK b \in Bufs, p \in BcProcs, blk \in Blocks : Request(b, p, blk)  BY RequestFacts
  <1>0. PICK x \in Values \cup {Nobody} :
           x = IF bcache[b].dirty THEN bcache[b].data ELSE disk[blk]
    <2>1. bcache[b].data \in Values \cup {Nobody} /\ disk[blk] \in Values  BY DEF Typed, Kinds
    <2> QED  BY <2>1
  <1>1. /\ bcache' \in [Bufs -> Kinds]
        /\ \A c \in Bufs : /\ bcache'[c].blockno = bcache[c].blockno
                           /\ bcache'[c].locked = bcache[c].locked
                           /\ bcache'[c].refcnt = bcache[c].refcnt
                           /\ c # b => bcache'[c] = bcache[c]
        /\ bcache'[b].valid /\ ~bcache'[b].dirty /\ bcache'[b].data = x
    <2>1. bcache \in [Bufs -> Kinds] /\ bcache' = Served(bcache, b, x)
      BY <1>0 DEF Typed, Request
    <2> QED  BY <2>1, ServedTyped
  <1>2. /\ bpc[p] = "io" /\ my[p] = b /\ bcache[b].blockno = blk /\ bcache[b].locked
        /\ \A q \in BcProcs : Inside(q) /\ my[q] = b => q = p
        /\ UNCHANGED <<lru, my, want>>
        /\ \A q \in BcProcs : bpc'[q] = (IF q = p THEN "woken" ELSE bpc[q]) /\ my[q] \in Bufs
    BY DEF Request, Typed
  <1>3. /\ x \in Values /\ disk' \in [Blocks -> Values] /\ disk'[blk] = x
        /\ \A k \in Blocks \ {blk} : disk'[k] = disk[k]
    <2>1. bcache[b].dirty => bcache[b].data \in Values  BY DEF Filled
    <2>2. disk \in [Blocks -> Values]  BY DEF Typed
    <2>3. disk' = IF bcache[b].dirty THEN [disk EXCEPT ![blk] = bcache[b].data] ELSE disk
      BY DEF Request
    <2> QED  BY <1>0, <2>1, <2>2, <2>3
  <1>4. /\ idequeue' \in Seq(Bufs) /\ IsInjective(idequeue')
        /\ ToSet(idequeue') = ToSet(idequeue) \ {b}
        /\ idequeue' # <<>> => Head(idequeue') \in Bufs \ {b}
        /\ active' = IF idequeue' = <<>> THEN Nobody ELSE Idestart(Head(idequeue'), bcache)
    BY DEF Request
  <1>5. Typed'
    <2>1. \A c \in Bufs : Idestart(c, bcache) \in [write : BOOLEAN, data : Values \cup {Nobody}]
      <3> TAKE c \in Bufs
      <3>1. bcache[c].dirty \in BOOLEAN /\ bcache[c].data \in Values \cup {Nobody}
        BY DEF Typed, Kinds
      <3> QED  BY <3>1 DEF Idestart
    <2>2. active' \in {Nobody} \cup [write : BOOLEAN, data : Values \cup {Nobody}]
      BY <1>4, <2>1
    <2>3. bpc' \in [BcProcs -> BcSteps]
      BY DEF Request, Typed, BcSteps
    <2> QED  BY <1>1, <1>2, <1>3, <1>4, <2>2, <2>3 DEF Typed
  <1>6. \A q \in BcProcs : /\ bpc'[q] \in Holding <=> bpc[q] \in Holding
                           /\ Inside(q)' <=> Inside(q)
    BY <1>2 DEF Holding, Inside
  <1>7. Counted'  BY <1>1, <1>2, <1>6, SameUsers
  <1>8. Wanted'  BY <1>1, <1>2, <1>6 DEF Wanted
  <1>9. OneCopy'  BY <1>1 DEF OneCopy, Cached
  <1>10. Exclusive'
    <2> SUFFICES ASSUME NEW q \in BcProcs, Inside(q)'
                 PROVE  /\ bcache'[my[q]].locked
                        /\ bpc'[q] = "have" => bcache'[my[q]].valid
                        /\ bpc'[q] = "woken" => bcache'[my[q]].valid /\ ~bcache'[my[q]].dirty
                        /\ \A o \in BcProcs : Inside(o)' /\ my[o] = my[q] => o = q
      BY <1>2 DEF Exclusive
    <2>1. Inside(q)  BY <1>6
    <2>2. \A o \in BcProcs : Inside(o)' /\ my[o] = my[q] => o = q
      BY <1>6, <2>1 DEF Exclusive
    <2>3. bcache'[my[q]].locked  BY <1>1, <1>2, <2>1 DEF Exclusive
    <2>4. CASE q = p  BY <1>1, <1>2, <2>2, <2>3, <2>4
    <2>5. CASE q # p
      <3>1. my[q] # b /\ my[q] \in Bufs /\ bpc'[q] = bpc[q]  BY <1>2, <2>1, <2>5
      <3>2. bcache'[my[q]] = bcache[my[q]]  BY <1>1, <3>1
      <3> QED  BY <2>1, <2>2, <2>3, <3>1, <3>2 DEF Exclusive
    <2> QED  BY <2>4, <2>5
  <1>11. WaitJustified'
    <2>1. \A q \in BcProcs : bpc'[q] = "io" => my[q] # b /\ bpc[q] = "io"
      BY <1>2 DEF Inside
    <2> QED  BY <1>1, <1>2, <1>4, <2>1 DEF WaitJustified
  <1>12. CleanIsOnDisk' /\ Filled'
    <2>1. \A c \in Bufs \ {b} : bcache'[c] = bcache[c] /\ bcache[c].blockno # blk
      BY <1>1, <1>2 DEF OneCopy, Cached
    <2>2. bcache'[b].blockno = blk  BY <1>1, <1>2
    <2> QED  BY <1>1, <1>3, <2>1, <2>2 DEF CleanIsOnDisk, Filled
  <1>13. Queued'
    <2>1. ASSUME NEW c \in ToSet(idequeue')
          PROVE  \E q \in BcProcs : bpc'[q] = "io" /\ my'[q] = c
      <3>1. PICK q \in BcProcs : bpc[q] = "io" /\ my[q] = c  BY <1>4 DEF Queued
      <3>2. q # p  BY <1>2, <1>4, <3>1
      <3> QED  BY <1>2, <3>1, <3>2
    <2>2. idequeue' # <<>> => /\ active' = Idestart(Head(idequeue'), bcache')
                              /\ active' # Nobody
      <3> SUFFICES ASSUME idequeue' # <<>>
                   PROVE  active' = Idestart(Head(idequeue'), bcache') /\ active' # Nobody
        OBVIOUS
      <3>1. bcache'[Head(idequeue')] = bcache[Head(idequeue')]  BY <1>1, <1>4
      <3>2. active' = Idestart(Head(idequeue'), bcache')  BY <1>4, <3>1 DEF Idestart
      <3>3. active' \in [write : BOOLEAN, data : Values \cup {Nobody}]
        <4> DEFINE c == Head(idequeue')
        <4>1. bcache[c].dirty \in BOOLEAN /\ bcache[c].data \in Values \cup {Nobody}
          BY <1>4 DEF Typed, Kinds
        <4> QED  BY <1>4, <4>1 DEF Idestart
      <3> QED  BY <3>2, <3>3, BcacheConstants
    <2> QED  BY <1>4, <2>1, <2>2 DEF Queued
  <1> QED  BY <1>5, <1>7, <1>8, <1>9, <1>10, <1>11, <1>12, <1>13
-----------------------------------------------------------------------------
\* Every step keeps the invariant.
LEMMA NextStep == BcInv /\ [BcNext]_bcVars => BcInv'
  <1> SUFFICES ASSUME BcInv, [BcNext]_bcVars PROVE BcInv'  OBVIOUS
  <1>1. CASE UNCHANGED bcVars
    <2>1. /\ bcache' = bcache /\ lru' = lru /\ idequeue' = idequeue /\ active' = active
          /\ disk' = disk /\ bpc' = bpc /\ my' = my /\ want' = want
      BY <1>1 DEF bcVars
    <2>2. Typed' /\ Counted' /\ Wanted' /\ OneCopy' /\ Exclusive'
      BY <2>1 DEF BcInv, Typed, Counted, Users, Wanted, OneCopy, Cached, Exclusive, Inside
    <2>3. WaitJustified' /\ CleanIsOnDisk' /\ Filled' /\ Queued'
      BY <2>1 DEF BcInv, WaitJustified, CleanIsOnDisk, Filled, Queued
    <2> QED  BY <2>2, <2>3 DEF BcInv
  <1>2. CASE Ideintr  BY <1>2, IdeintrStep
  <1>3. ASSUME NEW p \in BcProcs, User(p) PROVE BcInv'
    <2>1. CASE AcquireSleep(p)  BY <2>1, AcquireStep
    <2>2. CASE ReleaseSleep(p)  BY <2>2, ReleaseStep
    <2>3. CASE Unref(p)  BY <2>3, UnrefStep
    <2>4. CASE Bread(p)  BY <2>4, BreadStep
    <2>5. CASE IderwDone(p)  BY <2>5, DoneStep
    <2>6. ASSUME NEW blk \in Blocks, BgetHit(p, blk) \/ BgetMiss(p, blk) \/ BgetPanic(p, blk)
          PROVE  BcInv'
      BY <2>6, HitStep, MissStep, PanicStep
    <2>7. ASSUME NEW v \in Values, Bwrite(p, v) \/ LogWrite(p, v)
          PROVE  BcInv'
      BY <2>7, BwriteStep, LogWriteStep
    <2> QED  BY <1>3, <2>1, <2>2, <2>3, <2>4, <2>5, <2>6, <2>7 DEF User
  <1> QED  BY <1>1, <1>2, <1>3 DEF BcNext

\* The inductive invariant holds in every reachable state.
THEOREM CacheInvariance == BcSpec => []BcInv
  <1>1. BcInit => BcInv  BY BcInitInv
  <1>2. BcInv /\ [BcNext]_bcVars => BcInv'  BY NextStep
  <1> QED  BY <1>1, <1>2, PTL DEF BcSpec

\* The invariant gives the properties of Bcache.
LEMMA InvIsSound == BcInv => CacheSound
  <1> SUFFICES ASSUME BcInv PROVE CacheSound  OBVIOUS
  <1> USE DEF BcInv
  <1>1. BcTypeOK
    <2>1. Len(lru) = NBUF
      <3>1. lru \in Seq(Bufs) /\ DOMAIN lru = 1 .. NBUF /\ NBUF \in Nat
        BY SeqDef, BcacheConstants DEF Typed, Bufs
      <3>2. DOMAIN lru = 1 .. Len(lru) /\ Len(lru) \in Nat  BY <3>1, LenProperties
      <3> QED  BY <3>1, <3>2
    <2>2. ToSet(idequeue) \subseteq Bufs
      BY DEF Typed, ToSet
    <2> QED  BY <2>1, <2>2 DEF Typed, Kinds, BcTypeOK
  <1>2. UserExclusive
    <2>1. \A p \in BcProcs : Inside(p) => bpc[p] \in Holding  BY DEF Inside, Holding
    <2> QED  BY <2>1 DEF UserExclusive, Exclusive, Wanted
  <1> QED  BY <1>1, <1>2 DEF CacheSound

\* bio.c, sleeplock.c and ide.c: every buffer stays on the list once, a block has
\* one buffer and a buffer one user, sleepers have somebody to wake them and a
\* clean buffer is its block, for every number of uses, buffers and blocks.
THEOREM BufferCache == BcSpec => []CacheSound
  BY CacheInvariance, InvIsSound, PTL
-----------------------------------------------------------------------------
\* Content is total, the dirty buffer's data, and else what the disk has.
Latest ==
    /\ Content \in [Blocks -> Values]
    /\ \A b \in Bufs : bcache[b].dirty => Content[bcache[b].blockno] = bcache[b].data
    /\ \A blk \in Blocks : (\A b \in Cached(blk) : ~bcache[b].dirty) => Content[blk] = disk[blk]

\* What the cache shows of a block is the dirty buffer's data or the disk's.
LEMMA ContentIs == BcInv => Latest
  <1> SUFFICES ASSUME BcInv PROVE Latest  OBVIOUS
  <1> USE DEF BcInv
  <1>1. \A blk \in Blocks : \A b \in Cached(blk) :
           Content[blk] = IF bcache[b].valid THEN bcache[b].data ELSE disk[blk]
    <2> TAKE blk \in Blocks
    <2> TAKE b \in Cached(blk)
    <2>1. \A c \in Cached(blk) : c = b  BY DEF OneCopy
    <2>2. (CHOOSE c \in Cached(blk) : TRUE) = b  BY <2>1
    <2>3. (\E c \in Cached(blk) : bcache[c].valid \/ bcache[c].dirty) <=> bcache[b].valid
      BY <2>1 DEF Filled, Cached
    <2> QED  BY <2>2, <2>3 DEF Content
  <1>2. \A blk \in Blocks : Cached(blk) = {} => Content[blk] = disk[blk]
    BY DEF Content
  <1>3. \A blk \in Blocks : \A b \in Cached(blk) : b \in Bufs /\ bcache[b].blockno = blk
    BY DEF Cached
  <1>4. ASSUME NEW b \in Bufs, bcache[b].dirty
        PROVE  Content[bcache[b].blockno] = bcache[b].data
    <2>1. bcache[b].valid /\ bcache[b].blockno \in Blocks /\ b \in Cached(bcache[b].blockno)
      BY <1>4 DEF Filled, Cached
    <2> QED  BY <1>1, <2>1
  <1>5. ASSUME NEW blk \in Blocks, \A b \in Cached(blk) : ~bcache[b].dirty
        PROVE  Content[blk] = disk[blk]
    <2>1. ASSUME NEW b \in Cached(blk) PROVE Content[blk] = disk[blk]
      <3>1. bcache[b].valid => bcache[b].data = disk[blk]
        BY <1>3, <1>5 DEF CleanIsOnDisk
      <3> QED  BY <1>1, <3>1
    <2> QED  BY <1>2, <2>1
  <1>6. \A blk \in Blocks : Content[blk] \in Values
    <2> TAKE blk \in Blocks
    <2>1. CASE \A b \in Cached(blk) : ~bcache[b].dirty  BY <1>5, <2>1 DEF Typed
    <2>2. CASE \E b \in Cached(blk) : bcache[b].dirty  BY <1>3, <1>4, <2>2 DEF Filled
    <2> QED  BY <2>1, <2>2
  <1>7. Content \in [Blocks -> Values]
    <2>1. Content = [blk \in Blocks |-> Content[blk]]  BY DEF Content
    <2> QED  BY <1>6, <2>1
  <1> QED  BY <1>4, <1>5, <1>7 DEF Latest

\* The same after a step.
LEMMA ContentNext == BcInv' => Latest'
  BY ContentIs, PTL

\* A block's holder is the use inside its buffer.
Held ==
    /\ \A p \in BcProcs : Inside(p) => want[p] \in Blocks /\ Holder[want[p]] = p
    /\ \A blk \in Blocks :
          (\A p \in BcProcs : Inside(p) => want[p] # blk) => Holder[blk] = Nobody

\* No two uses are inside the same block.
LEMMA HolderIs == BcInv => Held
  <1> SUFFICES ASSUME BcInv PROVE Held  OBVIOUS
  <1> USE DEF BcInv
  <1>1. ASSUME NEW p \in BcProcs, Inside(p), NEW q \in BcProcs, Inside(q), want[q] = want[p]
        PROVE  q = p
    <2>1. /\ bcache[my[p]].blockno = want[p] /\ bcache[my[q]].blockno = want[q]
          /\ want[p] \in Blocks /\ my[p] \in Bufs /\ my[q] \in Bufs
      BY <1>1 DEF Wanted, Inside, Holding, Typed
    <2>2. my[p] = my[q]  BY <1>1, <2>1 DEF OneCopy, Cached
    <2> QED  BY <1>1, <2>2 DEF Exclusive
  <1>2. ASSUME NEW p \in BcProcs, Inside(p)  PROVE want[p] \in Blocks /\ Holder[want[p]] = p
    <2>1. want[p] \in Blocks  BY <1>2 DEF Wanted, Inside, Holding
    <2>2. (CHOOSE q \in BcProcs : Inside(q) /\ want[q] = want[p]) = p  BY <1>1, <1>2
    <2> QED  BY <1>2, <2>1, <2>2 DEF Holder
  <1>3. ASSUME NEW blk \in Blocks, \A p \in BcProcs : Inside(p) => want[p] # blk
        PROVE  Holder[blk] = Nobody
    BY <1>3 DEF Holder
  <1> QED  BY <1>2, <1>3 DEF Held

\* The same after a step.
LEMMA HolderNext == BcInv' => Held'
  BY HolderIs, PTL

\* Steps that touch no dirty buffer and no block are invisible.
LEMMA SameContent ==
    ASSUME BcInv, BcInv', disk' = disk,
           \A b \in Bufs : /\ bcache'[b].dirty <=> bcache[b].dirty
                           /\ bcache[b].dirty => /\ bcache'[b].blockno = bcache[b].blockno
                                                 /\ bcache'[b].data = bcache[b].data
    PROVE  Content' = Content
  <1>1. ASSUME NEW blk \in Blocks  PROVE Content'[blk] = Content[blk]
    <2>1. CASE \E b \in Cached(blk) : bcache[b].dirty
      BY <2>1, ContentIs, ContentNext DEF Cached, Latest
    <2>2. CASE \A b \in Cached(blk) : ~bcache[b].dirty
      <3>1. \A b \in Cached(blk)' : ~bcache'[b].dirty  BY <2>2 DEF Cached
      <3> QED  BY <2>2, <3>1, ContentIs, ContentNext DEF Latest
    <2> QED  BY <2>1, <2>2
  <1> QED  BY <1>1, ContentIs, ContentNext DEF Latest

\* Steps that let nobody into a buffer nor out of one leave the holders.
LEMMA SameHolder ==
    ASSUME BcInv, BcInv',
           \A p \in BcProcs : /\ Inside(p)' <=> Inside(p)
                              /\ Inside(p) => want'[p] = want[p]
    PROVE  Holder' = Holder
  <1>1. ASSUME NEW blk \in Blocks  PROVE Holder'[blk] = Holder[blk]
    <2>1. CASE \E p \in BcProcs : Inside(p) /\ want[p] = blk
      BY <2>1, HolderIs, HolderNext DEF Held
    <2>2. CASE \A p \in BcProcs : Inside(p) => want[p] # blk
      <3>1. \A p \in BcProcs : Inside(p)' => want'[p] # blk  BY <2>2
      <3> QED  BY <2>2, <3>1, HolderIs, HolderNext DEF Held
    <2> QED  BY <2>1, <2>2
  <1>2. Holder = [blk \in Blocks |-> Holder[blk]] /\ Holder' = [blk \in Blocks |-> Holder'[blk]]
    BY DEF Holder
  <1> QED  BY <1>1, <1>2

\* bget, bread, the second half of brelse and the return of iderw are invisible
\* to the users of the blocks.
LEMMA StaySteps ==
    ASSUME BcInv, BcInv', NEW p \in BcProcs,
           \/ Unref(p) \/ Bread(p) \/ IderwDone(p)
           \/ \E blk \in Blocks : BgetHit(p, blk) \/ BgetMiss(p, blk) \/ BgetPanic(p, blk)
    PROVE  Content' = Content /\ Holder' = Holder
  <1> USE DEF BcInv
  <1>0. \A q \in BcProcs : my[q] \in Bufs  BY DEF Typed
  <1>1. CASE Unref(p)
    <2>1. /\ bpc[p] = "unref" /\ bpc' = [bpc EXCEPT ![p] = "idle"]
          /\ bcache' = [bcache EXCEPT ![my[p]].refcnt = @ - 1]
          /\ want' = [want EXCEPT ![p] = NoBlock] /\ disk' = disk
      BY <1>1 DEF Unref, Goto
    <2>2. \A b \in Bufs : /\ bcache'[b].dirty = bcache[b].dirty
                          /\ bcache'[b].blockno = bcache[b].blockno
                          /\ bcache'[b].data = bcache[b].data
      BY <1>0, <2>1 DEF Typed, Kinds
    <2>3. \A q \in BcProcs : (Inside(q)' <=> Inside(q)) /\ (Inside(q) => want'[q] = want[q])
      BY <2>1 DEF Inside, Typed
    <2> QED  BY <2>1, <2>2, <2>3, SameContent, SameHolder
  <1>2. CASE Bread(p)
    <2>1. /\ bpc[p] = "locked" /\ disk' = disk /\ bcache' = bcache /\ want' = want
          /\ bpc' = [bpc EXCEPT ![p] = "have"] \/ bpc' = [bpc EXCEPT ![p] = "io"]
      BY <1>2 DEF Bread, Iderw, Goto
    <2>2. \A q \in BcProcs : Inside(q)' <=> Inside(q)  BY <2>1 DEF Inside, Typed
    <2> QED  BY <2>1, <2>2, SameContent, SameHolder
  <1>3. CASE IderwDone(p)
    <2>1. /\ bpc[p] = "woken" /\ disk' = disk /\ bcache' = bcache /\ want' = want
          /\ bpc' = [bpc EXCEPT ![p] = "have"] \/ bpc' = [bpc EXCEPT ![p] = "io"]
      BY <1>3 DEF IderwDone, Goto
    <2>2. \A q \in BcProcs : Inside(q)' <=> Inside(q)  BY <2>1 DEF Inside, Typed
    <2> QED  BY <2>1, <2>2, SameContent, SameHolder
  <1>4. ASSUME NEW blk \in Blocks, BgetHit(p, blk)
        PROVE  Content' = Content /\ Holder' = Holder
    <2> DEFINE b == MostRecent(Cached(blk))
    <2>1. /\ bpc[p] = "idle" /\ bpc' = [bpc EXCEPT ![p] = "lock"] /\ b \in Bufs
          /\ bcache' = [bcache EXCEPT ![b].refcnt = @ + 1]
          /\ want' = [want EXCEPT ![p] = blk] /\ disk' = disk
      BY <1>4, Places DEF BgetHit, Goto, Cached
    <2> HIDE DEF b
    <2>2. \A c \in Bufs : /\ bcache'[c].dirty = bcache[c].dirty
                          /\ bcache'[c].blockno = bcache[c].blockno
                          /\ bcache'[c].data = bcache[c].data
      BY <2>1 DEF Typed, Kinds
    <2>3. \A q \in BcProcs : (Inside(q)' <=> Inside(q)) /\ (Inside(q) => want'[q] = want[q])
      BY <2>1 DEF Inside, Typed
    <2> QED  BY <2>1, <2>2, <2>3, SameContent, SameHolder
  <1>5. ASSUME NEW blk \in Blocks, BgetMiss(p, blk)
        PROVE  Content' = Content /\ Holder' = Holder
    <2> DEFINE b == LeastRecent(Free)
               r == [bcache[b] EXCEPT !.blockno = blk, !.valid = FALSE,
                                      !.dirty = FALSE, !.refcnt = 1]
    <2>1. /\ bpc[p] = "idle" /\ bpc' = [bpc EXCEPT ![p] = "lock"]
          /\ b \in Bufs /\ ~bcache[b].dirty
          /\ bcache' = [bcache EXCEPT ![b] = r]
          /\ want' = [want EXCEPT ![p] = blk] /\ disk' = disk
      BY <1>5, Places DEF BgetMiss, Goto, Free
    <2> HIDE DEF b
    <2>2. r.dirty = FALSE  BY <2>1 DEF Typed, Kinds
    <2> HIDE DEF r
    <2>3. bcache'[b] = r /\ \A c \in Bufs \ {b} : bcache'[c] = bcache[c]
      BY <2>1 DEF Typed
    <2>4. \A q \in BcProcs : (Inside(q)' <=> Inside(q)) /\ (Inside(q) => want'[q] = want[q])
      BY <2>1 DEF Inside, Typed
    <2>5. \A c \in Bufs : /\ bcache'[c].dirty <=> bcache[c].dirty
                          /\ bcache[c].dirty => /\ bcache'[c].blockno = bcache[c].blockno
                                                /\ bcache'[c].data = bcache[c].data
      BY <2>1, <2>2, <2>3
    <2> QED  BY <2>1, <2>4, <2>5, SameContent, SameHolder
  <1>6. ASSUME NEW blk \in Blocks, BgetPanic(p, blk)
        PROVE  Content' = Content /\ Holder' = Holder
    <2>1. /\ bpc[p] = "idle" /\ bpc' = [bpc EXCEPT ![p] = "panic"]
          /\ bcache' = bcache /\ want' = want /\ disk' = disk
      BY <1>6 DEF BgetPanic, Goto
    <2>2. \A q \in BcProcs : Inside(q)' <=> Inside(q)  BY <2>1 DEF Inside, Typed
    <2> QED  BY <2>1, <2>2, SameContent, SameHolder
  <1> QED  BY <1>1, <1>2, <1>3, <1>4, <1>5, <1>6

\* acquiresleep is Take, or the user goes to sleep and nothing happens.
LEMMA TakeStep ==
    ASSUME BcInv, BcInv', NEW p \in BcProcs, AcquireSleep(p)
    PROVE  [Store!StoreNext]_(Store!storeVars)
  <1> USE DEF BcInv
  <1>0. p \in BcProcs /\ bpc[p] = "lock" /\ disk' = disk /\ want' = want /\ my[p] \in Bufs
    BY DEF AcquireSleep, Typed
  <1>1. CASE bcache[my[p]].locked
    <2>1. bcache' = bcache /\ bpc' = [bpc EXCEPT ![p] = "locksleep"]
      BY <1>1 DEF AcquireSleep, Goto
    <2>2. \A q \in BcProcs : Inside(q)' <=> Inside(q)  BY <1>0, <2>1 DEF Inside, Typed
    <2>3. Content' = Content /\ Holder' = Holder
      BY <1>0, <2>1, <2>2, SameContent, SameHolder
    <2> QED  BY <2>3 DEF Store!storeVars
  <1>2. CASE ~bcache[my[p]].locked
    <2>1. /\ bpc' = [bpc EXCEPT ![p] = "locked"]
          /\ bcache' = [bcache EXCEPT ![my[p]].locked = TRUE]
      BY <1>2 DEF AcquireSleep, Goto
    <2>2. \A c \in Bufs : /\ bcache'[c].dirty = bcache[c].dirty
                          /\ bcache'[c].blockno = bcache[c].blockno
                          /\ bcache'[c].data = bcache[c].data
      BY <1>0, <2>1 DEF Typed, Kinds
    <2>3. Content' = Content  BY <1>0, <2>2, SameContent
    <2>4. /\ want[p] \in Blocks /\ bcache[my[p]].blockno = want[p]
      BY <1>0 DEF Wanted, Holding
    <2>5. \A q \in BcProcs : Inside(q) => want[q] # want[p]
      <3> SUFFICES ASSUME NEW q \in BcProcs, Inside(q), want[q] = want[p] PROVE FALSE  OBVIOUS
      <3>1. bcache[my[q]].blockno = want[p] /\ my[q] \in Bufs
        BY DEF Wanted, Inside, Holding, Typed
      <3>2. my[q] = my[p]  BY <1>0, <2>4, <3>1 DEF OneCopy, Cached
      <3> QED  BY <1>2, <3>2 DEF Exclusive
    <2>6. Inside(p)' /\ \A q \in BcProcs \ {p} : Inside(q)' <=> Inside(q)
      BY <1>0, <2>1 DEF Inside, Typed
    <2>7. Holder[want[p]] = Nobody  BY <2>4, <2>5, HolderIs DEF Held
    <2>8. Holder' = [Holder EXCEPT ![want[p]] = p]
      <3>1. Holder'[want[p]] = p  BY <1>0, <2>4, <2>6, HolderNext DEF Held
      <3>2. ASSUME NEW blk \in Blocks, blk # want[p]  PROVE Holder'[blk] = Holder[blk]
        <4>1. CASE \E q \in BcProcs : Inside(q) /\ want[q] = blk
          <5>1. PICK q \in BcProcs : Inside(q) /\ want[q] = blk  BY <4>1
          <5>2. Inside(q)'  BY <2>6, <5>1
          <5> QED  BY <1>0, <5>1, <5>2, HolderIs, HolderNext DEF Held
        <4>2. CASE \A q \in BcProcs : Inside(q) => want[q] # blk
          <5>1. \A q \in BcProcs : Inside(q)' => want'[q] # blk  BY <1>0, <2>6, <3>2, <4>2
          <5> QED  BY <4>2, <5>1, HolderIs, HolderNext DEF Held
        <4> QED  BY <4>1, <4>2
      <3>3. /\ Holder = [blk \in Blocks |-> Holder[blk]]
            /\ Holder' = [blk \in Blocks |-> Holder'[blk]]
        BY DEF Holder
      <3> QED  BY <2>4, <3>1, <3>2, <3>3
    <2>9. Store!Take(p, want[p])  BY <2>3, <2>7, <2>8 DEF Store!Take
    <2> QED  BY <1>0, <2>4, <2>9 DEF Store!StoreNext
  <1> QED  BY <1>1, <1>2

\* releasesleep is GiveBack.
LEMMA GiveBackStep ==
    ASSUME BcInv, BcInv', NEW p \in BcProcs, ReleaseSleep(p)
    PROVE  [Store!StoreNext]_(Store!storeVars)
  <1> USE DEF BcInv
  <1>1. /\ bpc[p] = "have" /\ UNCHANGED <<lru, idequeue, active, disk, my, want>>
        /\ bcache' = [bcache EXCEPT ![my[p]].locked = FALSE] /\ my[p] \in Bufs
        /\ bpc' = [q \in BcProcs |-> IF q = p THEN "unref"
                                ELSE IF bpc[q] = "locksleep" /\ my[q] = my[p] THEN "lock"
                                ELSE bpc[q]]
    BY DEF ReleaseSleep, Typed
  <1>2. \A c \in Bufs : /\ bcache'[c].dirty = bcache[c].dirty
                        /\ bcache'[c].blockno = bcache[c].blockno
                        /\ bcache'[c].data = bcache[c].data
    BY <1>1 DEF Typed, Kinds
  <1>3. Content' = Content  BY <1>1, <1>2, SameContent
  <1>4. Inside(p) /\ ~Inside(p)' /\ \A q \in BcProcs \ {p} : Inside(q)' <=> Inside(q)
    BY <1>1 DEF Inside
  <1>5. want[p] \in Blocks /\ Holder[want[p]] = p  BY <1>4, HolderIs DEF Held
  <1>6. Holder' = [Holder EXCEPT ![want[p]] = Nobody]
    <2>1. \A q \in BcProcs : Inside(q)' => want'[q] # want[p]
      <3> SUFFICES ASSUME NEW q \in BcProcs, Inside(q)', want'[q] = want[p] PROVE FALSE  OBVIOUS
      <3>1. q # p /\ Inside(q) /\ want[q] = want[p]  BY <1>1, <1>4
      <3> QED  BY <1>5, <3>1, HolderIs DEF Held
    <2>2. Holder'[want[p]] = Nobody  BY <1>5, <2>1, HolderNext DEF Held
    <2>3. ASSUME NEW blk \in Blocks, blk # want[p]  PROVE Holder'[blk] = Holder[blk]
      <3>1. CASE \E q \in BcProcs : Inside(q) /\ want[q] = blk
        <4>1. PICK q \in BcProcs : Inside(q) /\ want[q] = blk  BY <3>1
        <4>2. Inside(q)' /\ want'[q] = blk  BY <1>1, <1>4, <2>3, <4>1
        <4> QED  BY <4>1, <4>2, HolderIs, HolderNext DEF Held
      <3>2. CASE \A q \in BcProcs : Inside(q) => want[q] # blk
        <4>1. \A q \in BcProcs : Inside(q)' => want'[q] # blk  BY <1>1, <1>4, <3>2
        <4> QED  BY <3>2, <4>1, HolderIs, HolderNext DEF Held
      <3> QED  BY <3>1, <3>2
    <2>4. /\ Holder = [blk \in Blocks |-> Holder[blk]]
          /\ Holder' = [blk \in Blocks |-> Holder'[blk]]
      BY DEF Holder
    <2> QED  BY <1>5, <2>2, <2>3, <2>4
  <1>7. Store!GiveBack(p, want[p])  BY <1>3, <1>5, <1>6 DEF Store!GiveBack
  <1> QED  BY <1>5, <1>7 DEF Store!StoreNext

\* bwrite and log_write are Change.
LEMMA ChangeSteps ==
    ASSUME BcInv, BcInv', NEW p \in BcProcs, NEW v \in Values, Bwrite(p, v) \/ LogWrite(p, v)
    PROVE  [Store!StoreNext]_(Store!storeVars)
  <1> USE DEF BcInv
  <1> PICK b \in Bufs : b = my[p]  BY DEF Typed
  <1>1. /\ bpc[p] = "have" /\ bcache' = Changed(bcache, b, v)
        /\ bpc' = [bpc EXCEPT ![p] = "io"] \/ bpc' = bpc
        /\ disk' = disk /\ want' = want
    BY DEF Bwrite, LogWrite, Iderw, Goto, Changed
  <1>2. /\ \A c \in Bufs : /\ bcache'[c].blockno = bcache[c].blockno
                           /\ c # b => bcache'[c] = bcache[c]
        /\ bcache'[b].dirty /\ bcache'[b].data = v
    <2>1. bcache \in [Bufs -> Kinds]  BY DEF Typed
    <2> QED  BY <1>1, <2>1, DataTyped
  <1>3. \A q \in BcProcs : Inside(q)' <=> Inside(q)  BY <1>1 DEF Inside, Typed
  <1>4. Holder' = Holder  BY <1>1, <1>3, SameHolder
  <1>5. Inside(p)  BY <1>1 DEF Inside
  <1>6. PICK blk \in Blocks : blk = want[p] /\ Holder[blk] = p  BY <1>5, HolderIs DEF Held
  <1>7. bcache[b].blockno = blk  BY <1>1, <1>6 DEF Wanted, Holding
  <1>8. \A c \in Bufs \ {b} : bcache[c].blockno # blk  BY <1>7 DEF OneCopy, Cached
  <1>9. Content' = [Content EXCEPT ![blk] = v]
    <2>1. Content'[blk] = v  BY <1>2, <1>7, ContentNext DEF Latest
    <2>2. ASSUME NEW k \in Blocks, k # blk  PROVE Content'[k] = Content[k]
      <3>1. \A c \in Bufs : bcache[c].blockno = k => c # b /\ bcache'[c] = bcache[c]
        BY <1>2, <1>7, <2>2
      <3>2. \A c \in Bufs : bcache'[c].blockno = k => bcache'[c] = bcache[c]
        BY <1>2, <3>1
      <3>3. CASE \E c \in Bufs : bcache[c].blockno = k /\ bcache[c].dirty
        BY <3>1, <3>3, ContentIs, ContentNext DEF Latest
      <3>4. CASE \A c \in Bufs : bcache[c].blockno = k => ~bcache[c].dirty
        <4>1. \A c \in Cached(k) : ~bcache[c].dirty  BY <3>4 DEF Cached
        <4>2. \A c \in Cached(k)' : ~bcache'[c].dirty  BY <1>2, <3>2, <3>4 DEF Cached
        <4> QED  BY <1>1, <4>1, <4>2, ContentIs, ContentNext DEF Latest
      <3> QED  BY <3>3, <3>4
    <2> QED  BY <2>1, <2>2, ContentIs, ContentNext DEF Latest
  <1>10. Store!Change(p, blk)  BY <1>4, <1>6, <1>9 DEF Store!Change
  <1> QED  BY <1>10 DEF Store!StoreNext

\* ideintr is invisible: it moves the same contents between buffer and disk.
LEMMA DiskStep ==
    ASSUME BcInv, BcInv', Ideintr
    PROVE  Content' = Content /\ Holder' = Holder
  <1> USE DEF BcInv
  <1> PICK b \in Bufs, p \in BcProcs, blk \in Blocks : Request(b, p, blk)  BY RequestFacts
  <1>0. PICK x \in Values \cup {Nobody} :
           x = IF bcache[b].dirty THEN bcache[b].data ELSE disk[blk]
    <2>1. bcache[b].data \in Values \cup {Nobody} /\ disk[blk] \in Values  BY DEF Typed, Kinds
    <2> QED  BY <2>1
  <1>1. /\ \A c \in Bufs : /\ bcache'[c].blockno = bcache[c].blockno
                           /\ c # b => bcache'[c] = bcache[c]
        /\ ~bcache'[b].dirty
    <2>1. bcache \in [Bufs -> Kinds] /\ bcache' = Served(bcache, b, x)
      BY <1>0 DEF Typed, Request
    <2> QED  BY <2>1, ServedTyped
  <1>2. /\ bpc[p] = "io" /\ bcache[b].blockno = blk /\ want' = want
        /\ \A q \in BcProcs : bpc'[q] = (IF q = p THEN "woken" ELSE bpc[q])
    BY DEF Request
  <1>3. disk'[blk] = x /\ \A k \in Blocks \ {blk} : disk'[k] = disk[k]
    <2>1. disk' = IF bcache[b].dirty THEN [disk EXCEPT ![blk] = bcache[b].data] ELSE disk
      BY DEF Request
    <2> QED  BY <1>0, <2>1 DEF Typed
  <1>4. Holder' = Holder
    <2>1. \A q \in BcProcs : Inside(q)' <=> Inside(q)  BY <1>2 DEF Inside
    <2> QED  BY <1>2, <2>1, SameHolder
  <1>5. \A c \in Bufs \ {b} : bcache[c].blockno # blk  BY <1>2 DEF OneCopy, Cached
  <1>6. ASSUME NEW k \in Blocks  PROVE Content'[k] = Content[k]
    <2>1. CASE k = blk
      <3>1. Content[blk] = x
        <4>1. CASE bcache[b].dirty  BY <1>0, <1>2, <4>1, ContentIs DEF Latest
        <4>2. CASE ~bcache[b].dirty
          <5>1. \A c \in Cached(blk) : ~bcache[c].dirty  BY <1>5, <4>2 DEF Cached
          <5> QED  BY <1>0, <4>2, <5>1, ContentIs DEF Latest
        <4> QED  BY <4>1, <4>2
      <3>2. \A c \in Cached(blk)' : ~bcache'[c].dirty  BY <1>1, <1>5 DEF Cached
      <3> QED  BY <1>3, <2>1, <3>1, <3>2, ContentNext DEF Latest
    <2>2. CASE k # blk
      <3>1. \A c \in Bufs : bcache[c].blockno = k => bcache'[c] = bcache[c]
        BY <1>1, <1>2, <2>2
      <3>2. CASE \E c \in Bufs : bcache[c].blockno = k /\ bcache[c].dirty
        BY <3>1, <3>2, ContentIs, ContentNext DEF Latest
      <3>3. CASE \A c \in Bufs : bcache[c].blockno = k => ~bcache[c].dirty
        <4>1. \A c \in Cached(k) : ~bcache[c].dirty  BY <3>3 DEF Cached
        <4>2. \A c \in Cached(k)' : ~bcache'[c].dirty  BY <1>1, <3>1, <3>3 DEF Cached
        <4> QED  BY <1>3, <2>2, <4>1, <4>2, ContentIs, ContentNext DEF Latest
      <3> QED  BY <3>2, <3>3
    <2> QED  BY <2>1, <2>2
  <1> QED  BY <1>4, <1>6, ContentIs, ContentNext DEF Latest

\* Every step of the cache is a step of the block store or a stutter.
LEMMA StoreStep ==
    BcInv /\ BcInv' /\ [BcNext]_bcVars => [Store!StoreNext]_(Store!storeVars)
  <1> SUFFICES ASSUME BcInv, BcInv', [BcNext]_bcVars
               PROVE  [Store!StoreNext]_(Store!storeVars)
    OBVIOUS
  <1>1. Content' = Content /\ Holder' = Holder => [Store!StoreNext]_(Store!storeVars)
    BY DEF Store!storeVars
  <1>2. CASE UNCHANGED bcVars
    <2>1. bcache' = bcache /\ disk' = disk /\ bpc' = bpc /\ want' = want  BY <1>2 DEF bcVars
    <2>2. \A q \in BcProcs : Inside(q)' <=> Inside(q)  BY <2>1 DEF Inside
    <2> QED  BY <1>1, <2>1, <2>2, SameContent, SameHolder
  <1>3. CASE Ideintr  BY <1>1, <1>3, DiskStep
  <1>4. ASSUME NEW p \in BcProcs, User(p)
        PROVE  [Store!StoreNext]_(Store!storeVars)
    <2>1. CASE AcquireSleep(p)  BY <2>1, TakeStep
    <2>2. CASE ReleaseSleep(p)  BY <2>2, GiveBackStep
    <2>3. CASE \/ Unref(p) \/ Bread(p) \/ IderwDone(p)
               \/ \E blk \in Blocks : BgetHit(p, blk) \/ BgetMiss(p, blk) \/ BgetPanic(p, blk)
      BY <1>1, <2>3, StaySteps
    <2>4. ASSUME NEW v \in Values, Bwrite(p, v) \/ LogWrite(p, v)
          PROVE  [Store!StoreNext]_(Store!storeVars)
      BY <2>4, ChangeSteps
    <2> QED  BY <1>4, <2>1, <2>2, <2>3, <2>4 DEF User
  <1> QED  BY <1>2, <1>3, <1>4 DEF BcNext

\* bio.c: "a synchronization point for disk blocks used by multiple processes":
\* the cache, its locks and the disk queue implement the block store.
THEOREM Implements == BcSpec => Transparent
  <1>1. BcInit => Store!StoreInit
    <2> SUFFICES ASSUME BcInit PROVE Store!StoreInit  OBVIOUS
    <2>1. BcInv  BY BcInitInv
    <2>2. Content \in [Blocks -> Values]  BY <2>1, ContentIs DEF Latest
    <2>3. \A p \in BcProcs : ~Inside(p)  BY DEF BcInit, Inside
    <2>4. Holder = [b \in Blocks |-> Nobody]  BY <2>3 DEF Holder
    <2> QED  BY <2>2, <2>4 DEF Store!StoreInit
  <1>2. BcInv /\ BcInv' /\ [BcNext]_bcVars => [Store!StoreNext]_(Store!storeVars)
    BY StoreStep
  <1> QED  BY <1>1, <1>2, CacheInvariance, PTL DEF BcSpec, Transparent, Store!StoreSpec
=============================================================================
