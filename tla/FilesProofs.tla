----------------------------- MODULE FilesProofs -----------------------------
(***************************************************************************)
(* Proofs about references to inodes, for any number of processes, names,  *)
(* inodes, cache entries and open files, and whatever calls the programs   *)
(* make at the same time: ip->ref counts the pointers to the entry, no     *)
(* inode has two entries, and a call that is over holds no lock.           *)
(***************************************************************************)
EXTENDS Files, FiniteSetTheorems, WellFoundedInduction, TLAPS

Pointer == 0 .. NINODE

\* The fields of a process's local variables, and of a cache entry.
Local == {"pc", "call", "elems", "parent", "name", "cur", "dp", "ip", "put",
          "lk", "inum", "nret", "lret", "pret"}
Locals(t) == t = [x \in Local |-> t[x]]
EntryFields == {"inum", "ref", "valid", "type", "nlink"}
Entry(e) == e = [x \in EntryFields |-> e[x]] /\ e.ref \in Nat

\* A process that called panic().
Stopped(t) == t.pc \in {"panic", "full"}

\* Where the call goes on when the subroutine it is in returns.
Putting == {"iput", "ifree", "iput2"}
Label(t) == IF t.pc = "ilock" THEN t.lret ELSE IF t.pc \in Putting THEN t.pret ELSE t.pc

Finds   == {"namex", "look", "next", "namexed"}
DpOnly  == {"create2", "unlink2", "ialloc", "create5", "unlink5"}
IpOnly  == {"create4", "open1", "open2", "made", "unlink4", "link2", "chdir2", "chdir3",
            "linked", "bad"}
DpAndIp == {"create6", "unlink3", "link4", "link5"}
Lookups == {"open1", "unlink2", "link2", "chdir2", "create2", "link4"}
LockRets == {"look", "create2", "unlink2", "link4", "create4", "open1", "link2", "chdir2",
             "bad", "create6", "unlink3"}
PutRets == {"done", "next", "namexed", "create4", "open2", "made", "unlink4", "unlink5",
            "linked", "link5", "bad", "chdir3"}

\* Which local variables point to an inode, by the place of the call: sys_link
\* keeps ip while the new name's directory is looked up.
Fits(t) ==
    /\ Label(t) \in {"idle", "done"} \cup Finds \cup DpOnly \cup IpOnly \cup DpAndIp
    /\ t.cur # None <=> Label(t) \in {"look", "next"}
    /\ t.dp # None <=> Label(t) \in DpOnly \cup DpAndIp
    /\ t.ip # None <=> \/ Label(t) \in IpOnly \cup DpAndIp
                       \/ Label(t) \in Finds /\ t.nret = "link4"
    /\ t.put # None <=> t.pc \in Putting
    /\ Label(t) \in Finds => t.nret \in Lookups
    /\ t.pc \in Putting => t.pret \in PutRets
    /\ t.pc = "ilock" =>
          /\ t.lret \in LockRets
          /\ t.lk = IF t.lret = "look" THEN t.cur
                    ELSE IF t.lret \in {"create2", "unlink2", "link4"} THEN t.dp ELSE t.ip

Good(t) ==
    /\ Locals(t)
    /\ t.cur \in Pointer /\ t.dp \in Pointer /\ t.ip \in Pointer /\ t.put \in Pointer
    /\ Stopped(t) \/ Fits(t)

\* The entries whose lock a call may hold where it is.
DpHeld(t) ==
    \/ t.pc \in {"create2", "unlink2", "ialloc", "create5", "create6", "unlink3", "link4",
                 "link5", "unlink5"}
    \/ t.pc = "ilock" /\ t.lret \in {"create6", "unlink3"}
    \/ t.pc \in Putting /\ t.pret \in {"unlink5", "link5"}
IpHeld(t) ==
    \/ t.pc \in {"create4", "open1", "open2", "made", "unlink4", "link2", "chdir2", "bad",
                 "create6", "unlink3"}
    \/ t.pc \in Putting /\ t.pret \in {"open2", "made", "unlink4"}
Holding(t, s) == \/ Stopped(t)
                 \/ t.pc = "look" /\ t.cur = s
                 \/ DpHeld(t) /\ t.dp = s
                 \/ IpHeld(t) /\ t.ip = s

\* The cache c: entries are records, and no inode has two.
CacheOK(c) ==
    /\ c = [s \in Slots |-> c[s]]
    /\ \A s \in Slots : Entry(c[s])
    /\ \A s, r \in Slots : c[s].ref > 0 /\ c[r].ref > 0 /\ c[s].inum = c[r].inum => s = r

ThreadsOK == th = [p \in Procs |-> th[p]] /\ \A p \in Procs : Good(th[p])

\* sys_chdir is without a current directory between the old and the new one.
CwdOK == /\ cwd \in [Procs -> Pointer]
         /\ \A p \in Procs : cwd[p] = None <=> Label(th[p]) = "chdir3"

LocksOK ==
    /\ holder = [s \in Slots |-> holder[s]]
    /\ \A s \in Slots : holder[s] # None => holder[s] \in Procs /\ Holding(th[holder[s]], s)

\* A struct file counts the descriptors that name it, and an open one points
\* to an inode.
Descriptors(f) == {x \in Procs \X (1 .. NOFILE) : ofile[x[1]][x[2]] = f}
FilesOK ==
    /\ ofile \in [Procs -> [1 .. NOFILE -> 0 .. NFILE]]
    /\ ftable \in [1 .. NFILE -> [ref : Nat, ip : Pointer]]
    /\ \A f \in 1 .. NFILE : /\ ftable[f].ref = Cardinality(Descriptors(f))
                             /\ ftable[f].ref > 0 => ftable[f].ip # None

Counted == \A s \in Slots : icache[s].ref = Cardinality(Pointers(s))

FInv == CacheOK(icache) /\ ThreadsOK /\ CwdOK /\ LocksOK /\ FilesOK /\ Counted

-----------------------------------------------------------------------------
\* Min of a nonempty set of naturals.
LEMMA Least ==
    ASSUME NEW S, S \subseteq Nat, S # {}
    PROVE  Min(S) \in S
  <1> DEFINE R == OpToRel(<, Nat)
  <1>1. IsWellFoundedOn(R, Nat)  BY NatLessThanWellFounded
  <1>2. \A x, y \in Nat : y < x => <<y, x>> \in R  BY DEF OpToRel
  <1> HIDE DEF R
  <1>3. PICK x \in S : \A y \in S : ~ (<<y, x>> \in R)  BY <1>1, WFMin
  <1>4. \A y \in S : x <= y
    <2> TAKE y \in S
    <2>1. x \in Nat /\ y \in Nat /\ ~(y < x)  BY <1>2, <1>3
    <2> QED  BY <2>1
  <1> QED  BY <1>4 DEF Min

LEMMA SlotIsPointer ==
    /\ Slots \subseteq Pointer /\ Slots \subseteq Nat /\ None \notin Slots /\ None \in Pointer
    /\ \A s \in Pointer : s # None => s \in Slots
  BY FilesConstants DEF Slots, Pointer, None

-----------------------------------------------------------------------------
(* Counting pointers *)
In(x, S) == IF x \in S THEN 1 ELSE 0
Eq(x, s) == IF x = s THEN 1 ELSE 0
FileWeight(ft, f, s) == IF ft[f].ref > 0 /\ ft[f].ip = s THEN 1 ELSE 0

\* How many of the local variables point to s.
Weight(t, s) == Eq(t.cur, s) + Eq(t.dp, s) + Eq(t.ip, s) + Eq(t.put, s)

\* Pointers(s), of a given file table, current directories and processes.
PointersOf(ft, cw, ts, s) ==
    {<<"file", f>> : f \in {g \in 1 .. NFILE : ft[g].ref > 0 /\ ft[g].ip = s}}
    \cup {<<"cwd", p>> : p \in {q \in Procs : cw[q] = s}}
    \cup {<<"cur", p>> : p \in {q \in Procs : ts[q].cur = s}}
    \cup {<<"dp", p>> : p \in {q \in Procs : ts[q].dp = s}}
    \cup {<<"ip", p>> : p \in {q \in Procs : ts[q].ip = s}}
    \cup {<<"put", p>> : p \in {q \in Procs : ts[q].put = s}}

\* The pointers there can be.
Places == ({"file"} \X (1 .. NFILE)) \cup ({"cwd", "cur", "dp", "ip", "put"} \X Procs)

LEMMA PlacesFinite == IsFiniteSet(Places)
  <1>1. IsFiniteSet(1 .. NFILE)  BY FS_Interval, FilesConstants
  <1>2. IsFiniteSet({"file"})  BY FS_Singleton
  <1>3. IsFiniteSet({"file"} \X (1 .. NFILE))  BY <1>1, <1>2, FS_Product
  <1>4. IsFiniteSet({"cwd", "cur", "dp", "ip", "put"})
    <2>1. IsFiniteSet({"cwd"})  BY FS_Singleton
    <2>2. IsFiniteSet({"cwd"} \cup {"cur"})  BY <2>1, FS_AddElement
    <2>3. IsFiniteSet({"cwd"} \cup {"cur"} \cup {"dp"})  BY <2>2, FS_AddElement
    <2>4. IsFiniteSet({"cwd"} \cup {"cur"} \cup {"dp"} \cup {"ip"})  BY <2>3, FS_AddElement
    <2>5. IsFiniteSet({"cwd"} \cup {"cur"} \cup {"dp"} \cup {"ip"} \cup {"put"})
      BY <2>4, FS_AddElement
    <2>6. {"cwd"} \cup {"cur"} \cup {"dp"} \cup {"ip"} \cup {"put"}
             = {"cwd", "cur", "dp", "ip", "put"}
      OBVIOUS
    <2> QED  BY <2>5, <2>6
  <1>5. IsFiniteSet({"cwd", "cur", "dp", "ip", "put"} \X Procs)
    BY <1>4, FilesProcs, FS_Product
  <1> QED  BY <1>3, <1>5, FS_Union DEF Places

LEMMA InPointers ==
    ASSUME NEW ft, NEW cw, NEW ts, NEW s, NEW y
    PROVE  y \in PointersOf(ft, cw, ts, s) <=>
             \/ \E g \in 1 .. NFILE : y = <<"file", g>> /\ ft[g].ref > 0 /\ ft[g].ip = s
             \/ \E q \in Procs : y = <<"cwd", q>> /\ cw[q] = s
             \/ \E q \in Procs : y = <<"cur", q>> /\ ts[q].cur = s
             \/ \E q \in Procs : y = <<"dp", q>> /\ ts[q].dp = s
             \/ \E q \in Procs : y = <<"ip", q>> /\ ts[q].ip = s
             \/ \E q \in Procs : y = <<"put", q>> /\ ts[q].put = s
  BY DEF PointersOf

LEMMA PointersFinite ==
    ASSUME NEW ft, NEW cw, NEW ts, NEW s
    PROVE  IsFiniteSet(PointersOf(ft, cw, ts, s))
  <1>1. PointersOf(ft, cw, ts, s) \in SUBSET Places  BY DEF PointersOf, Places
  <1> QED  BY <1>1, PlacesFinite, FS_Subset

\* Of the pointers to s, those that file f and process p do not have, and
\* those that they have.
LEMMA RemoveOne ==
    ASSUME NEW S, IsFiniteSet(S), NEW x
    PROVE  /\ IsFiniteSet(S \ {x})
           /\ Cardinality(S) \in Nat /\ Cardinality(S \ {x}) \in Nat
           /\ Cardinality(S) = Cardinality(S \ {x}) + In(x, S)
  <1>1. IsFiniteSet(S \ {x}) /\ Cardinality(S) \in Nat /\ Cardinality(S \ {x}) \in Nat
    BY FS_RemoveElement, FS_CardinalityType
  <1>2. Cardinality(S \ {x}) = IF x \in S THEN Cardinality(S) - 1 ELSE Cardinality(S)
    BY FS_RemoveElement
  <1> QED  BY <1>1, <1>2 DEF In, Eq, FileWeight

Mine(f, p) == {<<"file", f>>, <<"cwd", p>>, <<"cur", p>>, <<"dp", p>>, <<"ip", p>>, <<"put", p>>}
Rest(S, f, p) == S \ Mine(f, p)

LEMMA SplitPointers ==
    ASSUME NEW ft, NEW cw, NEW ts, NEW f \in 1 .. NFILE, NEW p \in Procs, NEW s
    PROVE  LET S == PointersOf(ft, cw, ts, s)
           IN  /\ Cardinality(Rest(S, f, p)) \in Nat
               /\ Cardinality(S) = Cardinality(Rest(S, f, p)) + FileWeight(ft, f, s)
                                     + Eq(cw[p], s) + Weight(ts[p], s)
  <1> DEFINE S0 == PointersOf(ft, cw, ts, s)
             S1 == S0 \ {<<"file", f>>}
             S2 == S1 \ {<<"cwd", p>>}
             S3 == S2 \ {<<"cur", p>>}
             S4 == S3 \ {<<"dp", p>>}
             S5 == S4 \ {<<"ip", p>>}
             S6 == S5 \ {<<"put", p>>}
  <1>1. IsFiniteSet(S0)  BY PointersFinite
  <1>2. /\ <<"file", f>> \in S0 <=> ft[f].ref > 0 /\ ft[f].ip = s
        /\ <<"cwd", p>> \in S1 <=> cw[p] = s
        /\ <<"cur", p>> \in S2 <=> ts[p].cur = s
        /\ <<"dp", p>> \in S3 <=> ts[p].dp = s
        /\ <<"ip", p>> \in S4 <=> ts[p].ip = s
        /\ <<"put", p>> \in S5 <=> ts[p].put = s
    BY DEF PointersOf
  <1> HIDE DEF S0
  <1>3. S6 = Rest(S0, f, p)  BY DEF Rest, Mine
  <1> HIDE DEF S1, S2, S3, S4, S5, S6
  <1>4. /\ IsFiniteSet(S1) /\ Cardinality(S0) \in Nat /\ Cardinality(S1) \in Nat
        /\ Cardinality(S0) = Cardinality(S1) + In(<<"file", f>>, S0)
    BY <1>1, RemoveOne DEF S1
  <1>5. /\ IsFiniteSet(S2) /\ Cardinality(S2) \in Nat
        /\ Cardinality(S1) = Cardinality(S2) + In(<<"cwd", p>>, S1)
    BY <1>4, RemoveOne DEF S2
  <1>6. /\ IsFiniteSet(S3) /\ Cardinality(S3) \in Nat
        /\ Cardinality(S2) = Cardinality(S3) + In(<<"cur", p>>, S2)
    BY <1>5, RemoveOne DEF S3
  <1>7. /\ IsFiniteSet(S4) /\ Cardinality(S4) \in Nat
        /\ Cardinality(S3) = Cardinality(S4) + In(<<"dp", p>>, S3)
    BY <1>6, RemoveOne DEF S4
  <1>8. /\ IsFiniteSet(S5) /\ Cardinality(S5) \in Nat
        /\ Cardinality(S4) = Cardinality(S5) + In(<<"ip", p>>, S4)
    BY <1>7, RemoveOne DEF S5
  <1>9. /\ IsFiniteSet(S6) /\ Cardinality(S6) \in Nat
        /\ Cardinality(S5) = Cardinality(S6) + In(<<"put", p>>, S5)
    BY <1>8, RemoveOne DEF S6
  <1>10. Cardinality(S0) = Cardinality(S6) + FileWeight(ft, f, s) + Eq(cw[p], s)
                             + Weight(ts[p], s)
    BY <1>2, <1>4, <1>5, <1>6, <1>7, <1>8, <1>9 DEF Weight, In, Eq, FileWeight
  <1> QED  BY <1>3, <1>9, <1>10 DEF S0

ChangesAt(ft, cw, ts, ft2, cw2, ts2, f, p) ==
    /\ \A g \in 1 .. NFILE \ {f} : ft2[g] = ft[g]
    /\ \A q \in Procs \ {p} : cw2[q] = cw[q] /\ ts2[q] = ts[q]

\* When only file f and process p change, the number of pointers changes by
\* the number of theirs.
LEMMA CountChange ==
    ASSUME NEW ft, NEW cw, NEW ts, NEW ft2, NEW cw2, NEW ts2,
           NEW f \in 1 .. NFILE, NEW p \in Procs, NEW s,
           ChangesAt(ft, cw, ts, ft2, cw2, ts2, f, p)
    PROVE  /\ Cardinality(PointersOf(ft, cw, ts, s)) \in Nat
           /\ Cardinality(PointersOf(ft2, cw2, ts2, s)) \in Nat
           /\ Cardinality(PointersOf(ft2, cw2, ts2, s)) + FileWeight(ft, f, s)
                + Eq(cw[p], s) + Weight(ts[p], s)
              = Cardinality(PointersOf(ft, cw, ts, s)) + FileWeight(ft2, f, s)
                + Eq(cw2[p], s) + Weight(ts2[p], s)
  <1> DEFINE S == PointersOf(ft, cw, ts, s)
             T == PointersOf(ft2, cw2, ts2, s)
  <1>1. Rest(S, f, p) = Rest(T, f, p)
    <2> SUFFICES ASSUME NEW y
                 PROVE  y \in Rest(S, f, p) <=> y \in Rest(T, f, p)
      OBVIOUS
    <2>1. /\ y \in Rest(S, f, p) <=> y \in S /\ y \notin Mine(f, p)
          /\ y \in Rest(T, f, p) <=> y \in T /\ y \notin Mine(f, p)
      BY DEF Rest
    <2>2. ASSUME y \notin Mine(f, p) PROVE y \in S <=> y \in T
      <3>1. (\E g \in 1 .. NFILE : y = <<"file", g>> /\ ft[g].ref > 0 /\ ft[g].ip = s)
              <=> (\E g \in 1 .. NFILE : y = <<"file", g>> /\ ft2[g].ref > 0 /\ ft2[g].ip = s)
        BY <2>2 DEF Mine, ChangesAt
      <3>2. (\E q \in Procs : y = <<"cwd", q>> /\ cw[q] = s)
              <=> (\E q \in Procs : y = <<"cwd", q>> /\ cw2[q] = s)
        BY <2>2 DEF Mine, ChangesAt
      <3>3. (\E q \in Procs : y = <<"cur", q>> /\ ts[q].cur = s)
              <=> (\E q \in Procs : y = <<"cur", q>> /\ ts2[q].cur = s)
        BY <2>2 DEF Mine, ChangesAt
      <3>4. (\E q \in Procs : y = <<"dp", q>> /\ ts[q].dp = s)
              <=> (\E q \in Procs : y = <<"dp", q>> /\ ts2[q].dp = s)
        BY <2>2 DEF Mine, ChangesAt
      <3>5. (\E q \in Procs : y = <<"ip", q>> /\ ts[q].ip = s)
              <=> (\E q \in Procs : y = <<"ip", q>> /\ ts2[q].ip = s)
        BY <2>2 DEF Mine, ChangesAt
      <3>6. (\E q \in Procs : y = <<"put", q>> /\ ts[q].put = s)
              <=> (\E q \in Procs : y = <<"put", q>> /\ ts2[q].put = s)
        BY <2>2 DEF Mine, ChangesAt
      <3> QED  BY <3>1, <3>2, <3>3, <3>4, <3>5, <3>6, InPointers
    <2> QED  BY <2>1, <2>2
  <1>2. IsFiniteSet(S) /\ IsFiniteSet(T)  BY PointersFinite
  <1>3. Cardinality(S) \in Nat /\ Cardinality(T) \in Nat  BY <1>2, FS_CardinalityType
  <1>4. /\ Cardinality(Rest(S, f, p)) \in Nat
        /\ Cardinality(S) = Cardinality(Rest(S, f, p)) + FileWeight(ft, f, s)
                              + Eq(cw[p], s) + Weight(ts[p], s)
    BY SplitPointers
  <1>5. /\ Cardinality(Rest(T, f, p)) \in Nat
        /\ Cardinality(T) = Cardinality(Rest(T, f, p)) + FileWeight(ft2, f, s)
                              + Eq(cw2[p], s) + Weight(ts2[p], s)
    BY SplitPointers
  <1>7. Weight(ts[p], s) \in Nat /\ Weight(ts2[p], s) \in Nat
    BY DEF Weight, In, Eq, FileWeight
  <1> DEFINE a1 == FileWeight(ft, f, s)
             a2 == FileWeight(ft2, f, s)
             b1 == Eq(cw[p], s)
             b2 == Eq(cw2[p], s)
             w1 == Weight(ts[p], s)
             w2 == Weight(ts2[p], s)
             r == Cardinality(Rest(S, f, p))
             n == Cardinality(S)
             m == Cardinality(T)
  <1>8. a1 \in Nat /\ a2 \in Nat /\ b1 \in Nat /\ b2 \in Nat /\ w1 \in Nat /\ w2 \in Nat
    BY <1>7 DEF In, Eq, FileWeight
  <1>9. r \in Nat /\ n \in Nat /\ m \in Nat /\ n = r + a1 + b1 + w1 /\ m = r + a2 + b2 + w2
    BY <1>1, <1>3, <1>4, <1>5
  <1> HIDE DEF a1, a2, b1, b2, w1, w2, r, n, m
  <1>10. m + a1 + b1 + w1 = n + a2 + b2 + w2  BY <1>8, <1>9
  <1> QED  BY <1>3, <1>10 DEF a1, a2, b1, b2, w1, w2, n, m
-----------------------------------------------------------------------------
(* Subroutines: what they do to the local variables, and that the calls they *)
(* return to have their pointers where those places want them.               *)
LEMMA LockIpIs ==
    ASSUME NEW t, Locals(t), NEW s, NEW l
    PROVE  LET u == LockIp(t, s, l)
           IN  /\ Locals(u)
               /\ u.pc = "ilock" /\ u.lret = l /\ u.lk = s
               /\ u.cur = t.cur /\ u.dp = t.dp /\ u.ip = t.ip /\ u.put = t.put
               /\ u.nret = t.nret
  BY DEF LockIp, Locals, Local

LEMMA PutIpIs ==
    ASSUME NEW t, Locals(t), NEW s, NEW l
    PROVE  LET u == PutIp(t, s, l)
           IN  /\ Locals(u)
               /\ u.pc = "iput" /\ u.pret = l /\ u.put = s
               /\ u.cur = t.cur /\ u.dp = t.dp /\ u.ip = t.ip /\ u.nret = t.nret
  BY DEF PutIp, Locals, Local

LEMMA IdleIs ==
    /\ Locals(Idle) /\ Idle.pc = "idle"
    /\ Idle.cur = None /\ Idle.dp = None /\ Idle.ip = None /\ Idle.put = None
  BY DEF Idle, Locals, Local

\* A call that looks up a path, cur being where it has got to.
Finding(t) == /\ Locals(t)
              /\ t.cur \in Pointer /\ t.dp = None /\ t.ip \in Pointer /\ t.put = None
              /\ t.nret \in Lookups
              /\ t.ip # None <=> t.nret = "link4"

\* Where u is good, with the pointers of t, no locks and a directory.
Goes(t, u) == /\ Good(u) /\ ~Stopped(u) /\ Label(u) # "chdir3"
              /\ \A s \in Slots : Weight(u, s) = Weight(t, s)

LEMMA NamexedGoes ==
    ASSUME NEW t, Finding(t)
    PROVE  Goes(t, Namexed(t))
  <1> DEFINE dp == [t EXCEPT !.dp = t.cur, !.cur = None]
             ip == [t EXCEPT !.ip = t.cur, !.cur = None]
             u == Namexed(t)
  <1>1. /\ Locals(dp) /\ dp.cur = None /\ dp.dp = t.cur /\ dp.ip = t.ip /\ dp.put = t.put
        /\ dp.nret = t.nret
    BY DEF Locals, Local, Finding
  <1>2. /\ Locals(ip) /\ ip.cur = None /\ ip.dp = t.dp /\ ip.ip = t.cur /\ ip.put = t.put
        /\ ip.nret = t.nret
    BY DEF Locals, Local, Finding
  <1> HIDE DEF dp, ip
  <1>3. Locals(t)  BY DEF Finding
  <1>4. CASE t.cur = None /\ t.nret = "link4"
    <2>1. u = LockIp(t, t.ip, "bad")  BY <1>4 DEF Namexed
    <2> HIDE DEF u
    <2>2. /\ Locals(u) /\ u.pc = "ilock" /\ u.lret = "bad" /\ u.lk = t.ip
          /\ u.cur = t.cur /\ u.dp = t.dp /\ u.ip = t.ip /\ u.put = t.put
      BY <1>3, <2>1, LockIpIs
    <2>3. Good(u)
      BY <1>4, <2>2
      DEF Finding, Good, Fits, Label, Finds, DpOnly, IpOnly, DpAndIp, LockRets, Putting
    <2> QED  BY <1>4, <2>2, <2>3 DEF Goes, Weight, u, Stopped, Label
  <1>5. CASE t.cur = None /\ t.nret # "link4"
    <2>1. u = Idle  BY <1>5 DEF Namexed
    <2> HIDE DEF u
    <2>2. t.cur = None /\ t.dp = None /\ t.ip = None /\ t.put = None  BY <1>5 DEF Finding
    <2>3. Good(u)
      BY <2>1, IdleIs, SlotIsPointer
      DEF Good, Fits, Label, Finds, DpOnly, IpOnly, DpAndIp, LockRets, Putting
    <2> QED
      BY <2>1, <2>2, <2>3, IdleIs, SlotIsPointer DEF Goes, Weight, u, Stopped, Label, Putting
  <1>6. CASE t.cur # None /\ t.nret \in {"create2", "unlink2", "link4"}
    <2>1. u = LockIp(dp, t.cur, t.nret)  BY <1>6 DEF Namexed, dp
    <2> HIDE DEF u
    <2>2. /\ Locals(u) /\ u.pc = "ilock" /\ u.lret = t.nret /\ u.lk = t.cur
          /\ u.cur = None /\ u.dp = t.cur /\ u.ip = t.ip /\ u.put = t.put
      BY <1>1, <2>1, LockIpIs
    <2>3. Good(u)
      BY <1>6, <2>2, SlotIsPointer
      DEF Finding, Good, Fits, Label, Finds, DpOnly, IpOnly, DpAndIp, LockRets, Putting
    <2>4. \A s \in Slots : Weight(u, s) = Weight(t, s)
      BY <2>2, SlotIsPointer DEF Weight, Finding, In, Eq, FileWeight
    <2> QED  BY <1>6, <2>2, <2>3, <2>4 DEF Goes, u, Stopped, Label
  <1>7. CASE t.cur # None /\ t.nret \notin {"create2", "unlink2", "link4"}
    <2>1. u = LockIp(ip, t.cur, t.nret)  BY <1>7 DEF Namexed, ip
    <2> HIDE DEF u
    <2>2. /\ Locals(u) /\ u.pc = "ilock" /\ u.lret = t.nret /\ u.lk = t.cur
          /\ u.cur = None /\ u.dp = t.dp /\ u.ip = t.cur /\ u.put = t.put
      BY <1>2, <2>1, LockIpIs
    <2>3. t.nret \in {"open1", "link2", "chdir2"}  BY <1>7 DEF Finding, Lookups
    <2>4. Good(u)
      BY <1>7, <2>2, <2>3, SlotIsPointer
      DEF Finding, Good, Fits, Label, Finds, DpOnly, IpOnly, DpAndIp, LockRets, Putting
    <2>5. \A s \in Slots : Weight(u, s) = Weight(t, s)
      BY <1>7, <2>2, SlotIsPointer DEF Weight, Finding, In, Eq, FileWeight
    <2> QED  BY <1>7, <2>2, <2>3, <2>4, <2>5 DEF Goes, u, Stopped, Label
  <1> QED  BY <1>4, <1>5, <1>6, <1>7

LEMMA NextElemGoes ==
    ASSUME NEW t, Finding(t), t.cur # None
    PROVE  Goes(t, NextElem(t))
  <1> DEFINE u == NextElem(t)
             v == [t EXCEPT !.cur = None]
  <1>1. Locals(t)  BY DEF Finding
  <1>2. CASE t.elems # <<>>
    <2>1. u = LockIp(t, t.cur, "look")  BY <1>2 DEF NextElem
    <2> HIDE DEF u
    <2>2. /\ Locals(u) /\ u.pc = "ilock" /\ u.lret = "look" /\ u.lk = t.cur
          /\ u.cur = t.cur /\ u.dp = t.dp /\ u.ip = t.ip /\ u.put = t.put /\ u.nret = t.nret
      BY <1>1, <2>1, LockIpIs
    <2>3. Good(u)
      BY <2>2, SlotIsPointer
      DEF Finding, Good, Fits, Label, Finds, DpOnly, IpOnly, DpAndIp, LockRets, Putting
    <2> QED  BY <2>2, <2>3 DEF Goes, Weight, u, Stopped, Label
  <1>3. CASE t.elems = <<>> /\ t.parent
    <2>1. u = PutIp(v, t.cur, "namexed")  BY <1>3 DEF NextElem
    <2>2. Locals(v) /\ v.cur = None /\ v.dp = t.dp /\ v.ip = t.ip /\ v.nret = t.nret
      BY <1>1 DEF Locals, Local
    <2> HIDE DEF u, v
    <2>3. /\ Locals(u) /\ u.pc = "iput" /\ u.pret = "namexed" /\ u.put = t.cur
          /\ u.cur = None /\ u.dp = t.dp /\ u.ip = t.ip /\ u.nret = t.nret
      BY <2>1, <2>2, PutIpIs
    <2>4. Good(u)
      BY <2>3, SlotIsPointer
      DEF Finding, Good, Fits, Label, Finds, DpOnly, IpOnly, DpAndIp, PutRets, Putting
    <2>5. \A s \in Slots : Weight(u, s) = Weight(t, s)
      BY <2>3, SlotIsPointer DEF Weight, Finding, In, Eq, FileWeight
    <2> QED  BY <2>3, <2>4, <2>5 DEF Goes, u, Stopped, Label, Putting
  <1>4. CASE t.elems = <<>> /\ ~t.parent
    BY <1>4, NamexedGoes DEF NextElem
  <1> QED  BY <1>2, <1>3, <1>4

\* iput returns: t is the process before, s what it put.
LEMMA ResumeGoes ==
    ASSUME NEW t, Good(t), ~Stopped(t), t.pc \in Putting
    PROVE  LET u == Resume([t EXCEPT !.put = None], t.pret)
           IN  /\ Good(u) /\ ~Stopped(u)
               /\ Label(u) = "chdir3" <=> Label(t) = "chdir3"
               /\ \A s \in Slots : /\ Weight(t, s) = Weight(u, s) + Eq(t.put, s)
                                   /\ Holding(t, s) => Holding(u, s)
  <1> DEFINE v == [t EXCEPT !.put = None]
             u == Resume(v, t.pret)
  <1>1. Locals(t)  BY DEF Good
  <1>2. /\ Locals(v) /\ v.cur = t.cur /\ v.dp = t.dp /\ v.ip = t.ip /\ v.put = None
        /\ v.nret = t.nret
    BY <1>1 DEF Locals, Local
  <1> HIDE DEF v
  <1>3. Fits(t)  BY DEF Good
  <1>4. Label(t) = t.pret /\ t.pret \in PutRets  BY <1>3 DEF Label, Fits, Putting
  <1>5. \A s \in Slots : Weight(t, s) = Weight(v, s) + Eq(t.put, s)
    BY <1>2, SlotIsPointer DEF Weight, In, Eq, FileWeight
  <1>6. CASE t.pret = "done"
    <2>1. u = Idle  BY <1>6 DEF Resume
    <2> HIDE DEF u
    <2>2. t.cur = None /\ t.dp = None /\ t.ip = None
      BY <1>3, <1>4, <1>6 DEF Fits, Finds, DpOnly, IpOnly, DpAndIp
    <2>3. Good(u) /\ ~Stopped(u) /\ Label(u) = "idle"
      BY <2>1, IdleIs, SlotIsPointer
      DEF Good, Fits, Label, Finds, DpOnly, IpOnly, DpAndIp, LockRets, Putting, Stopped
    <2>4. \A s \in Slots : ~Holding(t, s)
      BY <1>6 DEF Holding, DpHeld, IpHeld, Putting
    <2>5. \A s \in Slots : Weight(t, s) = Weight(u, s) + Eq(t.put, s)
      BY <2>1, <2>2, IdleIs, SlotIsPointer DEF Weight, In, Eq, FileWeight
    <2> QED  BY <1>4, <1>6, <2>3, <2>4, <2>5 DEF u, v
  <1>7. CASE t.pret = "next"
    <2>1. u = NextElem(v)  BY <1>7 DEF Resume
    <2>2. Finding(v) /\ v.cur # None
      BY <1>2, <1>3, <1>4, <1>7, SlotIsPointer
      DEF Good, Fits, Finds, DpOnly, IpOnly, DpAndIp, Finding
    <2> HIDE DEF u
    <2>3. Goes(v, u)  BY <2>1, <2>2, NextElemGoes
    <2>4. \A s \in Slots : ~Holding(t, s)
      BY <1>7 DEF Holding, DpHeld, IpHeld, Putting
    <2> QED  BY <1>4, <1>5, <1>7, <2>3, <2>4 DEF u, v, Goes
  <1>8. CASE t.pret = "namexed"
    <2>1. u = Namexed(v)  BY <1>8 DEF Resume
    <2>2. Finding(v)
      BY <1>2, <1>3, <1>4, <1>8, SlotIsPointer
      DEF Good, Fits, Finds, DpOnly, IpOnly, DpAndIp, Finding
    <2> HIDE DEF u
    <2>3. Goes(v, u)  BY <2>1, <2>2, NamexedGoes
    <2>4. \A s \in Slots : ~Holding(t, s)
      BY <1>8 DEF Holding, DpHeld, IpHeld, Putting
    <2> QED  BY <1>4, <1>5, <1>8, <2>3, <2>4 DEF u, v, Goes
  <1>9. CASE t.pret \in {"create4", "bad"}
    <2>1. u = LockIp(v, v.ip, t.pret)  BY <1>9 DEF Resume
    <2> HIDE DEF u
    <2>2. /\ Locals(u) /\ u.pc = "ilock" /\ u.lret = t.pret /\ u.lk = t.ip
          /\ u.cur = t.cur /\ u.dp = t.dp /\ u.ip = t.ip /\ u.put = None /\ u.nret = t.nret
      BY <1>2, <2>1, LockIpIs
    <2>3. Good(u)
      BY <1>3, <1>4, <1>9, <2>2, SlotIsPointer
      DEF Good, Fits, Label, Finds, DpOnly, IpOnly, DpAndIp, LockRets, Putting
    <2>4. \A s \in Slots : ~Holding(t, s)
      BY <1>9 DEF Holding, DpHeld, IpHeld, Putting
    <2>5. \A s \in Slots : Weight(v, s) = Weight(u, s)  BY <1>2, <2>2 DEF Weight
    <2>6. ~Stopped(u) /\ Label(u) # "chdir3" /\ Label(t) # "chdir3"
      BY <1>4, <1>9, <2>2 DEF Stopped, Label
    <2> QED  BY <1>5, <2>3, <2>4, <2>5, <2>6 DEF u, v
  <1>10. CASE t.pret = "linked"
    <2> DEFINE w == [v EXCEPT !.ip = None]
    <2>1. u = PutIp(w, v.ip, "done")  BY <1>10 DEF Resume
    <2>2. Locals(w) /\ w.cur = v.cur /\ w.dp = v.dp /\ w.ip = None
      BY <1>2 DEF Locals, Local
    <2> HIDE DEF u, w
    <2>3. /\ Locals(u) /\ u.pc = "iput" /\ u.pret = "done" /\ u.put = t.ip
          /\ u.cur = t.cur /\ u.dp = t.dp /\ u.ip = None
      BY <1>2, <2>1, <2>2, PutIpIs
    <2>4. Good(u)
      BY <1>3, <1>4, <1>10, <2>3, SlotIsPointer
      DEF Good, Fits, Label, Finds, DpOnly, IpOnly, DpAndIp, PutRets, Putting
    <2>5. \A s \in Slots : ~Holding(t, s)
      BY <1>10 DEF Holding, DpHeld, IpHeld, Putting
    <2>6. \A s \in Slots : Weight(v, s) = Weight(u, s)
      BY <1>2, <2>3, SlotIsPointer DEF Weight, In, Eq, FileWeight
    <2>7. ~Stopped(u) /\ Label(u) # "chdir3" /\ Label(t) # "chdir3"
      BY <1>4, <1>10, <2>3 DEF Stopped, Label, Putting
    <2> QED  BY <1>5, <2>4, <2>5, <2>6, <2>7 DEF u, v
  <1>11. CASE t.pret \in {"open2", "made", "unlink4", "unlink5", "link5", "chdir3"}
    <2>1. u = [v EXCEPT !.pc = t.pret]  BY <1>11 DEF Resume
    <2> HIDE DEF u
    <2>2. /\ Locals(u) /\ u.pc = t.pret
          /\ u.cur = t.cur /\ u.dp = t.dp /\ u.ip = t.ip /\ u.put = None /\ u.nret = t.nret
      BY <1>2, <2>1 DEF Locals, Local
    <2>3. Good(u)
      BY <1>3, <1>4, <1>11, <2>2, SlotIsPointer
      DEF Good, Fits, Label, Finds, DpOnly, IpOnly, DpAndIp, LockRets, Putting
    <2>4. \A s \in Slots : Holding(t, s) => Holding(u, s)
      BY <1>11, <2>2 DEF Holding, DpHeld, IpHeld, Putting, Stopped
    <2>5. \A s \in Slots : Weight(v, s) = Weight(u, s)  BY <1>2, <2>2 DEF Weight
    <2>6. ~Stopped(u) /\ Label(u) = t.pret
      BY <1>11, <2>2 DEF Stopped, Label, Putting
    <2> QED  BY <1>4, <1>5, <2>3, <2>4, <2>5, <2>6 DEF u, v
  <1> QED  BY <1>4, <1>6, <1>7, <1>8, <1>9, <1>10, <1>11 DEF PutRets, v
-----------------------------------------------------------------------------
(* Steps.  What one process's step does to the counts and to the locks.      *)
LEMMA Now ==
    ASSUME FInv, NEW p \in Procs
    PROVE  /\ Good(th[p]) /\ Locals(th[p])
           /\ Stopped(th[p]) \/ Fits(th[p])
           /\ th[p].cur \in Pointer /\ th[p].dp \in Pointer /\ th[p].ip \in Pointer
           /\ th[p].put \in Pointer
           /\ CacheOK(icache) /\ LocksOK /\ CwdOK /\ FilesOK
           /\ p # None
  BY FilesProcs DEF FInv, ThreadsOK, Good, None

LEMMA WeightNat == ASSUME NEW t, NEW s PROVE Weight(t, s) \in Nat
  BY DEF Weight, In, Eq, FileWeight

\* An entry somebody points to is in use.
LEMMA Pointed ==
    ASSUME FInv, NEW p \in Procs, NEW s \in Slots, Weight(th[p], s) > 0 \/ cwd[p] = s
    PROVE  icache[s].ref > 0
  <1> DEFINE S == PointersOf(ftable, cwd, th, s)
             a == FileWeight(ftable, 1, s)
             b == Eq(cwd[p], s)
             w == Weight(th[p], s)
             r == Cardinality(Rest(S, 1, p))
  <1>1. 1 \in 1 .. NFILE  BY FilesConstants
  <1>2. r \in Nat /\ Cardinality(S) = r + a + b + w
    BY <1>1, SplitPointers
  <1>3. a \in Nat /\ b \in Nat /\ w \in Nat /\ (w > 0 \/ b > 0)
    BY WeightNat DEF In, Eq, FileWeight
  <1>4. S = Pointers(s)  BY DEF PointersOf, Pointers
  <1>5. icache[s].ref = Cardinality(Pointers(s))  BY DEF FInv, Counted
  <1> HIDE DEF S, a, b, w, r
  <1> QED  BY <1>2, <1>3, <1>4, <1>5

\* An entry keeps its inode and does not come into use.
LEMMA CacheKept ==
    ASSUME NEW c, CacheOK(c), NEW d, d = [s \in Slots |-> d[s]],
           \A s \in Slots : Entry(d[s]) /\ d[s].inum = c[s].inum /\ (d[s].ref > 0 => c[s].ref > 0)
    PROVE  CacheOK(d)
  BY DEF CacheOK

LEMMA EntryIs ==
    ASSUME NEW e, Entry(e), NEW d, NEW i
    PROVE  /\ d = [e EXCEPT !.ref = e.ref + 1] =>
                Entry(d) /\ d.ref = e.ref + 1 /\ d.inum = e.inum
           /\ d = [e EXCEPT !.inum = i, !.ref = 1, !.valid = FALSE] =>
                Entry(d) /\ d.ref = 1 /\ d.inum = i
  <1>1. ASSUME d = [e EXCEPT !.ref = e.ref + 1]
        PROVE  Entry(d) /\ d.ref = e.ref + 1 /\ d.inum = e.inum
    BY <1>1 DEF Entry, EntryFields
  <1>2. ASSUME d = [e EXCEPT !.inum = i, !.ref = 1, !.valid = FALSE]
        PROVE  Entry(d) /\ d.ref = 1 /\ d.inum = i
    BY <1>2 DEF Entry, EntryFields
  <1> QED  BY <1>1, <1>2

\* iget takes an entry of the inode or a free one.
LEMMA IgetIs ==
    ASSUME CacheOK(icache), NEW i, CanGet(i)
    PROVE  /\ Slot(i) \in Slots
           /\ CacheOK(Iget(i))
           /\ \A s \in Slots : Iget(i)[s].ref = icache[s].ref + Eq(Slot(i), s)
  <1>1. Hits(i) \subseteq Slots /\ Empties \subseteq Slots  BY DEF Hits, Empties
  <1>2. Slots \subseteq Nat  BY SlotIsPointer
  <1>3. Slot(i) \in Slots /\ IF Hits(i) # {} THEN Slot(i) \in Hits(i) ELSE Slot(i) \in Empties
    <2>1. CASE Hits(i) # {}
      <3>1. Min(Hits(i)) \in Hits(i)  BY <1>1, <1>2, <2>1, Least
      <3> QED  BY <1>1, <2>1, <3>1 DEF Slot
    <2>2. CASE Hits(i) = {}
      <3>1. Empties # {}  BY <2>2 DEF CanGet
      <3>2. Min(Empties) \in Empties  BY <1>1, <1>2, <3>1, Least
      <3> QED  BY <1>1, <2>2, <3>2 DEF Slot
    <2> QED  BY <2>1, <2>2
  <1> DEFINE k == Slot(i)
             c == Iget(i)
  <1>4. \A s \in Slots : Entry(icache[s]) /\ icache[s].ref \in Nat  BY DEF CacheOK, Entry
  <1>5. \A s \in Slots \ {k} : c[s] = icache[s]  BY DEF Iget, CacheOK
  <1>6. c = [s \in Slots |-> c[s]]  BY DEF Iget, CacheOK
  <1>7. CASE Hits(i) # {}
    <2> HIDE DEF k
    <2>1. k \in Slots /\ icache[k].ref > 0 /\ icache[k].inum = i  BY <1>3, <1>7 DEF Hits, k
    <2>2. c[k] = [icache[k] EXCEPT !.ref = icache[k].ref + 1]
      BY <1>7, <2>1 DEF Iget, CacheOK, k
    <2> HIDE DEF c
    <2>4. Entry(icache[k])  BY <1>4, <2>1
    <2>5. Entry(c[k]) /\ c[k].ref = icache[k].ref + 1 /\ c[k].inum = i
      BY <2>1, <2>2, <2>4, EntryIs
    <2>6. \A s \in Slots : c[s].ref = icache[s].ref + Eq(k, s)
      BY <1>4, <1>5, <2>5 DEF In, Eq, FileWeight
    <2>7. CacheOK(c)  BY <1>4, <1>5, <1>6, <2>1, <2>5 DEF CacheOK
    <2> QED  BY <1>3, <2>6, <2>7 DEF k, c
  <1>8. CASE Hits(i) = {}
    <2> HIDE DEF k
    <2>1. k \in Slots /\ icache[k].ref = 0  BY <1>3, <1>8 DEF Empties, k
    <2>0. Entry(icache[k])  BY <1>4, <2>1
    <2>2. \A s \in Slots : icache[s].ref > 0 => icache[s].inum # i  BY <1>8 DEF Hits
    <2>3. c[k] = [icache[k] EXCEPT !.inum = i, !.ref = 1, !.valid = FALSE]
      BY <1>8, <2>1 DEF Iget, CacheOK, k
    <2> HIDE DEF c
    <2>4. Entry(c[k]) /\ c[k].ref = 1 /\ c[k].inum = i
      <3> DEFINE e == icache[k]
                 d == c[k]
      <3>1. Entry(e) /\ d = [e EXCEPT !.inum = i, !.ref = 1, !.valid = FALSE]  BY <2>0, <2>3
      <3> HIDE DEF e, d
      <3>2. Entry(d) /\ d.ref = 1 /\ d.inum = i  BY ONLY <3>1 DEF Entry, EntryFields
      <3> QED  BY <3>2 DEF d
    <2>5. \A s \in Slots : c[s].ref = icache[s].ref + Eq(k, s)
      BY <1>4, <1>5, <2>1, <2>4 DEF In, Eq, FileWeight
    <2>6. CacheOK(c)
      <3>1. \A s \in Slots : Entry(c[s])  BY <1>4, <1>5, <2>4
      <3>2. ASSUME NEW s \in Slots, NEW r \in Slots, c[s].ref > 0, c[r].ref > 0,
                   c[s].inum = c[r].inum
            PROVE  s = r
        <4>1. s # k => icache[s].ref > 0 /\ c[s].inum = icache[s].inum  BY <1>5, <3>2
        <4>2. r # k => icache[r].ref > 0 /\ c[r].inum = icache[r].inum  BY <1>5, <3>2
        <4>3. s # k /\ r # k => s = r  BY <3>2, <4>1, <4>2 DEF CacheOK
        <4> QED  BY <2>2, <2>4, <3>2, <4>1, <4>2, <4>3
      <3> QED  BY <1>6, <3>1, <3>2 DEF CacheOK
    <2> QED  BY <1>3, <2>5, <2>6 DEF k, c
  <1> QED  BY <1>7, <1>8

\* The locks h, when p's local variables go from t to u.
LocksMove(h, p, t, u) ==
    /\ h = [s \in Slots |-> h[s]]
    /\ \A s \in Slots : \/ h[s] = holder[s] /\ (Holding(t, s) => Holding(u, s))
                        \/ h[s] = None
                        \/ h[s] = p /\ Holding(u, s)

\* The pointers that file f and p have to s before the step, and after it,
\* when p has the local variables u and the current directory d.
Before(f, p, s) == Weight(th[p], s) + Eq(cwd[p], s) + FileWeight(ftable, f, s)
After(f, u, d, s) == Weight(u, s) + Eq(d, s) + FileWeight(ftable', f, s)

\* What a step of p has to show: file f is the only one that changes.
LEMMA AnyStep ==
    ASSUME FInv, NEW p \in Procs, NEW u, th' = [th EXCEPT ![p] = u], Good(u),
           CacheOK(icache'), LocksMove(holder', p, th[p], u), FilesOK',
           NEW f \in 1 .. NFILE, \A g \in 1 .. NFILE \ {f} : ftable'[g] = ftable[g],
           NEW d \in Pointer, cwd' = [cwd EXCEPT ![p] = d], d = None <=> Label(u) = "chdir3",
           \A s \in Slots : icache'[s].ref + Before(f, p, s) = icache[s].ref + After(f, u, d, s)
    PROVE  FInv'
  <1>1. /\ th = [q \in Procs |-> th[q]] /\ \A q \in Procs : Good(th[q])
        /\ cwd \in [Procs -> Pointer]
        /\ \A q \in Procs : cwd[q] = None <=> Label(th[q]) = "chdir3"
        /\ CacheOK(icache) /\ LocksOK /\ Counted
    BY DEF FInv, ThreadsOK, CwdOK
  <1>2. th'[p] = u /\ \A q \in Procs \ {p} : th'[q] = th[q]  BY <1>1
  <1>3. cwd'[p] = d /\ \A q \in Procs \ {p} : cwd'[q] = cwd[q]  BY <1>1
  <1>4. ThreadsOK'
    <2>1. th' = [q \in Procs |-> th'[q]]  BY <1>1
    <2>2. \A q \in Procs : Good(th'[q])  BY <1>1, <1>2
    <2> QED  BY <2>1, <2>2 DEF ThreadsOK
  <1>5. CwdOK'
    <2>1. cwd' \in [Procs -> Pointer]  BY <1>1
    <2>2. ASSUME NEW q \in Procs PROVE cwd'[q] = None <=> Label(th'[q]) = "chdir3"
      <3>1. CASE q = p  BY <1>2, <1>3, <3>1
      <3>2. CASE q # p  BY <1>1, <1>2, <1>3, <3>2
      <3> QED  BY <3>1, <3>2
    <2> QED  BY <2>1, <2>2 DEF CwdOK
  <1>6. LocksOK'
    <2>1. holder' = [s \in Slots |-> holder'[s]]  BY DEF LocksMove
    <2>2. ASSUME NEW s \in Slots, holder'[s] # None
          PROVE  holder'[s] \in Procs /\ Holding(th'[holder'[s]], s)
      <3>1. CASE holder'[s] = p /\ Holding(u, s)  BY <1>2, <3>1
      <3>2. CASE holder'[s] = holder[s] /\ (Holding(th[p], s) => Holding(u, s))
        <4>1. holder[s] \in Procs /\ Holding(th[holder[s]], s)
          BY <1>1, <2>2, <3>2 DEF LocksOK
        <4>2. CASE holder[s] = p  BY <1>2, <3>2, <4>1, <4>2
        <4>3. CASE holder[s] # p  BY <1>2, <3>2, <4>1, <4>3
        <4> QED  BY <4>2, <4>3
      <3> QED  BY <2>2, <3>1, <3>2 DEF LocksMove
    <2> QED  BY <2>1, <2>2 DEF LocksOK
  <1>7. Counted'
    <2> SUFFICES ASSUME NEW s \in Slots PROVE icache'[s].ref = Cardinality(Pointers(s)')
      BY DEF Counted
    <2> DEFINE n == Cardinality(PointersOf(ftable, cwd, th, s))
               m == Cardinality(PointersOf(ftable', cwd', th', s))
               a1 == FileWeight(ftable, f, s)
               a2 == FileWeight(ftable', f, s)
               b1 == Eq(cwd[p], s)
               b2 == Eq(d, s)
               w1 == Weight(th[p], s)
               w2 == Weight(u, s)
    <2>0. ChangesAt(ftable, cwd, th, ftable', cwd', th', f, p)  BY <1>2, <1>3 DEF ChangesAt
    <2>1. /\ n \in Nat /\ m \in Nat
          /\ m + a1 + b1 + w1 = n + FileWeight(ftable', f, s)
               + Eq(cwd'[p], s) + Weight(th'[p], s)
      BY ONLY <2>0, CountChange, f \in 1 .. NFILE, p \in Procs
    <2>2. m + a1 + b1 + w1 = n + a2 + b2 + w2  BY <1>2, <1>3, <2>1
    <2>3. icache[s].ref = n  BY <1>1 DEF Counted, Pointers, PointersOf
    <2>4. Pointers(s)' = PointersOf(ftable', cwd', th', s)  BY DEF Pointers, PointersOf
    <2>5. a1 \in Nat /\ a2 \in Nat /\ b1 \in Nat /\ b2 \in Nat /\ w1 \in Nat /\ w2 \in Nat
      BY WeightNat DEF In, Eq, FileWeight
    <2>6. icache'[s].ref + (w1 + b1 + a1) = icache[s].ref + (w2 + b2 + a2)
      BY DEF Before, After
    <2>7. icache'[s].ref \in Nat  BY DEF CacheOK, Entry
    <2>8. Cardinality(Pointers(s)') = m  BY <2>4
    <2> HIDE DEF n, m, a1, a2, b1, b2, w1, w2
    <2>9. icache'[s].ref = m  BY <2>1, <2>2, <2>3, <2>5, <2>6, <2>7
    <2> QED  BY <2>8, <2>9
  <1> QED  BY <1>4, <1>5, <1>6, <1>7 DEF FInv

\* A step inside a call that leaves files and current directories alone.
LEMMA CallStep ==
    ASSUME FInv, NEW p \in Procs, NEW u, th' = [th EXCEPT ![p] = u], Good(u),
           UNCHANGED <<ftable, ofile, cwd>>,
           CacheOK(icache'), LocksMove(holder', p, th[p], u),
           Label(u) = "chdir3" <=> Label(th[p]) = "chdir3",
           \A s \in Slots : icache'[s].ref + Weight(th[p], s) = icache[s].ref + Weight(u, s)
    PROVE  FInv'
  <1>1. 1 \in 1 .. NFILE  BY FilesConstants
  <1>2. FilesOK'
    BY DEF FInv, FilesOK, Descriptors
  <1>3. \A g \in 1 .. NFILE \ {1} : ftable'[g] = ftable[g]  OBVIOUS
  <1>4. cwd[p] \in Pointer /\ cwd' = [cwd EXCEPT ![p] = cwd[p]]  BY DEF FInv, CwdOK
  <1>5. cwd[p] = None <=> Label(u) = "chdir3"  BY DEF FInv, CwdOK
  <1> DEFINE d == cwd[p]
  <1>6. ASSUME NEW s \in Slots
        PROVE  icache'[s].ref + Before(1, p, s) = icache[s].ref + After(1, u, d, s)
    <2> DEFINE a == FileWeight(ftable, 1, s)
               b == Eq(d, s)
    <2>1. FileWeight(ftable', 1, s) = a /\ a \in Nat /\ b \in Nat  BY DEF Eq, FileWeight
    <2>2. icache'[s].ref \in Nat /\ icache[s].ref \in Nat  BY DEF CacheOK, Entry, FInv
    <2>3. Weight(th[p], s) \in Nat /\ Weight(u, s) \in Nat  BY WeightNat
    <2>4. icache'[s].ref + Weight(th[p], s) = icache[s].ref + Weight(u, s)  OBVIOUS
    <2>5. /\ Before(1, p, s) = Weight(th[p], s) + b + a
          /\ After(1, u, d, s) = Weight(u, s) + b + a
      BY <2>1 DEF Before, After
    <2> HIDE DEF a, b
    <2> QED  BY <2>1, <2>2, <2>3, <2>4, <2>5
  <1>7. d \in Pointer /\ cwd' = [cwd EXCEPT ![p] = d] /\ (d = None <=> Label(u) = "chdir3")
    BY <1>4, <1>5
  <1> HIDE DEF d
  <1>8. /\ FInv /\ p \in Procs /\ th' = [th EXCEPT ![p] = u] /\ Good(u)
        /\ CacheOK(icache') /\ LocksMove(holder', p, th[p], u)
    OBVIOUS
  <1> QED  BY ONLY <1>1, <1>2, <1>3, <1>6, <1>7, <1>8, AnyStep

\* One that leaves the cache alone too, or only touches links and types.
LEMMA QuietStep ==
    ASSUME FInv, NEW p \in Procs, NEW u, th' = [th EXCEPT ![p] = u], Good(u),
           UNCHANGED <<ftable, ofile, cwd>>,
           icache' = [s \in Slots |-> icache'[s]],
           \A s \in Slots : /\ Entry(icache'[s])
                            /\ icache'[s].inum = icache[s].inum
                            /\ icache'[s].ref = icache[s].ref,
           LocksMove(holder', p, th[p], u),
           Label(u) = "chdir3" <=> Label(th[p]) = "chdir3",
           \A s \in Slots : Weight(th[p], s) = Weight(u, s)
    PROVE  FInv'
  <1>1. CacheOK(icache)  BY DEF FInv
  <1>2. CacheOK(icache')  BY <1>1, CacheKept
  <1> QED  BY <1>2, CallStep
-----------------------------------------------------------------------------
(* Facts that the lemmas of the actions share.                             *)

\* A process that is in no subroutine.
LEMMA PlainIs ==
    ASSUME NEW t, Good(t), Fits(t), t.pc \notin Putting, t.pc # "ilock"
    PROVE  /\ Label(t) = t.pc /\ t.put = None
           /\ t.pc \in {"look", "next"} => t.cur \in Slots
           /\ t.pc \notin {"look", "next"} => t.cur = None
           /\ t.pc \in DpOnly \cup DpAndIp => t.dp \in Slots
           /\ t.pc \notin DpOnly \cup DpAndIp => t.dp = None
           /\ t.pc \in IpOnly \cup DpAndIp => t.ip \in Slots
           /\ t.pc \in Finds \cup DpOnly \cup IpOnly \cup DpAndIp \cup {"idle", "done"}
           /\ t.pc \in DpOnly \cup {"idle", "done"} => t.ip = None
           /\ t.pc \in Finds => /\ t.nret \in Lookups
                                /\ t.ip # None <=> t.nret = "link4"
  BY SlotIsPointer DEF Good, Fits, Label, Finds, DpOnly, IpOnly, DpAndIp, Putting

\* panic.
LEMMA StopIs ==
    ASSUME NEW t, Good(t), NEW l \in {"panic", "full"}
    PROVE  LET u == [t EXCEPT !.pc = l]
           IN  /\ Good(u) /\ Label(u) # "chdir3"
               /\ \A s \in Slots : Weight(u, s) = Weight(t, s) /\ Holding(u, s)
  <1> DEFINE u == [t EXCEPT !.pc = l]
  <1>1. /\ Locals(u) /\ u.pc = l
        /\ u.cur = t.cur /\ u.dp = t.dp /\ u.ip = t.ip /\ u.put = t.put
    BY DEF Good, Locals, Local
  <1> HIDE DEF u
  <1>2. Stopped(u) /\ Label(u) # "chdir3"  BY <1>1 DEF Stopped, Label, Putting
  <1>3. Good(u)  BY <1>1, <1>2 DEF Good
  <1>4. \A s \in Slots : Weight(u, s) = Weight(t, s)  BY <1>1 DEF Weight
  <1>5. \A s \in Slots : Holding(u, s)  BY <1>2 DEF Holding
  <1> QED  BY <1>2, <1>3, <1>4, <1>5 DEF u

\* A call of iput for a pointer that is cleared.
DropCur(t, l) == PutIp([t EXCEPT !.cur = None], t.cur, l)
DropDp(t, l) == PutIp([t EXCEPT !.dp = None], t.dp, l)
DropIp(t, l) == PutIp([t EXCEPT !.ip = None], t.ip, l)

LEMMA DropCurIs ==
    ASSUME NEW t, Locals(t), t.put = None, NEW l
    PROVE  LET u == DropCur(t, l)
           IN  /\ Locals(u) /\ u.pc = "iput" /\ u.pret = l
               /\ u.put = t.cur /\ u.cur = None /\ u.dp = t.dp /\ u.ip = t.ip /\ u.nret = t.nret
               /\ \A s \in Slots : Weight(t, s) = Weight(u, s)
  <1> DEFINE v == [t EXCEPT !.cur = None]
             u == PutIp(v, t.cur, l)
  <1>1. Locals(v) /\ v.cur = None /\ v.dp = t.dp /\ v.ip = t.ip /\ v.nret = t.nret
    BY DEF Locals, Local
  <1> HIDE DEF v
  <1>2. /\ Locals(u) /\ u.pc = "iput" /\ u.pret = l /\ u.put = t.cur
        /\ u.cur = None /\ u.dp = t.dp /\ u.ip = t.ip /\ u.nret = t.nret
    BY <1>1, PutIpIs
  <1>3. u = DropCur(t, l)  BY DEF DropCur, v
  <1> HIDE DEF u
  <1>4. \A s \in Slots : Weight(t, s) = Weight(u, s)
    BY <1>2, SlotIsPointer DEF Weight, Eq
  <1> QED  BY <1>2, <1>3, <1>4

LEMMA DropDpIs ==
    ASSUME NEW t, Locals(t), t.put = None, NEW l
    PROVE  LET u == DropDp(t, l)
           IN  /\ Locals(u) /\ u.pc = "iput" /\ u.pret = l
               /\ u.put = t.dp /\ u.cur = t.cur /\ u.dp = None /\ u.ip = t.ip /\ u.nret = t.nret
               /\ \A s \in Slots : Weight(t, s) = Weight(u, s)
  <1> DEFINE v == [t EXCEPT !.dp = None]
             u == PutIp(v, t.dp, l)
  <1>1. Locals(v) /\ v.cur = t.cur /\ v.dp = None /\ v.ip = t.ip /\ v.nret = t.nret
    BY DEF Locals, Local
  <1> HIDE DEF v
  <1>2. /\ Locals(u) /\ u.pc = "iput" /\ u.pret = l /\ u.put = t.dp
        /\ u.cur = t.cur /\ u.dp = None /\ u.ip = t.ip /\ u.nret = t.nret
    BY <1>1, PutIpIs
  <1>3. u = DropDp(t, l)  BY DEF DropDp, v
  <1> HIDE DEF u
  <1>4. \A s \in Slots : Weight(t, s) = Weight(u, s)
    BY <1>2, SlotIsPointer DEF Weight, Eq
  <1> QED  BY <1>2, <1>3, <1>4

LEMMA DropIpIs ==
    ASSUME NEW t, Locals(t), t.put = None, NEW l
    PROVE  LET u == DropIp(t, l)
           IN  /\ Locals(u) /\ u.pc = "iput" /\ u.pret = l
               /\ u.put = t.ip /\ u.cur = t.cur /\ u.dp = t.dp /\ u.ip = None /\ u.nret = t.nret
               /\ \A s \in Slots : Weight(t, s) = Weight(u, s)
  <1> DEFINE v == [t EXCEPT !.ip = None]
             u == PutIp(v, t.ip, l)
  <1>1. Locals(v) /\ v.cur = t.cur /\ v.dp = t.dp /\ v.ip = None /\ v.nret = t.nret
    BY DEF Locals, Local
  <1> HIDE DEF v
  <1>2. /\ Locals(u) /\ u.pc = "iput" /\ u.pret = l /\ u.put = t.ip
        /\ u.cur = t.cur /\ u.dp = t.dp /\ u.ip = None /\ u.nret = t.nret
    BY <1>1, PutIpIs
  <1>3. u = DropIp(t, l)  BY DEF DropIp, v
  <1> HIDE DEF u
  <1>4. \A s \in Slots : Weight(t, s) = Weight(u, s)
    BY <1>2, SlotIsPointer DEF Weight, Eq
  <1> QED  BY <1>2, <1>3, <1>4

\* The locks are as they were, or one is released.
LEMMA KeepMove ==
    ASSUME FInv, NEW p \in Procs, NEW u,
           \A s \in Slots : Holding(th[p], s) => Holding(u, s)
    PROVE  LocksMove(holder, p, th[p], u)
  BY DEF FInv, LocksOK, LocksMove

LEMMA UnlockMove ==
    ASSUME FInv, NEW p \in Procs, NEW u, NEW x,
           \A s \in Slots : s # x /\ Holding(th[p], s) => Holding(u, s)
    PROVE  LocksMove(Unlocked(x), p, th[p], u)
  <1>1. holder = [s \in Slots |-> holder[s]]  BY DEF FInv, LocksOK
  <1>2. Unlocked(x) = [s \in Slots |-> IF s = x THEN None ELSE holder[s]]
    BY <1>1 DEF Unlocked
  <1> QED  BY <1>2 DEF LocksMove

\* An entry is changed, but neither its inode nor its count.
Touched(c, d) ==
    /\ d = [s \in Slots |-> d[s]]
    /\ \A s \in Slots : Entry(d[s]) /\ d[s].inum = c[s].inum /\ d[s].ref = c[s].ref

LEMMA NotTouched == ASSUME FInv PROVE Touched(icache, icache)
  BY DEF FInv, CacheOK, Touched

LEMMA NlinkTouched ==
    ASSUME FInv, NEW x, NEW n
    PROVE  Touched(icache, [icache EXCEPT ![x].nlink = n])
  BY DEF FInv, CacheOK, Touched, Entry, EntryFields

LEMMA NlinksTouched ==
    ASSUME FInv, NEW x, NEW y, NEW m, NEW n,
           NEW c, c = [icache EXCEPT ![x].nlink = m, ![y].nlink = n]
    PROVE  Touched(icache, c)
  <1> DEFINE b == [icache EXCEPT ![x].nlink = m]
  <1>1. b = [s \in Slots |-> b[s]] /\ \A s \in Slots : Entry(b[s])
    BY NlinkTouched DEF Touched
  <1>2. \A s \in Slots : b[s].inum = icache[s].inum /\ b[s].ref = icache[s].ref
    BY NlinkTouched DEF Touched
  <1>3. c = [b EXCEPT ![y].nlink = n]  OBVIOUS
  <1> HIDE DEF b
  <1>4. c = [s \in Slots |-> c[s]] /\ \A s \in Slots \ {y} : c[s] = b[s]
    BY <1>1, <1>3
  <1>5. ASSUME y \in Slots
        PROVE  Entry(c[y]) /\ c[y].inum = b[y].inum /\ c[y].ref = b[y].ref
    <2>1. c[y] = [b[y] EXCEPT !.nlink = n]  BY <1>1, <1>3, <1>5
    <2>2. Entry(b[y])  BY <1>1, <1>5
    <2> DEFINE e == b[y]
               d == c[y]
    <2>3. Entry(e) /\ d = [e EXCEPT !.nlink = n]  BY <2>1, <2>2
    <2> HIDE DEF e, d
    <2>4. Entry(d) /\ d.inum = e.inum /\ d.ref = e.ref  BY ONLY <2>3 DEF Entry, EntryFields
    <2> QED  BY <2>4 DEF d, e
  <1>6. ASSUME NEW s \in Slots
        PROVE  Entry(c[s]) /\ c[s].inum = icache[s].inum /\ c[s].ref = icache[s].ref
    <2>1. CASE s = y  BY <1>2, <1>5, <2>1
    <2>2. CASE s # y  BY <1>1, <1>2, <1>4, <2>2
    <2> QED  BY <2>1, <2>2
  <1>7. c = [s \in Slots |-> c[s]]  BY <1>4
  <1> QED  BY <1>6, <1>7 DEF Touched

LEMMA TypeTouched ==
    ASSUME FInv, NEW x, NEW n
    PROVE  Touched(icache, [icache EXCEPT ![x].type = n])
  BY DEF FInv, CacheOK, Touched, Entry, EntryFields

LEMMA TouchStep ==
    ASSUME FInv, NEW p \in Procs, NEW u, th' = [th EXCEPT ![p] = u], Good(u),
           UNCHANGED <<ftable, ofile, cwd>>,
           Touched(icache, icache'), LocksMove(holder', p, th[p], u),
           Label(u) = "chdir3" <=> Label(th[p]) = "chdir3",
           \A s \in Slots : Weight(th[p], s) = Weight(u, s)
    PROVE  FInv'
  BY QuietStep DEF Touched

\* A pointer is dropped: the count of its entry goes down.
LEMMA DropTouched ==
    ASSUME FInv, NEW p \in Procs, th[p].put \in Slots, NEW c,
           \/ c = [icache EXCEPT ![th[p].put].ref = @ - 1]
           \/ c = [icache EXCEPT ![th[p].put].valid = FALSE, ![th[p].put].ref = @ - 1]
    PROVE  /\ CacheOK(c)
           /\ \A s \in Slots : icache[s].ref = c[s].ref + Eq(th[p].put, s)
  <1> DEFINE x == th[p].put
  <1>1. icache[x].ref > 0
    <2>1. Weight(th[p], x) > 0  BY ONLY DEF Weight, Eq
    <2>2. FInv /\ p \in Procs /\ x \in Slots  OBVIOUS
    <2> HIDE DEF x
    <2> QED  BY ONLY <2>1, <2>2, Pointed
  <1>2. CacheOK(icache)  BY DEF FInv
  <1>3. x \in Slots  OBVIOUS
  <1>4. Entry(icache[x]) /\ icache[x].ref \in Nat  BY ONLY <1>2, <1>3 DEF CacheOK, Entry
  <1>5. Entry(icache[x]) /\ icache[x].ref \in Nat /\ icache[x].ref - 1 \in Nat
    BY ONLY <1>1, <1>4
  <1>6. icache = [s \in Slots |-> icache[s]]  BY <1>2 DEF CacheOK
  <1>7. c = [s \in Slots |-> c[s]] /\ \A s \in Slots \ {x} : c[s] = icache[s]
    <2>1. CASE c = [icache EXCEPT ![x].ref = @ - 1]  BY ONLY <1>6, <2>1
    <2>2. CASE c = [icache EXCEPT ![x].valid = FALSE, ![x].ref = @ - 1]  BY ONLY <1>6, <2>2
    <2> QED  BY <2>1, <2>2
  <1>8. \/ c[x] = [icache[x] EXCEPT !.ref = icache[x].ref - 1]
        \/ c[x] = [icache[x] EXCEPT !.valid = FALSE, !.ref = icache[x].ref - 1]
    BY <1>2 DEF CacheOK
  <1> DEFINE e == icache[x]
             d == c[x]
  <1>9. /\ Entry(e) /\ e.ref - 1 \in Nat
        /\ d = [e EXCEPT !.ref = e.ref - 1] \/ d = [e EXCEPT !.valid = FALSE, !.ref = e.ref - 1]
    BY <1>5, <1>8
  <1> HIDE DEF x, e, d
  <1>10. Entry(d) /\ d.inum = e.inum /\ d.ref = e.ref - 1
    BY ONLY <1>9 DEF Entry, EntryFields
  <1>11. Entry(c[x]) /\ c[x].inum = icache[x].inum /\ c[x].ref = icache[x].ref - 1
    BY <1>10 DEF e, d
  <1>12. \A s \in Slots : Entry(c[s]) /\ c[s].inum = icache[s].inum
    BY ONLY <1>2, <1>7, <1>11 DEF CacheOK
  <1>13. \A s \in Slots : icache[s].ref \in Nat  BY ONLY <1>2 DEF CacheOK, Entry
  <1>14. \A s \in Slots : icache[s].ref = c[s].ref + Eq(x, s)
    BY ONLY <1>5, <1>7, <1>11, <1>13 DEF Eq
  <1>15. \A s \in Slots : c[s].ref > 0 => icache[s].ref > 0
    BY <1>1, <1>7
  <1>16. CacheOK(c)  BY <1>2, <1>7, <1>12, <1>15, CacheKept
  <1> QED  BY <1>14, <1>16 DEF x
-----------------------------------------------------------------------------
(* One lemma per action.                                                   *)
LEMMA IlockStep ==
    ASSUME FInv, NEW p \in Procs, Ilock(p)
    PROVE  FInv'
  <1> DEFINE t == th[p]
             x == t.lk
  <1>1. t.pc = "ilock" /\ Good(t) /\ Fits(t) /\ Locals(t)
    BY Now DEF Ilock, At, Stopped
  <1>2. /\ t.lret \in LockRets /\ Label(t) = t.lret /\ t.put = None
        /\ x = IF t.lret = "look" THEN t.cur
               ELSE IF t.lret \in {"create2", "unlink2", "link4"} THEN t.dp ELSE t.ip
    BY <1>1 DEF Fits, Label, Putting
  <1>3. x \in Slots
    BY <1>1, <1>2, SlotIsPointer DEF Good, Fits, LockRets, Finds, DpOnly, IpOnly, DpAndIp
  <1>4. Touched(icache, icache')
    <2>1. CASE icache[x].valid  BY <2>1, NotTouched DEF Ilock
    <2>2. CASE ~icache[x].valid
      <3> DEFINE d == dinode[icache[x].inum]
      <3> HIDE DEF d
      <3>1. icache' = [icache EXCEPT ![x] = [icache[x] EXCEPT !.valid = TRUE, !.type = d.type,
                                                             !.nlink = d.nlink]]
        BY <2>2 DEF Ilock, d
      <3> QED  BY <1>3, <3>1 DEF FInv, CacheOK, Touched, Entry, EntryFields
    <2> QED  BY <2>1, <2>2
  <1>5. UNCHANGED <<ftable, ofile, cwd>>  BY DEF Ilock
  <1>6. holder' = [holder EXCEPT ![x] = p]  BY DEF Ilock
  <1>7. holder = [s \in Slots |-> holder[s]]  BY DEF FInv, LocksOK
  <1>8. CASE th' = [th EXCEPT ![p] = [t EXCEPT !.pc = "panic"]]
    <2> DEFINE u == [t EXCEPT !.pc = "panic"]
    <2>1. /\ Good(u) /\ Label(u) # "chdir3"
          /\ \A s \in Slots : Weight(u, s) = Weight(t, s) /\ Holding(u, s)
      BY <1>1, StopIs
    <2>2. LocksMove(holder', p, t, u)  BY <1>6, <1>7, <2>1 DEF LocksMove
    <2>3. Label(t) # "chdir3"  BY <1>2 DEF LockRets
    <2> HIDE DEF u
    <2>4. th' = [th EXCEPT ![p] = u]  BY <1>8 DEF u
    <2>5. \A s \in Slots : Weight(th[p], s) = Weight(u, s)  BY <2>1
    <2> QED  BY <1>4, <1>5, <2>1, <2>2, <2>3, <2>4, <2>5, TouchStep
  <1>9. CASE th' = [th EXCEPT ![p] = [t EXCEPT !.pc = t.lret, !.lk = None]]
    <2> DEFINE u == [t EXCEPT !.pc = t.lret, !.lk = None]
    <2>1. /\ Locals(u) /\ u.pc = t.lret /\ u.cur = t.cur /\ u.dp = t.dp /\ u.ip = t.ip
          /\ u.put = t.put /\ u.nret = t.nret
      BY <1>1 DEF Locals, Local
    <2> HIDE DEF u
    <2>2. Label(u) = Label(t) /\ Label(u) # "chdir3"
      BY <1>2, <2>1 DEF Label, LockRets, Putting
    <2>3. Good(u)
      BY <1>1, <1>2, <2>1
      DEF Good, Fits, Label, Finds, DpOnly, IpOnly, DpAndIp, PutRets, LockRets, Putting, Stopped
    <2>4. \A s \in Slots : Weight(t, s) = Weight(u, s)  BY <2>1 DEF Weight
    <2>5. Holding(u, x)
      BY <1>2, <2>1 DEF LockRets, Holding, DpHeld, IpHeld
    <2>6. \A s \in Slots : Holding(t, s) => Holding(u, s)
      BY <1>1, <2>1 DEF Holding, DpHeld, IpHeld, Putting, Stopped
    <2>7. LocksMove(holder', p, t, u)  BY <1>6, <1>7, <2>5, <2>6 DEF LocksMove
    <2>8. th' = [th EXCEPT ![p] = u]  BY <1>9 DEF u
    <2> QED  BY <1>4, <1>5, <2>2, <2>3, <2>4, <2>7, <2>8, TouchStep
  <1> QED  BY <1>8, <1>9 DEF Ilock, Become, Panic

\* The end of iput, for its last step and for the whole of it.
LEMMA PutStep ==
    ASSUME FInv, NEW p \in Procs, th[p].pc \in {"iput", "iput2"},
           \/ icache' = [icache EXCEPT ![th[p].put].ref = @ - 1]
           \/ icache' = [icache EXCEPT ![th[p].put].valid = FALSE, ![th[p].put].ref = @ - 1],
           th' = [th EXCEPT ![p] = Resume([th[p] EXCEPT !.put = None], th[p].pret)],
           UNCHANGED <<ftable, ofile, cwd, holder>>
    PROVE  FInv'
  <1> DEFINE t == th[p]
             u == Resume([t EXCEPT !.put = None], t.pret)
  <1>1. Good(t) /\ Fits(t) /\ ~Stopped(t) /\ t.pc \in Putting
    BY Now DEF Stopped, Putting
  <1>2. /\ Good(u) /\ (Label(u) = "chdir3" <=> Label(t) = "chdir3")
        /\ \A s \in Slots : /\ Weight(t, s) = Weight(u, s) + Eq(t.put, s)
                            /\ Holding(t, s) => Holding(u, s)
    BY <1>1, ResumeGoes
  <1>3. t.put \in Slots  BY <1>1, SlotIsPointer DEF Good, Fits
  <1>4. /\ CacheOK(icache')
        /\ \A s \in Slots : icache[s].ref = icache'[s].ref + Eq(t.put, s)
    BY <1>3, DropTouched
  <1> HIDE DEF u
  <1>5. LocksMove(holder', p, t, u)  BY <1>2, KeepMove
  <1>6. ASSUME NEW s \in Slots
        PROVE  icache'[s].ref + Weight(t, s) = icache[s].ref + Weight(u, s)
    <2>1. icache'[s].ref \in Nat /\ Weight(u, s) \in Nat /\ Eq(t.put, s) \in Nat
      BY <1>4, WeightNat DEF CacheOK, Entry, Eq
    <2> QED  BY <1>2, <1>4, <2>1
  <1>7. th' = [th EXCEPT ![p] = u]  BY DEF u
  <1> QED  BY <1>2, <1>4, <1>5, <1>6, <1>7, CallStep

LEMMA IputStep ==
    ASSUME FInv, NEW p \in Procs, Iput(p)
    PROVE  FInv'
  <1> DEFINE t == th[p]
             e == icache[t.put]
  <1>1. t.pc = "iput" /\ Good(t) /\ Fits(t) /\ Locals(t)
    BY Now DEF Iput, At, Stopped
  <1>2. CASE e.ref = 1 /\ e.valid /\ e.nlink = 0
    <2> DEFINE u == [t EXCEPT !.pc = "ifree"]
    <2>1. /\ Locals(u) /\ u.pc = "ifree" /\ u.cur = t.cur /\ u.dp = t.dp /\ u.ip = t.ip
          /\ u.put = t.put /\ u.nret = t.nret /\ u.pret = t.pret
      BY <1>1 DEF Locals, Local
    <2>2. th' = [th EXCEPT ![p] = u]  BY <1>2 DEF Iput, Become
    <2> HIDE DEF u
    <2>3. Label(u) = Label(t)  BY <1>1, <2>1 DEF Label, Putting
    <2>4. Good(u)
      BY <1>1, <2>1, <2>3
      DEF Good, Fits, Label, Finds, DpOnly, IpOnly, DpAndIp, PutRets, LockRets, Putting, Stopped
    <2>5. \A s \in Slots : Weight(t, s) = Weight(u, s)  BY <2>1 DEF Weight
    <2>6. \A s \in Slots : Holding(t, s) => Holding(u, s)
      BY <1>1, <2>1 DEF Holding, DpHeld, IpHeld, Putting, Stopped
    <2>7. UNCHANGED <<ftable, ofile, cwd, holder, icache>>  BY <1>2 DEF Iput
    <2>8. LocksMove(holder', p, t, u)  BY <2>6, <2>7, KeepMove
    <2> QED  BY <2>2, <2>3, <2>4, <2>5, <2>7, <2>8, NotTouched, TouchStep
  <1>3. CASE ~(e.ref = 1 /\ e.valid /\ e.nlink = 0)
    <2>1. /\ icache' = [icache EXCEPT ![t.put].ref = @ - 1]
          /\ th' = [th EXCEPT ![p] = Resume([t EXCEPT !.put = None], t.pret)]
          /\ UNCHANGED <<ftable, ofile, cwd, holder>>
      BY <1>3 DEF Iput, Become
    <2> QED  BY <1>1, <2>1, PutStep
  <1> QED  BY <1>2, <1>3

LEMMA IputFreeStep ==
    ASSUME FInv, NEW p \in Procs, IputFree(p)
    PROVE  FInv'
  <1> DEFINE t == th[p]
             u == [t EXCEPT !.pc = "iput2"]
  <1>1. t.pc = "ifree" /\ Good(t) /\ Fits(t) /\ Locals(t)
    BY Now DEF IputFree, At, Stopped
  <1>2. /\ Locals(u) /\ u.pc = "iput2" /\ u.cur = t.cur /\ u.dp = t.dp /\ u.ip = t.ip
        /\ u.put = t.put /\ u.nret = t.nret /\ u.pret = t.pret
    BY <1>1 DEF Locals, Local
  <1>3. th' = [th EXCEPT ![p] = u]  BY DEF IputFree, Become
  <1> HIDE DEF u
  <1>4. Label(u) = Label(t)  BY <1>1, <1>2 DEF Label, Putting
  <1>5. Good(u)
    BY <1>1, <1>2, <1>4
    DEF Good, Fits, Label, Finds, DpOnly, IpOnly, DpAndIp, PutRets, LockRets, Putting, Stopped
  <1>6. \A s \in Slots : Weight(t, s) = Weight(u, s)  BY <1>2 DEF Weight
  <1>7. \A s \in Slots : Holding(t, s) => Holding(u, s)
    BY <1>1, <1>2 DEF Holding, DpHeld, IpHeld, Putting, Stopped
  <1>8. /\ UNCHANGED <<ftable, ofile, cwd, holder>>
        /\ icache' = [icache EXCEPT ![t.put].type = "free"]
    BY DEF IputFree
  <1>9. LocksMove(holder', p, t, u)  BY <1>7, <1>8, KeepMove
  <1>10. Touched(icache, icache')  BY <1>8, TypeTouched
  <1> QED  BY <1>3, <1>4, <1>5, <1>6, <1>8, <1>9, <1>10, TouchStep

LEMMA IputDoneStep ==
    ASSUME FInv, NEW p \in Procs, IputDone(p)
    PROVE  FInv'
  <1>1. /\ th[p].pc = "iput2"
        /\ icache' = [icache EXCEPT ![th[p].put].valid = FALSE, ![th[p].put].ref = @ - 1]
        /\ th' = [th EXCEPT ![p] = Resume([th[p] EXCEPT !.put = None], th[p].pret)]
        /\ UNCHANGED <<ftable, ofile, cwd, holder>>
    BY DEF IputDone, At, Become
  <1> QED  BY <1>1, PutStep

\* namex takes a reference to where it begins; t is what p is doing.
LEMMA NamexFromStep ==
    ASSUME FInv, NEW p \in Procs, NEW t, NamexFrom(p, t), Finding(t), t.cur = None,
           Label(th[p]) # "chdir3", \A s \in Slots : ~Holding(th[p], s),
           \A s \in Slots : Weight(th[p], s) = Weight(t, s)
    PROVE  FInv'
  <1>1. /\ CacheOK(icache) /\ Locals(t)
        /\ UNCHANGED <<ftable, ofile, cwd, holder>>
    BY DEF FInv, NamexFrom, Finding
  <1>2. PICK x \in Slots : /\ CacheOK(icache')
                           /\ \A s \in Slots : icache'[s].ref = icache[s].ref + Eq(x, s)
                           /\ th' = [th EXCEPT ![p] = NextElem([t EXCEPT !.cur = x])]
    <2>1. CASE /\ t.call.abs /\ CanGet(ROOTINO) /\ icache' = Iget(ROOTINO)
               /\ Become(p, NextElem([t EXCEPT !.cur = Slot(ROOTINO)]))
      <3>1. /\ Slot(ROOTINO) \in Slots /\ CacheOK(icache')
            /\ \A s \in Slots : icache'[s].ref = icache[s].ref + Eq(Slot(ROOTINO), s)
        BY <1>1, <2>1, IgetIs
      <3> QED  BY <2>1, <3>1 DEF Become
    <2>2. CASE /\ ~t.call.abs /\ icache' = [icache EXCEPT ![cwd[p]].ref = @ + 1]
               /\ Become(p, NextElem([t EXCEPT !.cur = cwd[p]]))
      <3> DEFINE x == cwd[p]
      <3>1. x \in Slots  BY SlotIsPointer DEF FInv, CwdOK
      <3>2. icache[x].ref > 0  BY <3>1, Pointed
      <3>3. Entry(icache[x]) /\ icache[x].ref \in Nat  BY <1>1, <3>1 DEF CacheOK, Entry
      <3>4. icache' = [icache EXCEPT ![x] = [icache[x] EXCEPT !.ref = icache[x].ref + 1]]
        BY <2>2
      <3> HIDE DEF x
      <3>5. /\ icache' = [s \in Slots |-> icache'[s]]
            /\ \A s \in Slots \ {x} : icache'[s] = icache[s]
            /\ icache'[x] = [icache[x] EXCEPT !.ref = icache[x].ref + 1]
        BY <1>1, <3>1, <3>4 DEF CacheOK
      <3>6. Entry(icache'[x]) /\ icache'[x].ref = icache[x].ref + 1 /\ icache'[x].inum = icache[x].inum
        BY <3>3, <3>5, EntryIs
      <3>7. \A s \in Slots : Entry(icache[s]) /\ icache[s].ref \in Nat
        BY <1>1 DEF CacheOK, Entry
      <3>8. \A s \in Slots : /\ Entry(icache'[s]) /\ icache'[s].inum = icache[s].inum
                             /\ icache'[s].ref > 0 => icache[s].ref > 0
        BY <3>2, <3>5, <3>6, <3>7
      <3>9. CacheOK(icache')  BY <1>1, <3>5, <3>8, CacheKept
      <3>10. \A s \in Slots : icache'[s].ref = icache[s].ref + Eq(x, s)
        <4> TAKE s \in Slots
        <4>1. CASE s = x  BY <3>3, <3>6, <4>1 DEF Eq
        <4>2. CASE s # x  BY <3>5, <3>7, <4>2 DEF Eq
        <4> QED  BY <4>1, <4>2
      <3>11. th' = [th EXCEPT ![p] = NextElem([t EXCEPT !.cur = x])]  BY <2>2 DEF Become, x
      <3> QED  BY <3>1, <3>9, <3>10, <3>11
    <2> QED  BY <2>1, <2>2 DEF NamexFrom
  <1> DEFINE v == [t EXCEPT !.cur = x]
             u == NextElem(v)
  <1>3. /\ Locals(v) /\ v.cur = x /\ v.dp = t.dp /\ v.ip = t.ip /\ v.put = t.put
        /\ v.nret = t.nret
    BY <1>1 DEF Locals, Local
  <1> HIDE DEF v
  <1>4. Finding(v) /\ v.cur # None  BY <1>3, SlotIsPointer DEF Finding
  <1>5. Goes(v, u)  BY <1>4, NextElemGoes
  <1>6. th' = [th EXCEPT ![p] = u]  BY <1>2 DEF v
  <1> HIDE DEF u
  <1>7. LocksMove(holder', p, th[p], u)  BY <1>1, KeepMove
  <1>8. ASSUME NEW s \in Slots
        PROVE  icache'[s].ref + Weight(th[p], s) = icache[s].ref + Weight(u, s)
    <2>1. icache[s].ref \in Nat /\ Weight(t, s) \in Nat /\ Eq(x, s) \in Nat
      BY <1>1, WeightNat DEF CacheOK, Entry, Eq
    <2>2. Weight(v, s) = Weight(t, s) + Eq(x, s)
      BY <1>3, SlotIsPointer DEF Weight, Eq
    <2>3. Weight(u, s) = Weight(v, s) /\ Weight(th[p], s) = Weight(t, s)  BY <1>5 DEF Goes
    <2> QED  BY <1>2, <2>1, <2>2, <2>3
  <1> QED  BY <1>1, <1>2, <1>5, <1>6, <1>7, <1>8, CallStep DEF Goes

LEMMA NamexStep ==
    ASSUME FInv, NEW p \in Procs, Namex(p)
    PROVE  FInv'
  <1> DEFINE t == th[p]
  <1>1. t.pc = "namex" /\ Good(t) /\ Fits(t) /\ Locals(t)
    BY Now DEF Namex, At, Stopped
  <1>2. Finding(t) /\ t.cur = None /\ Label(t) # "chdir3"
    BY <1>1, PlainIs DEF Finding, Good, Finds, DpOnly, DpAndIp, Putting
  <1>3. \A s \in Slots : ~Holding(t, s)  BY <1>1 DEF Holding, DpHeld, IpHeld, Putting, Stopped
  <1>4. NamexFrom(p, t)  BY DEF Namex
  <1> QED  BY <1>2, <1>3, <1>4, NamexFromStep

LEMMA CallStarts ==
    ASSUME FInv, NEW p \in Procs, NEW c, Call(p, c)
    PROVE  FInv'
  <1> DEFINE t == Enter(c)
             i == [Idle EXCEPT !.call = c]
  <1>1. th[p].pc = "idle" /\ Good(th[p]) /\ Fits(th[p])
    BY Now DEF Call, MayCall, At, Stopped
  <1>2. /\ Label(th[p]) = "idle" /\ th[p].cur = None /\ th[p].dp = None /\ th[p].ip = None
        /\ th[p].put = None
    BY <1>1, PlainIs DEF Finds, DpOnly, IpOnly, DpAndIp, Putting
  <1>3. \A s \in Slots : ~Holding(th[p], s)
    BY <1>1 DEF Holding, DpHeld, IpHeld, Putting, Stopped
  <1>4. Locals(i) /\ i.cur = None /\ i.dp = None /\ i.ip = None /\ i.put = None
    BY DEF Idle, Locals, Local
  <1> HIDE DEF i
  <1>5. \/ t = NamexIp(i, c.path, FALSE, "open1") \/ t = NamexIp(i, c.path, TRUE, "unlink2")
        \/ t = NamexIp(i, c.path, FALSE, "link2") \/ t = NamexIp(i, c.path, FALSE, "chdir2")
        \/ t = NamexIp(i, c.path, TRUE, "create2")
    BY DEF Enter, i
  <1> HIDE DEF t
  <1>6. /\ Locals(t) /\ t.nret \in Lookups \ {"link4"}
        /\ t.cur = None /\ t.dp = None /\ t.ip = None /\ t.put = None
    <2>1. CASE t = NamexIp(i, c.path, FALSE, "open1")
      BY <1>4, <2>1 DEF NamexIp, Locals, Local, Lookups
    <2>2. CASE t = NamexIp(i, c.path, TRUE, "unlink2")
      BY <1>4, <2>2 DEF NamexIp, Locals, Local, Lookups
    <2>3. CASE t = NamexIp(i, c.path, FALSE, "link2")
      BY <1>4, <2>3 DEF NamexIp, Locals, Local, Lookups
    <2>4. CASE t = NamexIp(i, c.path, FALSE, "chdir2")
      BY <1>4, <2>4 DEF NamexIp, Locals, Local, Lookups
    <2>5. CASE t = NamexIp(i, c.path, TRUE, "create2")
      BY <1>4, <2>5 DEF NamexIp, Locals, Local, Lookups
    <2> QED  BY <1>5, <2>1, <2>2, <2>3, <2>4, <2>5
  <1>7. Finding(t)  BY <1>6, SlotIsPointer DEF Finding
  <1>8. \A s \in Slots : Weight(th[p], s) = Weight(t, s)  BY <1>2, <1>6 DEF Weight
  <1>9. NamexFrom(p, t)  BY DEF Call, t
  <1>10. Label(th[p]) # "chdir3"  BY <1>2
  <1> QED  BY <1>3, <1>6, <1>7, <1>8, <1>9, <1>10, NamexFromStep
-----------------------------------------------------------------------------
(* Steps that release the lock of a pointer and put it.                    *)
LEMMA DropDpStep ==
    ASSUME FInv, NEW p \in Procs, NEW l,
           \/ th[p].pc \in {"unlink2", "unlink5"} /\ l = "done"
           \/ th[p].pc = "create6" /\ l \in {"open2", "made"}
           \/ th[p].pc = "unlink3" /\ l = "unlink4"
           \/ th[p].pc = "link4" /\ l = "linked"
           \/ th[p].pc = "link5" /\ l = "bad",
           th' = [th EXCEPT ![p] = PutIp([th[p] EXCEPT !.dp = None], th[p].dp, l)],
           holder' = Unlocked(th[p].dp), Touched(icache, icache'),
           UNCHANGED <<ftable, ofile, cwd>>
    PROVE  FInv'
  <1> DEFINE t == th[p]
             u == DropDp(t, l)
  <1>1. /\ Good(t) /\ Fits(t) /\ Locals(t)
        /\ t.pc \in {"create6", "unlink2", "unlink3", "unlink5", "link4", "link5"}
    BY Now DEF Stopped
  <1>2. /\ Label(t) = t.pc /\ t.put = None /\ t.cur = None /\ t.dp \in Slots
        /\ t.pc \in DpAndIp => t.ip \in Slots
        /\ t.pc \notin DpAndIp => t.ip = None
    BY <1>1, PlainIs DEF Putting, DpOnly, DpAndIp
  <1>3. /\ Locals(u) /\ u.pc = "iput" /\ u.pret = l
        /\ u.put = t.dp /\ u.cur = t.cur /\ u.dp = None /\ u.ip = t.ip
        /\ \A s \in Slots : Weight(t, s) = Weight(u, s)
    BY <1>1, <1>2, DropDpIs
  <1>4. th' = [th EXCEPT ![p] = u]  BY DEF DropDp
  <1> HIDE DEF u
  <1>5. Label(u) = l /\ l # "chdir3"  BY <1>3 DEF Label, Putting
  <1>6. Good(u)
    <2>1. CASE l = "done"
      BY <1>1, <1>2, <1>3, <1>5, <2>1, SlotIsPointer
      DEF Good, Fits, Label, Finds, DpOnly, IpOnly, DpAndIp, PutRets, LockRets, Putting,
          Stopped
    <2>2. CASE l # "done"
      <3>1. t.pc \in DpAndIp /\ l \in {"open2", "made", "unlink4", "linked", "bad"}
        BY <2>2 DEF DpAndIp
      <3> QED
        BY <1>1, <1>2, <1>3, <1>5, <3>1, SlotIsPointer
        DEF Good, Fits, Label, Finds, DpOnly, IpOnly, DpAndIp, PutRets, LockRets, Putting,
            Stopped
    <2> QED  BY <2>1, <2>2
  <1>7. ASSUME NEW s \in Slots, s # t.dp, Holding(t, s) PROVE Holding(u, s)
    <2>1. t.ip = s /\ t.pc \in {"create6", "unlink3"}
      BY <1>1, <1>7 DEF Holding, DpHeld, IpHeld, Putting, Stopped
    <2> QED  BY <1>3, <2>1 DEF Holding, DpHeld, IpHeld, Putting, Stopped
  <1>8. LocksMove(holder', p, t, u)  BY <1>7, UnlockMove
  <1>9. Label(t) # "chdir3"  BY <1>1, <1>2
  <1> QED  BY <1>3, <1>4, <1>5, <1>6, <1>8, <1>9, TouchStep

LEMMA DropIpStep ==
    ASSUME FInv, NEW p \in Procs, NEW l,
           \/ /\ th[p].pc \in {"create4", "open1", "open2", "made", "unlink4", "link2", "chdir2",
                               "bad"}
              /\ l = "done"
           \/ th[p].pc = "unlink3" /\ l = "unlink5",
           th' = [th EXCEPT ![p] = PutIp([th[p] EXCEPT !.ip = None], th[p].ip, l)],
           holder' = Unlocked(th[p].ip), Touched(icache, icache'),
           UNCHANGED <<ftable, ofile, cwd>>
    PROVE  FInv'
  <1> DEFINE t == th[p]
             u == DropIp(t, l)
  <1>1. /\ Good(t) /\ Fits(t) /\ Locals(t)
        /\ t.pc \in {"create4", "open1", "open2", "made", "unlink4", "link2", "chdir2", "bad",
                     "unlink3"}
    BY Now DEF Stopped
  <1>2. /\ Label(t) = t.pc /\ t.put = None /\ t.cur = None /\ t.ip \in Slots
        /\ t.pc = "unlink3" => t.dp \in Slots
        /\ t.pc # "unlink3" => t.dp = None
    BY <1>1, PlainIs DEF Putting, DpOnly, IpOnly, DpAndIp
  <1>3. /\ Locals(u) /\ u.pc = "iput" /\ u.pret = l
        /\ u.put = t.ip /\ u.cur = t.cur /\ u.dp = t.dp /\ u.ip = None
        /\ \A s \in Slots : Weight(t, s) = Weight(u, s)
    BY <1>1, <1>2, DropIpIs
  <1>4. th' = [th EXCEPT ![p] = u]  BY DEF DropIp
  <1> HIDE DEF u
  <1>5. Label(u) = l /\ l # "chdir3"  BY <1>3 DEF Label, Putting
  <1>6. Good(u)
    BY <1>1, <1>2, <1>3, <1>5, SlotIsPointer
    DEF Good, Fits, Label, Finds, DpOnly, IpOnly, DpAndIp, PutRets, LockRets, Putting, Stopped
  <1>7. ASSUME NEW s \in Slots, s # t.ip, Holding(t, s) PROVE Holding(u, s)
    <2>1. t.dp = s /\ t.pc = "unlink3"
      BY <1>1, <1>7 DEF Holding, DpHeld, IpHeld, Putting, Stopped
    <2> QED  BY <1>3, <2>1 DEF Holding, DpHeld, IpHeld, Putting, Stopped
  <1>8. LocksMove(holder', p, t, u)  BY <1>7, UnlockMove
  <1>9. Label(t) # "chdir3"  BY <1>1, <1>2
  <1> QED  BY <1>3, <1>4, <1>5, <1>6, <1>8, <1>9, TouchStep

\* Steps that get an inode with iget.
LEMMA GetStep ==
    ASSUME FInv, NEW p \in Procs, NEW u, th' = [th EXCEPT ![p] = u], Good(u),
           UNCHANGED <<ftable, ofile, cwd>>,
           NEW i, CanGet(i), icache' = Iget(i), LocksMove(holder', p, th[p], u),
           Label(u) # "chdir3", Label(th[p]) # "chdir3",
           \A s \in Slots : Weight(u, s) = Weight(th[p], s) + Eq(Slot(i), s)
    PROVE  FInv'
  <1>1. CacheOK(icache)  BY DEF FInv
  <1>2. /\ CacheOK(icache')
        /\ \A s \in Slots : icache'[s].ref = icache[s].ref + Eq(Slot(i), s)
    BY <1>1, IgetIs
  <1>3. ASSUME NEW s \in Slots
        PROVE  icache'[s].ref + Weight(th[p], s) = icache[s].ref + Weight(u, s)
    <2>1. icache[s].ref \in Nat /\ Weight(th[p], s) \in Nat /\ Eq(Slot(i), s) \in Nat
      BY <1>1, WeightNat DEF CacheOK, Entry, Eq
    <2>2. Weight(u, s) = Weight(th[p], s) + Eq(Slot(i), s)  OBVIOUS
    <2> QED  BY <1>2, <2>1, <2>2
  <1> QED  BY <1>2, <1>3, CallStep

\* Steps that panic.
LEMMA StopStep ==
    ASSUME FInv, NEW p \in Procs, Fits(th[p]), Label(th[p]) # "chdir3",
           NEW l \in {"panic", "full"}, th' = [th EXCEPT ![p] = [th[p] EXCEPT !.pc = l]],
           UNCHANGED <<ftable, ofile, cwd, holder>>, Touched(icache, icache')
    PROVE  FInv'
  <1> DEFINE t == th[p]
             u == [t EXCEPT !.pc = l]
  <1>1. Good(t)  BY Now
  <1>2. /\ Good(u) /\ Label(u) # "chdir3"
        /\ \A s \in Slots : Weight(u, s) = Weight(t, s) /\ Holding(u, s)
    BY <1>1, StopIs
  <1>3. th' = [th EXCEPT ![p] = u]  OBVIOUS
  <1> HIDE DEF u
  <1>4. LocksMove(holder', p, t, u)  BY <1>2, KeepMove
  <1>5. \A s \in Slots : Weight(t, s) = Weight(u, s)  BY <1>2
  <1> QED  BY <1>2, <1>3, <1>4, <1>5, TouchStep

LEMMA MadeStep ==
    ASSUME FInv, NEW p \in Procs, Made(p)
    PROVE  FInv'
  <1>1. /\ th[p].pc = "made"
        /\ th' = [th EXCEPT ![p] = PutIp([th[p] EXCEPT !.ip = None], th[p].ip, "done")]
        /\ holder' = Unlocked(th[p].ip)
        /\ UNCHANGED <<ftable, ofile, cwd, icache>>
    BY DEF Made, At, Become
  <1> QED  BY <1>1, NotTouched, DropIpStep

LEMMA UnlinkCountStep ==
    ASSUME FInv, NEW p \in Procs, UnlinkCount(p)
    PROVE  FInv'
  <1>1. /\ th[p].pc = "unlink4"
        /\ th' = [th EXCEPT ![p] = PutIp([th[p] EXCEPT !.ip = None], th[p].ip, "done")]
        /\ holder' = Unlocked(th[p].ip)
        /\ UNCHANGED <<ftable, ofile, cwd>>
        /\ icache' = [icache EXCEPT ![th[p].ip].nlink = @ - 1]
    BY DEF UnlinkCount, At, Become
  <1> QED  BY <1>1, NlinkTouched, DropIpStep

LEMMA UnlinkBadStep ==
    ASSUME FInv, NEW p \in Procs, UnlinkBad(p)
    PROVE  FInv'
  <1>1. /\ th[p].pc = "unlink5"
        /\ th' = [th EXCEPT ![p] = PutIp([th[p] EXCEPT !.dp = None], th[p].dp, "done")]
        /\ holder' = Unlocked(th[p].dp)
        /\ UNCHANGED <<ftable, ofile, cwd, icache>>
    BY DEF UnlinkBad, At, Become
  <1> QED  BY <1>1, NotTouched, DropDpStep

LEMMA LinkTakenStep ==
    ASSUME FInv, NEW p \in Procs, LinkTaken(p)
    PROVE  FInv'
  <1>1. /\ th[p].pc = "link5"
        /\ th' = [th EXCEPT ![p] = PutIp([th[p] EXCEPT !.dp = None], th[p].dp, "bad")]
        /\ holder' = Unlocked(th[p].dp)
        /\ UNCHANGED <<ftable, ofile, cwd, icache>>
    BY DEF LinkTaken, At, Become
  <1> QED  BY <1>1, NotTouched, DropDpStep

LEMMA LinkBadStep ==
    ASSUME FInv, NEW p \in Procs, LinkBad(p)
    PROVE  FInv'
  <1>1. /\ th[p].pc = "bad"
        /\ th' = [th EXCEPT ![p] = PutIp([th[p] EXCEPT !.ip = None], th[p].ip, "done")]
        /\ holder' = Unlocked(th[p].ip)
        /\ UNCHANGED <<ftable, ofile, cwd>>
        /\ icache' = [icache EXCEPT ![th[p].ip].nlink = @ - 1]
    BY DEF LinkBad, At, Become
  <1> QED  BY <1>1, NlinkTouched, DropIpStep

LEMMA CreateExistingStep ==
    ASSUME FInv, NEW p \in Procs, CreateExisting(p)
    PROVE  FInv'
  <1> DEFINE t == th[p]
             ok == Type(t.call) = "file" /\ icache[t.ip].type = "file"
  <1>1. t.pc = "create4" /\ Good(t) /\ Fits(t) /\ Locals(t)
        /\ UNCHANGED <<ftable, ofile, cwd, icache>>
    BY Now DEF CreateExisting, At, Stopped
  <1>2. CASE ok
    <2> DEFINE u == [t EXCEPT !.pc = "open2"]
    <2>1. /\ Locals(u) /\ u.pc = "open2" /\ u.cur = t.cur /\ u.dp = t.dp /\ u.ip = t.ip
          /\ u.put = t.put
      BY <1>1 DEF Locals, Local
    <2>2. th' = [th EXCEPT ![p] = u] /\ UNCHANGED holder  BY <1>2 DEF CreateExisting, Become
    <2> HIDE DEF u
    <2>3. Good(u)
      BY <1>1, <2>1
      DEF Good, Fits, Label, Finds, DpOnly, IpOnly, DpAndIp, PutRets, LockRets, Putting,
          Stopped
    <2>4. Label(u) # "chdir3" /\ Label(t) # "chdir3"  BY <1>1, <2>1 DEF Label, Putting
    <2>5. \A s \in Slots : Weight(t, s) = Weight(u, s)  BY <2>1 DEF Weight
    <2>6. \A s \in Slots : Holding(t, s) => Holding(u, s)
      BY <1>1, <2>1 DEF Holding, DpHeld, IpHeld, Putting, Stopped
    <2>7. LocksMove(holder', p, t, u)  BY <2>2, <2>6, KeepMove
    <2> QED  BY <1>1, <2>2, <2>3, <2>4, <2>5, <2>7, NotTouched, TouchStep
  <1>3. CASE ~ok
    <2>1. /\ th' = [th EXCEPT ![p] = PutIp([t EXCEPT !.ip = None], t.ip, "done")]
          /\ holder' = Unlocked(t.ip)
      BY <1>3 DEF CreateExisting, Become
    <2> QED  BY <1>1, <2>1, NotTouched, DropIpStep
  <1> QED  BY <1>2, <1>3

LEMMA NamexLookStep ==
    ASSUME FInv, NEW p \in Procs, NamexLook(p)
    PROVE  FInv'
  <1> DEFINE t == th[p]
             e == icache[t.cur]
             found == ents[e.inum][Head(t.elems)]
             stop == t.parent /\ Len(t.elems) = 1
  <1>1. /\ t.pc = "look" /\ Good(t) /\ Fits(t) /\ Locals(t)
        /\ UNCHANGED <<ftable, ofile, cwd>> /\ holder' = Unlocked(t.cur)
    BY Now DEF NamexLook, At, Stopped
  <1>2. /\ Label(t) = "look" /\ t.cur \in Slots /\ t.dp = None /\ t.put = None
        /\ t.nret \in Lookups /\ (t.ip # None <=> t.nret = "link4") /\ t.ip \in Pointer
    BY <1>1, PlainIs DEF Finds, DpOnly, DpAndIp, Putting, Good
  <1>3. \A s \in Slots : s # t.cur => ~Holding(t, s)
    BY <1>1 DEF Holding, DpHeld, IpHeld, Putting, Stopped
  <1>4. ASSUME NEW u PROVE LocksMove(holder', p, t, u)  BY <1>1, <1>3, UnlockMove
  <1>5. CASE /\ Become(p, PutIp([t EXCEPT !.cur = None], t.cur, "namexed"))
             /\ UNCHANGED icache
    <2> DEFINE u == DropCur(t, "namexed")
    <2>1. /\ Locals(u) /\ u.pc = "iput" /\ u.pret = "namexed"
          /\ u.put = t.cur /\ u.cur = None /\ u.dp = t.dp /\ u.ip = t.ip /\ u.nret = t.nret
          /\ \A s \in Slots : Weight(t, s) = Weight(u, s)
      BY <1>1, <1>2, DropCurIs
    <2>2. th' = [th EXCEPT ![p] = u]  BY <1>5 DEF DropCur, Become
    <2> HIDE DEF u
    <2>3. Good(u)
      BY <1>2, <2>1, SlotIsPointer
      DEF Good, Fits, Label, Finds, DpOnly, IpOnly, DpAndIp, PutRets, LockRets, Putting, Stopped
    <2>4. Label(u) # "chdir3" /\ Label(t) # "chdir3"  BY <1>2, <2>1 DEF Label, Putting
    <2>5. Touched(icache, icache')  BY <1>5, NotTouched
    <2>6. LocksMove(holder', p, t, u)  BY <1>4
    <2> QED  BY <1>1, <2>1, <2>2, <2>3, <2>4, <2>5, <2>6, TouchStep
  <1>6. CASE /\ Become(p, Namexed([t EXCEPT !.name = Head(t.elems), !.elems = <<>>]))
             /\ UNCHANGED icache
    <2> DEFINE v == [t EXCEPT !.name = Head(t.elems), !.elems = <<>>]
               u == Namexed(v)
    <2>1. /\ Locals(v) /\ v.cur = t.cur /\ v.dp = t.dp /\ v.ip = t.ip /\ v.put = t.put
          /\ v.nret = t.nret
      BY <1>1 DEF Locals, Local
    <2>2. th' = [th EXCEPT ![p] = u]  BY <1>6 DEF Become
    <2> HIDE DEF v
    <2>3. Finding(v)  BY <1>2, <2>1, SlotIsPointer DEF Finding
    <2>4. Goes(v, u)  BY <2>3, NamexedGoes
    <2> HIDE DEF u
    <2>5. \A s \in Slots : Weight(t, s) = Weight(u, s)  BY <2>1, <2>4 DEF Goes, Weight
    <2>6. Good(u) /\ Label(u) # "chdir3" /\ Label(t) # "chdir3"  BY <1>2, <2>4 DEF Goes
    <2>7. Touched(icache, icache')  BY <1>6, NotTouched
    <2>8. LocksMove(holder', p, t, u)  BY <1>4
    <2> QED  BY <1>1, <2>2, <2>5, <2>6, <2>7, <2>8, TouchStep
  <1>7. CASE /\ CanGet(found) /\ icache' = Iget(found)
             /\ Become(p, PutIp([t EXCEPT !.cur = Slot(found), !.elems = Tail(@)], t.cur, "next"))
    <2> DEFINE x == Slot(found)
               v == [t EXCEPT !.cur = x, !.elems = Tail(t.elems)]
               u == PutIp(v, t.cur, "next")
    <2>1. x \in Slots  BY <1>7, IgetIs DEF FInv
    <2>2. th' = [th EXCEPT ![p] = u]  BY <1>7 DEF Become
    <2> HIDE DEF x
    <2>3. /\ Locals(v) /\ v.cur = x /\ v.dp = t.dp /\ v.ip = t.ip /\ v.nret = t.nret
      BY <1>1 DEF Locals, Local
    <2> HIDE DEF v
    <2>4. /\ Locals(u) /\ u.pc = "iput" /\ u.pret = "next" /\ u.put = t.cur
          /\ u.cur = x /\ u.dp = t.dp /\ u.ip = t.ip /\ u.nret = t.nret
      BY <2>3, PutIpIs
    <2> HIDE DEF u
    <2>5. Good(u)
      BY <1>2, <2>1, <2>4, SlotIsPointer
      DEF Good, Fits, Label, Finds, DpOnly, IpOnly, DpAndIp, PutRets, LockRets, Putting, Stopped
    <2>6. Label(u) # "chdir3" /\ Label(t) # "chdir3"  BY <1>2, <2>4 DEF Label, Putting
    <2>7. \A s \in Slots : Weight(u, s) = Weight(t, s) + Eq(Slot(found), s)
      BY <1>2, <2>4, SlotIsPointer DEF Weight, Eq, x
    <2>8. LocksMove(holder', p, t, u)  BY <1>4
    <2>9. CanGet(found) /\ icache' = Iget(found)  BY <1>7
    <2> HIDE DEF found
    <2> QED  BY <1>1, <2>2, <2>5, <2>6, <2>7, <2>8, <2>9, GetStep
  <1> QED  BY <1>5, <1>6, <1>7 DEF NamexLook
LEMMA IgetPanicStep ==
    ASSUME FInv, NEW p \in Procs, IgetPanic(p)
    PROVE  FInv'
  <1> DEFINE t == th[p]
  <1>1. /\ t.pc \in {"namex", "look", "create2", "unlink2", "link4", "create5"}
        /\ Good(t) /\ Fits(t)
        /\ th' = [th EXCEPT ![p] = [t EXCEPT !.pc = "full"]]
        /\ UNCHANGED <<icache, holder, ftable, ofile, cwd>>
    <2>1. t.pc \in {"namex", "look", "create2", "unlink2", "link4", "create5"}
      BY DEF IgetPanic, Wanted, At
    <2> QED  BY <2>1, Now DEF IgetPanic, Full, Become, Stopped
  <1>2. Label(t) # "chdir3"  BY <1>1, PlainIs DEF Putting
  <1> QED  BY <1>1, <1>2, NotTouched, StopStep

LEMMA CreateLookupStep ==
    ASSUME FInv, NEW p \in Procs, CreateLookup(p)
    PROVE  FInv'
  <1> DEFINE t == th[p]
             found == ents[icache[t.dp].inum][t.name]
  <1>1. /\ t.pc = "create2" /\ Good(t) /\ Fits(t) /\ Locals(t)
        /\ UNCHANGED <<ftable, ofile, cwd>>
    BY Now DEF CreateLookup, At, Stopped
  <1>2. /\ Label(t) = "create2" /\ t.dp \in Slots /\ t.cur = None /\ t.ip = None /\ t.put = None
    BY <1>1, PlainIs DEF Finds, DpOnly, DpAndIp, Putting
  <1>3. CASE Panic(p) /\ UNCHANGED <<icache, holder>>
    <2>1. th' = [th EXCEPT ![p] = [t EXCEPT !.pc = "panic"]]  BY <1>3 DEF Panic, Become
    <2>2. Label(t) # "chdir3"  BY <1>2
    <2> QED  BY <1>1, <1>3, <2>1, <2>2, NotTouched, StopStep
  <1>4. CASE /\ CanGet(found) /\ icache' = Iget(found) /\ holder' = Unlocked(t.dp)
             /\ Become(p, PutIp([t EXCEPT !.ip = Slot(found), !.dp = None], t.dp, "create4"))
    <2> DEFINE x == Slot(found)
               v == [t EXCEPT !.ip = x, !.dp = None]
               u == PutIp(v, t.dp, "create4")
    <2>1. x \in Slots  BY <1>4, IgetIs DEF FInv
    <2>2. th' = [th EXCEPT ![p] = u]  BY <1>4 DEF Become
    <2> HIDE DEF x
    <2>3. Locals(v) /\ v.cur = t.cur /\ v.dp = None /\ v.ip = x
      BY <1>1 DEF Locals, Local
    <2> HIDE DEF v
    <2>4. /\ Locals(u) /\ u.pc = "iput" /\ u.pret = "create4" /\ u.put = t.dp
          /\ u.cur = t.cur /\ u.dp = None /\ u.ip = x
      BY <2>3, PutIpIs
    <2> HIDE DEF u
    <2>5. Good(u)
      BY <1>2, <2>1, <2>4, SlotIsPointer
      DEF Good, Fits, Label, Finds, DpOnly, IpOnly, DpAndIp, PutRets, LockRets, Putting, Stopped
    <2>6. Label(u) # "chdir3" /\ Label(t) # "chdir3"  BY <1>2, <2>4 DEF Label, Putting
    <2>7. \A s \in Slots : Weight(u, s) = Weight(t, s) + Eq(Slot(found), s)
      BY <1>2, <2>4, SlotIsPointer DEF Weight, Eq, x
    <2>8. \A s \in Slots : s # t.dp => ~Holding(t, s)
      BY <1>1 DEF Holding, DpHeld, IpHeld, Putting, Stopped
    <2>9. LocksMove(holder', p, t, u)  BY <1>4, <2>8, UnlockMove
    <2>10. CanGet(found) /\ icache' = Iget(found)  BY <1>4
    <2> HIDE DEF found
    <2> QED  BY <1>1, <2>2, <2>5, <2>6, <2>7, <2>9, <2>10, GetStep
  <1>5. CASE /\ Become(p, [t EXCEPT !.inum = 1, !.pc = "ialloc"]) /\ UNCHANGED <<icache, holder>>
    <2> DEFINE u == [t EXCEPT !.inum = 1, !.pc = "ialloc"]
    <2>1. /\ Locals(u) /\ u.pc = "ialloc" /\ u.cur = t.cur /\ u.dp = t.dp /\ u.ip = t.ip
          /\ u.put = t.put
      BY <1>1 DEF Locals, Local
    <2>2. th' = [th EXCEPT ![p] = u]  BY <1>5 DEF Become
    <2> HIDE DEF u
    <2>3. Good(u)
      BY <1>2, <2>1, SlotIsPointer
      DEF Good, Fits, Label, Finds, DpOnly, IpOnly, DpAndIp, PutRets, LockRets, Putting,
          Stopped
    <2>4. Label(u) # "chdir3" /\ Label(t) # "chdir3"  BY <1>2, <2>1 DEF Label, Putting
    <2>5. \A s \in Slots : Weight(t, s) = Weight(u, s)  BY <2>1 DEF Weight
    <2>6. \A s \in Slots : Holding(t, s) => Holding(u, s)
      BY <1>1, <2>1 DEF Holding, DpHeld, IpHeld, Putting, Stopped
    <2>7. LocksMove(holder', p, t, u)  BY <1>5, <2>6, KeepMove
    <2> QED  BY <1>1, <1>5, <2>2, <2>3, <2>4, <2>5, <2>7, NotTouched, TouchStep
  <1> QED  BY <1>3, <1>4, <1>5 DEF CreateLookup

LEMMA IallocStep ==
    ASSUME FInv, NEW p \in Procs, Ialloc(p)
    PROVE  FInv'
  <1> DEFINE t == th[p]
  <1>1. /\ t.pc = "ialloc" /\ Good(t) /\ Fits(t) /\ Locals(t)
        /\ UNCHANGED <<ftable, ofile, cwd, icache, holder>>
    BY Now DEF Ialloc, At, Stopped
  <1>2. /\ Label(t) = "ialloc" /\ t.dp \in Slots /\ t.cur = None /\ t.ip = None /\ t.put = None
    BY <1>1, PlainIs DEF Finds, DpOnly, DpAndIp, Putting
  <1>3. CASE Full(p)
    <2>1. th' = [th EXCEPT ![p] = [t EXCEPT !.pc = "full"]]  BY <1>3 DEF Full, Become
    <2>2. Label(t) # "chdir3"  BY <1>2
    <2> QED  BY <1>1, <2>1, <2>2, NotTouched, StopStep
  <1>4. ASSUME NEW u, Become(p, u),
               u = [t EXCEPT !.inum = t.inum + 1] \/ u = [t EXCEPT !.pc = "create5"]
        PROVE  FInv'
    <2>1. /\ Locals(u) /\ u.pc \in {"ialloc", "create5"}
          /\ u.cur = t.cur /\ u.dp = t.dp /\ u.ip = t.ip /\ u.put = t.put
      BY <1>1, <1>4 DEF Locals, Local
    <2>2. th' = [th EXCEPT ![p] = u]  BY <1>4 DEF Become
    <2>3. Good(u)
      BY <1>2, <2>1, SlotIsPointer
      DEF Good, Fits, Label, Finds, DpOnly, IpOnly, DpAndIp, PutRets, LockRets, Putting,
          Stopped
    <2>4. Label(u) # "chdir3" /\ Label(t) # "chdir3"  BY <1>2, <2>1 DEF Label, Putting
    <2>5. \A s \in Slots : Weight(t, s) = Weight(u, s)  BY <2>1 DEF Weight
    <2>6. \A s \in Slots : Holding(t, s) => Holding(u, s)
      BY <1>1, <2>1 DEF Holding, DpHeld, IpHeld, Putting, Stopped
    <2>7. LocksMove(holder', p, t, u)  BY <1>1, <2>6, KeepMove
    <2> QED  BY <1>1, <2>2, <2>3, <2>4, <2>5, <2>7, NotTouched, TouchStep
  <1> QED  BY <1>3, <1>4 DEF Ialloc

LEMMA CreateGetStep ==
    ASSUME FInv, NEW p \in Procs, CreateGet(p)
    PROVE  FInv'
  <1> DEFINE t == th[p]
             x == Slot(t.inum)
             v == [t EXCEPT !.ip = x, !.inum = 0]
             u == LockIp(v, x, "create6")
  <1>1. /\ t.pc = "create5" /\ Good(t) /\ Fits(t) /\ Locals(t)
        /\ UNCHANGED <<ftable, ofile, cwd, holder>>
        /\ CanGet(t.inum) /\ icache' = Iget(t.inum)
    BY Now DEF CreateGet, At, Stopped
  <1>2. /\ Label(t) = "create5" /\ t.dp \in Slots /\ t.cur = None /\ t.ip = None /\ t.put = None
    BY <1>1, PlainIs DEF Finds, DpOnly, DpAndIp, Putting
  <1>3. x \in Slots  BY <1>1, IgetIs DEF FInv
  <1>4. th' = [th EXCEPT ![p] = u]  BY DEF CreateGet, Become
  <1> HIDE DEF x
  <1>5. Locals(v) /\ v.cur = t.cur /\ v.dp = t.dp /\ v.ip = x /\ v.put = t.put
    BY <1>1 DEF Locals, Local
  <1> HIDE DEF v
  <1>6. /\ Locals(u) /\ u.pc = "ilock" /\ u.lret = "create6" /\ u.lk = x
        /\ u.cur = t.cur /\ u.dp = t.dp /\ u.ip = x /\ u.put = t.put
    BY <1>5, LockIpIs
  <1> HIDE DEF u
  <1>7. Good(u)
    BY <1>2, <1>3, <1>6, SlotIsPointer
    DEF Good, Fits, Label, Finds, DpOnly, IpOnly, DpAndIp, PutRets, LockRets, Putting, Stopped
  <1>8. Label(u) # "chdir3" /\ Label(t) # "chdir3"  BY <1>2, <1>6 DEF Label, Putting
  <1>9. \A s \in Slots : Weight(u, s) = Weight(t, s) + Eq(Slot(t.inum), s)
    BY <1>2, <1>6, SlotIsPointer DEF Weight, Eq, x
  <1>10. \A s \in Slots : Holding(t, s) => Holding(u, s)
    BY <1>1, <1>6 DEF Holding, DpHeld, IpHeld, Putting, Stopped
  <1>11. LocksMove(holder', p, t, u)  BY <1>1, <1>10, KeepMove
  <1> QED  BY <1>1, <1>4, <1>7, <1>8, <1>9, <1>11, GetStep

LEMMA CreateLinkStep ==
    ASSUME FInv, NEW p \in Procs, CreateLink(p)
    PROVE  FInv'
  <1> DEFINE t == th[p]
             isdir == Type(t.call) = "dir"
             c == [icache EXCEPT ![t.ip].nlink = 1, ![t.dp].nlink = IF isdir THEN @ + 1 ELSE @]
  <1>1. /\ t.pc = "create6" /\ Good(t) /\ Fits(t) /\ icache' = c
        /\ UNCHANGED <<ftable, ofile, cwd>>
    BY Now DEF CreateLink, At, Stopped
  <1>2. Touched(icache, icache')  BY <1>1, NlinksTouched
  <1>3. CASE isdir /\ c[t.ip].type # "dir"
    <2>1. /\ th' = [th EXCEPT ![p] = [t EXCEPT !.pc = "panic"]]
          /\ UNCHANGED holder
      BY <1>3 DEF CreateLink, Panic, Become
    <2>2. Label(t) # "chdir3"  BY <1>1 DEF Label, Putting
    <2> QED  BY <1>1, <1>2, <2>1, <2>2, StopStep
  <1>4. CASE ~(isdir /\ c[t.ip].type # "dir")
    <2>1. /\ th' = [th EXCEPT ![p] = PutIp([t EXCEPT !.dp = None], t.dp, Created(t.call))]
          /\ holder' = Unlocked(t.dp)
      BY <1>4 DEF CreateLink, Become
    <2>2. Created(t.call) \in {"open2", "made"}  BY DEF Created
    <2> QED  BY <1>1, <1>2, <2>1, <2>2, DropDpStep
  <1> QED  BY <1>3, <1>4

LEMMA UnlinkLookupStep ==
    ASSUME FInv, NEW p \in Procs, UnlinkLookup(p)
    PROVE  FInv'
  <1> DEFINE t == th[p]
             found == ents[icache[t.dp].inum][t.name]
  <1>1. /\ t.pc = "unlink2" /\ Good(t) /\ Fits(t) /\ Locals(t)
        /\ UNCHANGED <<ftable, ofile, cwd>>
    BY Now DEF UnlinkLookup, At, Stopped
  <1>2. /\ Label(t) = "unlink2" /\ t.dp \in Slots /\ t.cur = None /\ t.ip = None /\ t.put = None
    BY <1>1, PlainIs DEF Finds, DpOnly, DpAndIp, Putting
  <1>3. CASE /\ Become(p, PutIp([t EXCEPT !.dp = None], t.dp, "done"))
             /\ holder' = Unlocked(t.dp) /\ UNCHANGED icache
    <2>1. th' = [th EXCEPT ![p] = PutIp([t EXCEPT !.dp = None], t.dp, "done")]
      BY <1>3 DEF Become
    <2> QED  BY <1>1, <1>3, <2>1, NotTouched, DropDpStep
  <1>4. CASE /\ CanGet(found) /\ icache' = Iget(found) /\ UNCHANGED holder
             /\ Become(p, LockIp([t EXCEPT !.ip = Slot(found)], Slot(found), "unlink3"))
    <2> DEFINE x == Slot(found)
               v == [t EXCEPT !.ip = x]
               u == LockIp(v, x, "unlink3")
    <2>1. x \in Slots  BY <1>4, IgetIs DEF FInv
    <2>2. th' = [th EXCEPT ![p] = u]  BY <1>4 DEF Become
    <2> HIDE DEF x
    <2>3. Locals(v) /\ v.cur = t.cur /\ v.dp = t.dp /\ v.ip = x /\ v.put = t.put
      BY <1>1 DEF Locals, Local
    <2> HIDE DEF v
    <2>4. /\ Locals(u) /\ u.pc = "ilock" /\ u.lret = "unlink3" /\ u.lk = x
          /\ u.cur = t.cur /\ u.dp = t.dp /\ u.ip = x /\ u.put = t.put
      BY <2>3, LockIpIs
    <2> HIDE DEF u
    <2>5. Good(u)
      BY <1>2, <2>1, <2>4, SlotIsPointer
      DEF Good, Fits, Label, Finds, DpOnly, IpOnly, DpAndIp, PutRets, LockRets, Putting, Stopped
    <2>6. Label(u) # "chdir3" /\ Label(t) # "chdir3"  BY <1>2, <2>4 DEF Label, Putting
    <2>7. \A s \in Slots : Weight(u, s) = Weight(t, s) + Eq(Slot(found), s)
      BY <1>2, <2>4, SlotIsPointer DEF Weight, Eq, x
    <2>8. \A s \in Slots : Holding(t, s) => Holding(u, s)
      BY <1>1, <2>4 DEF Holding, DpHeld, IpHeld, Putting, Stopped
    <2>9. LocksMove(holder', p, t, u)  BY <1>4, <2>8, KeepMove
    <2>10. CanGet(found) /\ icache' = Iget(found)  BY <1>4
    <2> HIDE DEF found
    <2> QED  BY <1>1, <2>2, <2>5, <2>6, <2>7, <2>9, <2>10, GetStep
  <1> QED  BY <1>3, <1>4 DEF UnlinkLookup

LEMMA UnlinkEntryStep ==
    ASSUME FInv, NEW p \in Procs, UnlinkEntry(p)
    PROVE  FInv'
  <1> DEFINE t == th[p]
             isdir == icache[t.ip].type = "dir"
             c == [icache EXCEPT ![t.dp].nlink = IF isdir THEN @ - 1 ELSE @]
  <1>1. /\ t.pc = "unlink3" /\ Good(t) /\ Fits(t)
        /\ UNCHANGED <<ftable, ofile, cwd>>
    BY Now DEF UnlinkEntry, At, Stopped
  <1>2. CASE Panic(p) /\ UNCHANGED <<icache, holder>>
    <2>1. th' = [th EXCEPT ![p] = [t EXCEPT !.pc = "panic"]]  BY <1>2 DEF Panic, Become
    <2>2. Label(t) # "chdir3"  BY <1>1 DEF Label, Putting
    <2> QED  BY <1>1, <1>2, <2>1, <2>2, NotTouched, StopStep
  <1>3. CASE /\ Become(p, PutIp([t EXCEPT !.ip = None], t.ip, "unlink5"))
             /\ holder' = Unlocked(t.ip) /\ UNCHANGED icache
    <2>1. th' = [th EXCEPT ![p] = PutIp([t EXCEPT !.ip = None], t.ip, "unlink5")]
      BY <1>3 DEF Become
    <2> QED  BY <1>1, <1>3, <2>1, NotTouched, DropIpStep
  <1>4. CASE /\ icache' = c /\ holder' = Unlocked(t.dp)
             /\ Become(p, PutIp([t EXCEPT !.dp = None], t.dp, "unlink4"))
    <2>1. th' = [th EXCEPT ![p] = PutIp([t EXCEPT !.dp = None], t.dp, "unlink4")]
      BY <1>4 DEF Become
    <2>2. Touched(icache, icache')  BY <1>4, NlinkTouched
    <2> QED  BY <1>1, <1>4, <2>1, <2>2, DropDpStep
  <1> QED  BY <1>2, <1>3, <1>4 DEF UnlinkEntry

LEMMA LinkStep ==
    ASSUME FInv, NEW p \in Procs, Link(p)
    PROVE  FInv'
  <1> DEFINE t == th[p]
  <1>1. /\ t.pc = "link2" /\ Good(t) /\ Fits(t) /\ Locals(t)
        /\ UNCHANGED <<ftable, ofile, cwd>> /\ holder' = Unlocked(t.ip)
    BY Now DEF Link, At, Stopped
  <1>2. /\ Label(t) = "link2" /\ t.ip \in Slots /\ t.cur = None /\ t.dp = None /\ t.put = None
    BY <1>1, PlainIs DEF IpOnly, DpOnly, DpAndIp, Putting
  <1>3. CASE icache[t.ip].type = "dir"
    <2>1. /\ th' = [th EXCEPT ![p] = PutIp([t EXCEPT !.ip = None], t.ip, "done")]
          /\ UNCHANGED icache
      BY <1>3 DEF Link, Become
    <2> QED  BY <1>1, <2>1, NotTouched, DropIpStep
  <1>4. CASE icache[t.ip].type # "dir"
    <2> DEFINE u == NamexIp(t, t.call.new, TRUE, "link4")
    <2>1. /\ th' = [th EXCEPT ![p] = u]
          /\ icache' = [icache EXCEPT ![t.ip].nlink = @ + 1]
      BY <1>4 DEF Link, Become
    <2>2. /\ Locals(u) /\ u.pc = "namex" /\ u.nret = "link4"
          /\ u.cur = t.cur /\ u.dp = t.dp /\ u.ip = t.ip /\ u.put = t.put
      BY <1>1 DEF NamexIp, Locals, Local
    <2> HIDE DEF u
    <2>3. Good(u)
      BY <1>2, <2>2, SlotIsPointer
      DEF Lookups, Good, Fits, Label, Finds, DpOnly, IpOnly, DpAndIp, PutRets, LockRets, Putting,
          Stopped
    <2>4. Label(u) # "chdir3" /\ Label(t) # "chdir3"  BY <1>2, <2>2 DEF Label, Putting
    <2>5. \A s \in Slots : Weight(t, s) = Weight(u, s)  BY <2>2 DEF Weight
    <2>6. \A s \in Slots : s # t.ip => ~Holding(t, s)
      BY <1>1 DEF Holding, DpHeld, IpHeld, Putting, Stopped
    <2>7. LocksMove(holder', p, t, u)  BY <1>1, <2>6, UnlockMove
    <2>8. Touched(icache, icache')  BY <2>1, NlinkTouched
    <2> QED  BY <1>1, <2>1, <2>3, <2>4, <2>5, <2>7, <2>8, TouchStep
  <1> QED  BY <1>3, <1>4

LEMMA LinkEntryStep ==
    ASSUME FInv, NEW p \in Procs, LinkEntry(p)
    PROVE  FInv'
  <1> DEFINE t == th[p]
             found == ents[icache[t.dp].inum][t.name]
  <1>1. /\ t.pc = "link4" /\ Good(t) /\ Fits(t) /\ Locals(t)
        /\ UNCHANGED <<ftable, ofile, cwd>>
    BY Now DEF LinkEntry, At, Stopped
  <1>2. /\ Label(t) = "link4" /\ t.dp \in Slots /\ t.ip \in Slots /\ t.cur = None /\ t.put = None
    BY <1>1, PlainIs DEF DpAndIp, Putting
  <1>3. CASE /\ CanGet(found) /\ icache' = Iget(found) /\ UNCHANGED holder
             /\ Become(p, PutIp(t, Slot(found), "link5"))
    <2> DEFINE x == Slot(found)
               u == PutIp(t, x, "link5")
    <2>1. x \in Slots  BY <1>3, IgetIs DEF FInv
    <2>2. th' = [th EXCEPT ![p] = u]  BY <1>3 DEF Become
    <2> HIDE DEF x
    <2>3. /\ Locals(u) /\ u.pc = "iput" /\ u.pret = "link5" /\ u.put = x
          /\ u.cur = t.cur /\ u.dp = t.dp /\ u.ip = t.ip
      BY <1>1, PutIpIs
    <2> HIDE DEF u
    <2>4. Good(u)
      BY <1>2, <2>1, <2>3, SlotIsPointer
      DEF Good, Fits, Label, Finds, DpOnly, IpOnly, DpAndIp, PutRets, LockRets, Putting, Stopped
    <2>5. Label(u) # "chdir3" /\ Label(t) # "chdir3"  BY <1>2, <2>3 DEF Label, Putting
    <2>6. \A s \in Slots : Weight(u, s) = Weight(t, s) + Eq(Slot(found), s)
      BY <1>2, <2>3, SlotIsPointer DEF Weight, Eq, x
    <2>7. \A s \in Slots : Holding(t, s) => Holding(u, s)
      BY <1>1, <2>3 DEF Holding, DpHeld, IpHeld, Putting, Stopped
    <2>8. LocksMove(holder', p, t, u)  BY <1>3, <2>7, KeepMove
    <2>9. CanGet(found) /\ icache' = Iget(found)  BY <1>3
    <2> HIDE DEF found
    <2> QED  BY <1>1, <2>2, <2>4, <2>5, <2>6, <2>8, <2>9, GetStep
  <1>4. CASE /\ holder' = Unlocked(t.dp) /\ UNCHANGED icache
             /\ Become(p, PutIp([t EXCEPT !.dp = None], t.dp, "linked"))
    <2>1. th' = [th EXCEPT ![p] = PutIp([t EXCEPT !.dp = None], t.dp, "linked")]
      BY <1>4 DEF Become
    <2> QED  BY <1>1, <1>4, <2>1, NotTouched, DropDpStep
  <1> QED  BY <1>3, <1>4 DEF LinkEntry
-----------------------------------------------------------------------------
(* Open files and current directories.                                     *)

\* Weights of a step that file f does not take part in.
LEMMA SameFile ==
    ASSUME UNCHANGED ftable, NEW f, NEW s
    PROVE  FileWeight(ftable', f, s) = FileWeight(ftable, f, s)
  OBVIOUS

LEMMA ChdirStep ==
    ASSUME FInv, NEW p \in Procs, Chdir(p)
    PROVE  FInv'
  <1> DEFINE t == th[p]
             ok == icache[t.ip].type = "dir"
  <1>1. /\ t.pc = "chdir2" /\ Good(t) /\ Fits(t) /\ Locals(t)
        /\ UNCHANGED <<ftable, ofile, icache>> /\ holder' = Unlocked(t.ip)
    BY Now DEF Chdir, At, Stopped
  <1>2. /\ Label(t) = "chdir2" /\ t.ip \in Slots /\ t.cur = None /\ t.dp = None /\ t.put = None
    BY <1>1, PlainIs DEF IpOnly, DpOnly, DpAndIp, Putting
  <1>3. CASE ~ok
    <2>1. /\ th' = [th EXCEPT ![p] = PutIp([t EXCEPT !.ip = None], t.ip, "done")]
          /\ UNCHANGED cwd
      BY <1>3 DEF Chdir, Become
    <2> QED  BY <1>1, <2>1, NotTouched, DropIpStep
  <1>4. CASE ok
    <2> DEFINE x == cwd[p]
               u == PutIp(t, x, "chdir3")
    <2>1. cwd' = [cwd EXCEPT ![p] = None] /\ th' = [th EXCEPT ![p] = u]
      BY <1>4 DEF Chdir, Become
    <2>2. x \in Slots  BY <1>2, SlotIsPointer DEF FInv, CwdOK
    <2> HIDE DEF x
    <2>3. /\ Locals(u) /\ u.pc = "iput" /\ u.pret = "chdir3" /\ u.put = x
          /\ u.cur = t.cur /\ u.dp = t.dp /\ u.ip = t.ip
      BY <1>1, PutIpIs
    <2> HIDE DEF u
    <2>4. Good(u)
      BY <1>2, <2>2, <2>3, SlotIsPointer
      DEF Good, Fits, Label, Finds, DpOnly, IpOnly, DpAndIp, PutRets, LockRets, Putting, Stopped
    <2>5. Label(u) = "chdir3" /\ None \in Pointer  BY <2>3, SlotIsPointer DEF Label, Putting
    <2>6. \A s \in Slots : s # t.ip => ~Holding(t, s)
      BY <1>1 DEF Holding, DpHeld, IpHeld, Putting, Stopped
    <2>7. LocksMove(holder', p, t, u)  BY <1>1, <2>6, UnlockMove
    <2>8. 1 \in 1 .. NFILE /\ \A g \in 1 .. NFILE \ {1} : ftable'[g] = ftable[g]
      BY <1>1, FilesConstants
    <2>9. FilesOK'  BY <1>1 DEF FInv, FilesOK, Descriptors
    <2>10. CacheOK(icache')  BY <1>1 DEF FInv
    <2>11. ASSUME NEW s \in Slots
           PROVE  icache'[s].ref + Before(1, p, s) = icache[s].ref + After(1, u, None, s)
      <3>1. Weight(u, s) = Weight(t, s) + Eq(x, s) /\ Eq(None, s) = 0
        BY <1>2, <2>3, SlotIsPointer DEF Weight, Eq
      <3>2. FileWeight(ftable', 1, s) = FileWeight(ftable, 1, s)  BY <1>1, SameFile
      <3>3. Before(1, p, s) = Weight(t, s) + Eq(x, s) + FileWeight(ftable, 1, s)
        BY DEF Before, x
      <3>4. Weight(t, s) \in Nat /\ Eq(x, s) \in Nat /\ FileWeight(ftable, 1, s) \in Nat
        BY WeightNat DEF Eq, FileWeight
      <3>5. After(1, u, None, s) = Weight(t, s) + Eq(x, s) + FileWeight(ftable, 1, s)
        BY <3>1, <3>2, <3>4 DEF After
      <3> QED  BY <1>1, <3>3, <3>5
    <2> QED  BY <2>1, <2>4, <2>5, <2>7, <2>8, <2>9, <2>10, <2>11, AnyStep
  <1> QED  BY <1>3, <1>4

LEMMA IdleGood == Good(Idle) /\ Label(Idle) = "idle" /\ \A s \in Slots : Weight(Idle, s) = 0
  <1>1. Good(Idle)
    BY IdleIs, SlotIsPointer
    DEF Good, Fits, Label, Finds, DpOnly, IpOnly, DpAndIp, PutRets, LockRets, Putting, Stopped
  <1>2. Label(Idle) = "idle"  BY IdleIs DEF Label, Putting
  <1>3. \A s \in Slots : Weight(Idle, s) = 0  BY IdleIs, SlotIsPointer DEF Weight, Eq
  <1> QED  BY <1>1, <1>2, <1>3

LEMMA ChdirDoneStep ==
    ASSUME FInv, NEW p \in Procs, ChdirDone(p)
    PROVE  FInv'
  <1> DEFINE t == th[p]
             d == t.ip
  <1>1. /\ t.pc = "chdir3" /\ Good(t) /\ Fits(t)
        /\ UNCHANGED <<ftable, ofile, icache, holder>>
        /\ cwd' = [cwd EXCEPT ![p] = d] /\ th' = [th EXCEPT ![p] = Idle]
    BY Now DEF ChdirDone, At, Stopped, Become
  <1>2. /\ Label(t) = "chdir3" /\ d \in Slots /\ t.cur = None /\ t.dp = None /\ t.put = None
    BY <1>1, PlainIs DEF IpOnly, DpOnly, DpAndIp, Putting
  <1>3. d \in Pointer /\ d # None  BY <1>2, SlotIsPointer
  <1>4. cwd[p] = None  BY <1>2 DEF FInv, CwdOK
  <1>5. \A s \in Slots : ~Holding(t, s)  BY <1>1 DEF Holding, DpHeld, IpHeld, Putting, Stopped
  <1>6. LocksMove(holder', p, t, Idle)  BY <1>1, <1>5, KeepMove
  <1>7. 1 \in 1 .. NFILE /\ \A g \in 1 .. NFILE \ {1} : ftable'[g] = ftable[g]
    BY <1>1, FilesConstants
  <1>8. FilesOK'  BY <1>1 DEF FInv, FilesOK, Descriptors
  <1>9. CacheOK(icache')  BY <1>1 DEF FInv
  <1>10. ASSUME NEW s \in Slots
         PROVE  icache'[s].ref + Before(1, p, s) = icache[s].ref + After(1, Idle, d, s)
    <2>1. Weight(t, s) = Eq(d, s) /\ Eq(cwd[p], s) = 0
      BY <1>2, <1>4, SlotIsPointer DEF Weight, Eq
    <2>2. FileWeight(ftable', 1, s) = FileWeight(ftable, 1, s)  BY <1>1, SameFile
    <2>3. Weight(Idle, s) = 0  BY IdleGood
    <2>4. Eq(d, s) \in Nat /\ FileWeight(ftable, 1, s) \in Nat  BY DEF Eq, FileWeight
    <2>5. /\ Before(1, p, s) = Eq(d, s) + FileWeight(ftable, 1, s)
          /\ After(1, Idle, d, s) = Eq(d, s) + FileWeight(ftable, 1, s)
      BY <2>1, <2>2, <2>3, <2>4 DEF Before, After
    <2> QED  BY <1>1, <2>5
  <1> HIDE DEF d
  <1>11. Label(Idle) # "chdir3" /\ Good(Idle)  BY IdleGood
  <1> QED  BY <1>1, <1>3, <1>6, <1>7, <1>8, <1>9, <1>10, <1>11, AnyStep

LEMMA DescriptorsFinite ==
    ASSUME NEW g
    PROVE  IsFiniteSet(Descriptors(g)) /\ IsFiniteSet(Descriptors(g)')
  <1>1. IsFiniteSet(1 .. NOFILE)  BY FS_Interval, FilesConstants
  <1>2. IsFiniteSet(Procs \X (1 .. NOFILE))  BY <1>1, FilesProcs, FS_Product
  <1>3. /\ Descriptors(g) \in SUBSET (Procs \X (1 .. NOFILE))
        /\ Descriptors(g)' \in SUBSET (Procs \X (1 .. NOFILE))
    BY DEF Descriptors
  <1> QED  BY <1>2, <1>3, FS_Subset

\* The number of descriptors of a file when one descriptor changes.
LEMMA DescriptorChange ==
    ASSUME FilesOK, NEW p \in Procs, NEW fd \in 1 .. NOFILE, NEW v \in 0 .. NFILE,
           ofile' = [ofile EXCEPT ![p][fd] = v], NEW g \in 1 .. NFILE
    PROVE  /\ Cardinality(Descriptors(g)) \in Nat /\ Cardinality(Descriptors(g)') \in Nat
           /\ Cardinality(Descriptors(g)') + Eq(ofile[p][fd], g)
                = Cardinality(Descriptors(g)) + Eq(v, g)
           /\ ofile[p][fd] = g => Cardinality(Descriptors(g)) > 0
  <1> DEFINE All == Procs \X (1 .. NOFILE)
             D == Descriptors(g)
             E == Descriptors(g)'
             x == <<p, fd>>
  <1>2. D \in SUBSET All /\ E \in SUBSET All  BY DEF Descriptors
  <1>3. IsFiniteSet(D) /\ IsFiniteSet(E)  BY DescriptorsFinite
  <1>4. x \in D <=> ofile[p][fd] = g  BY DEF Descriptors
  <1>5. x \in E <=> v = g
    <2>1. ofile'[p][fd] = v  BY DEF FilesOK
    <2> QED  BY <2>1 DEF Descriptors
  <1>6. D \ {x} = E \ {x}
    <2> SUFFICES ASSUME NEW y \in All, y # x PROVE y \in D <=> y \in E
      BY <1>2
    <2>1. ofile'[y[1]][y[2]] = ofile[y[1]][y[2]]
      <3>1. y[1] \in Procs /\ y[2] \in 1 .. NOFILE /\ (y[1] # p \/ y[2] # fd)  OBVIOUS
      <3> QED  BY <3>1 DEF FilesOK
    <2> QED  BY <2>1 DEF Descriptors
  <1> HIDE DEF D, E, x
  <1>7. /\ Cardinality(D) \in Nat /\ Cardinality(D \ {x}) \in Nat
        /\ Cardinality(D) = Cardinality(D \ {x}) + In(x, D)
    BY <1>3, RemoveOne
  <1>8. /\ Cardinality(E) \in Nat
        /\ Cardinality(E) = Cardinality(E \ {x}) + In(x, E)
    BY <1>3, RemoveOne
  <1>9. In(x, D) = Eq(ofile[p][fd], g) /\ In(x, E) = Eq(v, g)  BY <1>4, <1>5 DEF In, Eq
  <1>10. Eq(ofile[p][fd], g) \in Nat /\ Eq(v, g) \in Nat  BY DEF Eq
  <1>11. Cardinality(E) + Eq(ofile[p][fd], g) = Cardinality(D) + Eq(v, g)
    BY <1>6, <1>7, <1>8, <1>9, <1>10
  <1>12. ofile[p][fd] = g => Cardinality(D) > 0  BY <1>4, <1>7 DEF In
  <1> QED  BY <1>7, <1>8, <1>11, <1>12 DEF D, E

\* Descriptor fd of process p changes to v, and file f, the only one that
\* gains or loses by it, to r references and inode i.
FileChange(p, fd, v, f, r, i) ==
    /\ ofile' = [ofile EXCEPT ![p][fd] = v]
    /\ ofile[p][fd] \in {None, f} /\ v \in {None, f}
    /\ ftable' = [ftable EXCEPT ![f] = [ref |-> r, ip |-> i]]
    /\ r + Eq(ofile[p][fd], f) = ftable[f].ref + Eq(v, f)
    /\ r > 0 => i # None

LEMMA FilesKept ==
    ASSUME FilesOK, NEW p \in Procs, NEW fd \in 1 .. NOFILE, NEW v \in 0 .. NFILE,
           NEW f \in 1 .. NFILE, NEW r \in Nat, NEW i \in Pointer,
           FileChange(p, fd, v, f, r, i)
    PROVE  /\ FilesOK' /\ ftable'[f] = [ref |-> r, ip |-> i]
           /\ \A g \in 1 .. NFILE \ {f} : ftable'[g] = ftable[g]
  <1>1. ftable \in [1 .. NFILE -> [ref : Nat, ip : Pointer]]  BY DEF FilesOK
  <1>2. /\ ftable'[f] = [ref |-> r, ip |-> i]
        /\ \A g \in 1 .. NFILE \ {f} : ftable'[g] = ftable[g]
        /\ ftable' \in [1 .. NFILE -> [ref : Nat, ip : Pointer]]
    BY <1>1 DEF FileChange
  <1>3. ofile' \in [Procs -> [1 .. NOFILE -> 0 .. NFILE]]  BY DEF FilesOK, FileChange
  <1>4. ASSUME NEW g \in 1 .. NFILE
        PROVE  ftable'[g].ref = Cardinality(Descriptors(g)') /\ (ftable'[g].ref > 0 => ftable'[g].ip # None)
    <2>1. /\ Cardinality(Descriptors(g)) \in Nat /\ Cardinality(Descriptors(g)') \in Nat
          /\ Cardinality(Descriptors(g)') + Eq(ofile[p][fd], g)
                = Cardinality(Descriptors(g)) + Eq(v, g)
      BY DescriptorChange DEF FileChange
    <2>2. ftable[g].ref = Cardinality(Descriptors(g)) /\ (ftable[g].ref > 0 => ftable[g].ip # None)
      BY DEF FilesOK
    <2>3. Eq(ofile[p][fd], g) \in Nat /\ Eq(v, g) \in Nat  BY DEF Eq
    <2>4. CASE g = f
      <3>1. ftable'[g].ref = r /\ ftable'[g].ip = i  BY <1>2, <2>4
      <3>2. r + Eq(ofile[p][fd], g) = ftable[g].ref + Eq(v, g)  BY <2>4 DEF FileChange
      <3>3. r = Cardinality(Descriptors(g)')  BY <2>1, <2>2, <2>3, <3>2
      <3> QED  BY <3>1, <3>3 DEF FileChange
    <2>5. CASE g # f
      <3>1. Eq(ofile[p][fd], g) = 0 /\ Eq(v, g) = 0  BY <2>5 DEF Eq, None, FileChange
      <3> QED  BY <1>2, <2>1, <2>2, <2>5, <3>1
    <2> QED  BY <2>4, <2>5
  <1> QED  BY <1>2, <1>3, <1>4 DEF FilesOK

LEMMA OpenStep ==
    ASSUME FInv, NEW p \in Procs, Open(p)
    PROVE  FInv'
  <1> DEFINE t == th[p]
             Free == {g \in 1 .. NFILE : ftable[g].ref = 0}
             Unused == {d \in 1 .. NOFILE : ofile[p][d] = None}
             f == Min(Free)
             fd == Min(Unused)
             ok == /\ At(p, "open1") => ~(icache[t.ip].type = "dir" /\ t.call.write)
                   /\ \E g \in 1 .. NFILE : ftable[g].ref = 0
                   /\ \E d \in 1 .. NOFILE : ofile[p][d] = None
  <1>1. /\ t.pc \in {"open1", "open2"} /\ Good(t) /\ Fits(t)
        /\ UNCHANGED <<icache, cwd>> /\ holder' = Unlocked(t.ip)
    BY Now DEF Open, Stopped
  <1>2. /\ Label(t) = t.pc /\ t.ip \in Slots /\ t.cur = None /\ t.dp = None /\ t.put = None
    BY <1>1, PlainIs DEF IpOnly, DpOnly, DpAndIp, Putting
  <1>3. CASE ~ok
    <2>1. /\ th' = [th EXCEPT ![p] = PutIp([t EXCEPT !.ip = None], t.ip, "done")]
          /\ UNCHANGED <<ftable, ofile>>
      BY <1>3 DEF Open, Become
    <2> QED  BY <1>1, <2>1, NotTouched, DropIpStep
  <1>4. CASE ok
    <2>1. /\ ftable' = [ftable EXCEPT ![f] = [ref |-> 1, ip |-> t.ip]]
          /\ ofile' = [ofile EXCEPT ![p][fd] = f]
          /\ th' = [th EXCEPT ![p] = Idle]
      BY <1>4 DEF Open, Become
    <2>2. Free # {} /\ Unused # {} /\ Free \subseteq Nat /\ Unused \subseteq Nat
      BY <1>4, FilesConstants
    <2>3. f \in Free /\ fd \in Unused  BY <2>2, Least
    <2>4. /\ f \in 1 .. NFILE /\ ftable[f].ref = 0
          /\ fd \in 1 .. NOFILE /\ ofile[p][fd] = None
      BY <2>3
    <2> HIDE DEF f, fd
    <2> DEFINE i == t.ip
    <2>5. FilesOK /\ i \in Pointer /\ i # None
      BY <1>2, SlotIsPointer DEF FInv
    <2>6. f \in 0 .. NFILE /\ 1 \in Nat  BY <2>4, FilesConstants
    <2>13. FileChange(p, fd, f, f, 1, i)
      BY <2>1, <2>4, <2>5 DEF FileChange, Eq, None
    <2> HIDE DEF i
    <2>7. /\ FilesOK' /\ ftable'[f] = [ref |-> 1, ip |-> i]
          /\ \A g \in 1 .. NFILE \ {f} : ftable'[g] = ftable[g]
      BY <2>4, <2>5, <2>6, <2>13, FilesKept
    <2> USE DEF i
    <2>8. \A s \in Slots : s # t.ip => ~Holding(t, s)
      BY <1>1 DEF Holding, DpHeld, IpHeld, Putting, Stopped
    <2>9. LocksMove(holder', p, t, Idle)  BY <1>1, <2>8, UnlockMove
    <2> DEFINE d == cwd[p]
    <2>10. /\ d \in Pointer /\ d # None /\ cwd' = [cwd EXCEPT ![p] = d]
           /\ Good(Idle) /\ Label(Idle) # "chdir3"
      <3>1. Label(t) # "chdir3"  BY <1>1, <1>2
      <3> QED  BY <1>1, <3>1, IdleGood DEF FInv, CwdOK
    <2>11. CacheOK(icache')  BY <1>1 DEF FInv
    <2>12. ASSUME NEW s \in Slots
           PROVE  icache'[s].ref + Before(f, p, s) = icache[s].ref + After(f, Idle, d, s)
      <3>1. Weight(t, s) = Eq(t.ip, s) /\ Weight(Idle, s) = 0
        BY <1>2, IdleGood, SlotIsPointer DEF Weight, Eq
      <3>2. FileWeight(ftable, f, s) = 0 /\ FileWeight(ftable', f, s) = Eq(t.ip, s)
        BY <2>4, <2>7 DEF FileWeight, Eq
      <3>3. Eq(t.ip, s) \in Nat /\ Eq(d, s) \in Nat  BY DEF Eq
      <3>4. Before(f, p, s) = After(f, Idle, d, s)  BY <3>1, <3>2, <3>3 DEF Before, After
      <3> QED  BY <1>1, <3>4
    <2>14. /\ th' = [th EXCEPT ![p] = Idle] /\ Good(Idle) /\ f \in 1 .. NFILE /\ d \in Pointer
           /\ d = None <=> Label(Idle) = "chdir3"
           /\ cwd' = [cwd EXCEPT ![p] = d] /\ \A g \in 1 .. NFILE \ {f} : ftable'[g] = ftable[g]
      BY <2>1, <2>4, <2>7, <2>10
    <2> HIDE DEF d
    <2> QED  BY <2>7, <2>9, <2>11, <2>12, <2>14, AnyStep
  <1> QED  BY <1>3, <1>4

\* A process between calls.
LEMMA IdleNow ==
    ASSUME FInv, NEW p \in Procs, At(p, "idle")
    PROVE  /\ Good(th[p]) /\ Label(th[p]) = "idle"
           /\ \A s \in Slots : Weight(th[p], s) = 0 /\ ~Holding(th[p], s)
           /\ cwd[p] \in Pointer /\ cwd[p] # None
           /\ FilesOK /\ CacheOK(icache)
  <1> DEFINE t == th[p]
  <1>1. t.pc = "idle" /\ Good(t) /\ Fits(t)  BY Now DEF At, Stopped
  <1>2. Label(t) = "idle" /\ t.ip = None /\ t.cur = None /\ t.dp = None /\ t.put = None
    BY <1>1, PlainIs DEF Finds, IpOnly, DpOnly, DpAndIp, Putting
  <1>3. \A s \in Slots : Weight(t, s) = 0  BY <1>2, SlotIsPointer DEF Weight, Eq
  <1>4. \A s \in Slots : ~Holding(t, s)  BY <1>1 DEF Holding, DpHeld, IpHeld, Putting, Stopped
  <1>5. cwd[p] \in Pointer /\ cwd[p] # None  BY <1>2 DEF FInv, CwdOK
  <1> QED  BY <1>1, <1>2, <1>3, <1>4, <1>5 DEF FInv

LEMMA CloseStep ==
    ASSUME FInv, NEW p \in Procs, NEW fd \in 1 .. NOFILE, Close(p, fd)
    PROVE  FInv'
  <1> DEFINE t == th[p]
             f == ofile[p][fd]
             n == ftable[f].ref
             d == cwd[p]
  <1>1. /\ At(p, "idle") /\ f # None
        /\ ofile' = [ofile EXCEPT ![p][fd] = None]
        /\ UNCHANGED <<icache, holder, cwd>>
    BY DEF Close, MayCall
  <1>2. /\ Good(t) /\ Label(t) = "idle"
        /\ \A s \in Slots : Weight(t, s) = 0 /\ ~Holding(t, s)
        /\ d \in Pointer /\ d # None /\ FilesOK /\ CacheOK(icache)
    BY <1>1, IdleNow
  <1>3. f \in 1 .. NFILE /\ None \in 0 .. NFILE
    BY <1>1, <1>2, FilesConstants DEF FilesOK, None
  <1>4. n \in Nat /\ n > 0 /\ ftable[f].ip \in Slots
    <2>1. n = Cardinality(Descriptors(f)) /\ (n > 0 => ftable[f].ip # None)
      BY <1>2, <1>3 DEF FilesOK
    <2>2. Cardinality(Descriptors(f)) \in Nat /\ Cardinality(Descriptors(f)) > 0
      BY <1>1, <1>2, <1>3, DescriptorChange
    <2>3. ftable[f].ip \in Pointer  BY <1>2, <1>3 DEF FilesOK
    <2> QED  BY <2>1, <2>2, <2>3, SlotIsPointer
  <1>5. th = [q \in Procs |-> th[q]]  BY DEF FInv, ThreadsOK
  <1>6. /\ cwd' = [cwd EXCEPT ![p] = d] /\ CacheOK(icache')
    BY <1>1, <1>2 DEF FInv, CwdOK
  <1>7. CASE n > 1
    <2> DEFINE i == ftable[f].ip
    <2>1. /\ ftable' = [ftable EXCEPT ![f] = [ref |-> n - 1, ip |-> i]]
          /\ th' = th
      BY <1>7 DEF Close
    <2>2. i \in Pointer /\ i # None  BY <1>4, SlotIsPointer
    <2> HIDE DEF n
    <2>3. n - 1 \in Nat /\ n - 1 + 1 = n  BY <1>4, <1>7
    <2>8. FileChange(p, fd, None, f, n - 1, i)
      <3>1. Eq(f, f) = 1 /\ Eq(None, f) = 0  BY <1>1 DEF Eq
      <3>2. n - 1 + Eq(ofile[p][fd], f) = ftable[f].ref + Eq(None, f)
        BY <1>4, <2>3, <3>1 DEF n
      <3> QED  BY <1>1, <2>1, <2>2, <3>2 DEF FileChange
    <2> HIDE DEF f, i, d
    <2>4. /\ FilesOK' /\ ftable'[f] = [ref |-> n - 1, ip |-> i]
          /\ \A g \in 1 .. NFILE \ {f} : ftable'[g] = ftable[g]
      BY <1>2, <1>3, <2>2, <2>3, <2>8, FilesKept
    <2>5. th' = [th EXCEPT ![p] = t]  BY <1>5, <2>1
    <2>6. LocksMove(holder', p, t, t)  BY <1>1, KeepMove
    <2>7. ASSUME NEW s \in Slots
          PROVE  icache'[s].ref + Before(f, p, s) = icache[s].ref + After(f, t, d, s)
      <3>1. FileWeight(ftable', f, s) = FileWeight(ftable, f, s)
        BY <1>4, <1>7, <2>4 DEF FileWeight, n, i
      <3> QED  BY <1>1, <3>1 DEF Before, After, d
    <2> QED  BY <1>2, <1>3, <1>6, <2>4, <2>5, <2>6, <2>7, AnyStep
  <1>8. CASE ~(n > 1)
    <2> DEFINE i == ftable[f].ip
               u == PutIp(Idle, i, "done")
    <2>1. /\ ftable' = [ftable EXCEPT ![f] = [ref |-> 0, ip |-> None]]
          /\ th' = [th EXCEPT ![p] = u]
      BY <1>8 DEF Close, Become
    <2>2. n = 1  BY <1>4, <1>8
    <2>3. FileChange(p, fd, None, f, 0, None)
      BY <1>1, <2>1, <2>2 DEF FileChange, Eq
    <2>11. 0 \in Nat /\ None \in Pointer  BY SlotIsPointer
    <2> HIDE DEF f, n, i, d
    <2>4. /\ FilesOK' /\ ftable'[f] = [ref |-> 0, ip |-> None]
          /\ \A g \in 1 .. NFILE \ {f} : ftable'[g] = ftable[g]
      BY <1>2, <1>3, <2>3, <2>11, FilesKept
    <2>5. /\ Locals(u) /\ u.pc = "iput" /\ u.pret = "done" /\ u.put = i
          /\ u.cur = None /\ u.dp = None /\ u.ip = None
      BY IdleIs, PutIpIs
    <2>6. i \in Slots  BY <1>4 DEF i
    <2> HIDE DEF u
    <2>7. Good(u)
      BY <2>5, <2>6, SlotIsPointer
      DEF Good, Fits, Label, Finds, DpOnly, IpOnly, DpAndIp, PutRets, LockRets, Putting, Stopped
    <2>8. Label(u) # "chdir3"  BY <2>5 DEF Label, Putting
    <2>9. LocksMove(holder', p, t, u)  BY <1>1, <1>2, KeepMove
    <2>10. ASSUME NEW s \in Slots
           PROVE  icache'[s].ref + Before(f, p, s) = icache[s].ref + After(f, u, d, s)
      <3>1. FileWeight(ftable', f, s) = 0 /\ FileWeight(ftable, f, s) = Eq(i, s)
        BY <1>4, <2>4 DEF FileWeight, Eq, n, i
      <3>2. Weight(t, s) = 0 /\ Weight(u, s) = Eq(i, s)
        BY <1>2, <2>5, SlotIsPointer DEF Weight, Eq
      <3>3. Eq(i, s) \in Nat /\ Eq(d, s) \in Nat  BY DEF Eq
      <3>4. Before(f, p, s) = After(f, u, d, s)  BY <3>1, <3>2, <3>3 DEF Before, After, d
      <3> QED  BY <1>1, <3>4
    <2> QED  BY <1>2, <1>3, <1>6, <2>1, <2>4, <2>7, <2>8, <2>9, <2>10, AnyStep
  <1> QED  BY <1>7, <1>8

LEMMA DupStep ==
    ASSUME FInv, NEW p \in Procs, NEW fd \in 1 .. NOFILE, Dup(p, fd)
    PROVE  FInv'
  <1> DEFINE t == th[p]
             Unused == {k \in 1 .. NOFILE : ofile[p][k] = None}
             f == ofile[p][fd]
             new == Min(Unused)
             n == ftable[f].ref
             i == ftable[f].ip
             d == cwd[p]
  <1>1. /\ At(p, "idle") /\ f # None /\ Unused # {}
        /\ ofile' = [ofile EXCEPT ![p][new] = f]
        /\ UNCHANGED <<icache, holder, cwd, th>>
    BY DEF Dup, MayCall
  <1>2. /\ Good(t) /\ Label(t) = "idle"
        /\ \A s \in Slots : Weight(t, s) = 0 /\ ~Holding(t, s)
        /\ d \in Pointer /\ d # None /\ FilesOK /\ CacheOK(icache)
    BY <1>1, IdleNow
  <1>3. f \in 1 .. NFILE /\ f \in 0 .. NFILE
    BY <1>1, <1>2, FilesConstants DEF FilesOK, None
  <1>4. new \in 1 .. NOFILE /\ ofile[p][new] = None
    <2>1. Unused \subseteq Nat  BY FilesConstants
    <2>2. new \in Unused  BY <1>1, <2>1, Least
    <2> QED  BY <2>2
  <1>5. n \in Nat /\ n > 0 /\ i \in Pointer /\ i # None
    <2>1. n = Cardinality(Descriptors(f)) /\ (n > 0 => i # None) /\ n \in Nat /\ i \in Pointer
      BY <1>2, <1>3 DEF FilesOK
    <2>2. Cardinality(Descriptors(f)) > 0
      <3>3. IsFiniteSet(Descriptors(f))  BY DescriptorsFinite
      <3>4. <<p, fd>> \in Descriptors(f)  BY DEF Descriptors
      <3>5. Descriptors(f) # {}  BY <3>4
      <3> QED  BY <2>1, <3>3, <3>5, FS_EmptySet
    <2> QED  BY <2>1, <2>2
  <1>6. ftable' = [ftable EXCEPT ![f] = [ref |-> n + 1, ip |-> i]]
    BY <1>1 DEF Dup
  <1>7. /\ cwd' = [cwd EXCEPT ![p] = d] /\ CacheOK(icache')
    BY <1>1, <1>2 DEF FInv, CwdOK
  <1>8. th = [q \in Procs |-> th[q]]  BY DEF FInv, ThreadsOK
  <1> HIDE DEF new, n
  <1>9. n + 1 \in Nat  BY <1>5
  <1>14. FileChange(p, new, f, f, n + 1, i)
    <2>1. Eq(f, f) = 1 /\ Eq(None, f) = 0  BY <1>1 DEF Eq
    <2>2. n + 1 + Eq(ofile[p][new], f) = ftable[f].ref + Eq(f, f)
      BY <1>4, <1>5, <2>1 DEF n
    <2> QED  BY <1>1, <1>4, <1>5, <1>6, <2>2 DEF FileChange
  <1> HIDE DEF f, i, d
  <1>10. /\ FilesOK' /\ ftable'[f] = [ref |-> n + 1, ip |-> i]
         /\ \A g \in 1 .. NFILE \ {f} : ftable'[g] = ftable[g]
    BY <1>2, <1>3, <1>4, <1>5, <1>9, <1>14, FilesKept
  <1>11. th' = [th EXCEPT ![p] = t]  BY <1>1, <1>8
  <1>12. LocksMove(holder', p, t, t)  BY <1>1, KeepMove
  <1>13. ASSUME NEW s \in Slots
         PROVE  icache'[s].ref + Before(f, p, s) = icache[s].ref + After(f, t, d, s)
    <2>1. FileWeight(ftable', f, s) = FileWeight(ftable, f, s)
      BY <1>5, <1>10 DEF FileWeight, n, i
    <2> QED  BY <1>1, <2>1 DEF Before, After, d
  <1> QED  BY <1>2, <1>3, <1>7, <1>10, <1>11, <1>12, <1>13, AnyStep
-----------------------------------------------------------------------------
(* The invariant *)
LEMMA FInit == Init => FInv
  <1> SUFFICES ASSUME Init PROVE FInv
    OBVIOUS
  <1>0. /\ 1 \in Slots /\ 1 \in Pointer /\ 1 # None /\ None \in Pointer
        /\ None \notin Slots
    BY SlotIsPointer, FilesConstants DEF Slots, Pointer, None
  <1>1. IsFiniteSet(Procs) /\ Cardinality(Procs) \in Nat
    BY FilesProcs, FS_CardinalityType
  <1>2. \A s \in Slots : icache[s].ref = IF s = 1 THEN Cardinality(Procs) ELSE 0
    BY DEF Init
  <1>3. CacheOK(icache)
    <2>1. icache = [s \in Slots |-> icache[s]]  BY DEF Init
    <2>2. \A s \in Slots : Entry(icache[s])  BY <1>1 DEF Init, Entry, EntryFields
    <2>3. \A s \in Slots : icache[s].ref > 0 => s = 1  BY <1>2
    <2> QED  BY <2>1, <2>2, <2>3 DEF CacheOK
  <1>4. th = [p \in Procs |-> Idle]  BY DEF Init
  <1>5. ThreadsOK  BY <1>4, IdleGood DEF ThreadsOK
  <1>6. CwdOK
    <2>1. cwd = [p \in Procs |-> 1]  BY DEF Init
    <2>2. \A p \in Procs : Label(th[p]) = "idle"  BY <1>4, IdleGood
    <2> QED  BY <1>0, <2>1, <2>2 DEF CwdOK
  <1>7. LocksOK
    <2>1. holder = [s \in Slots |-> None]  BY DEF Init
    <2> QED  BY <2>1 DEF LocksOK
  <1>8. FilesOK
    <2>1. /\ ftable = [f \in 1 .. NFILE |-> [ref |-> 0, ip |-> None]]
          /\ ofile = [p \in Procs |-> [fd \in 1 .. NOFILE |-> None]]
      BY DEF Init
    <2>2. ofile \in [Procs -> [1 .. NOFILE -> 0 .. NFILE]]
      BY <2>1, FilesConstants DEF None
    <2>3. ftable \in [1 .. NFILE -> [ref : Nat, ip : Pointer]]  BY <1>0, <2>1
    <2>4. \A f \in 1 .. NFILE : ftable[f].ref = 0  BY <2>1
    <2>5. ASSUME NEW f \in 1 .. NFILE PROVE Cardinality(Descriptors(f)) = 0
      <3>1. Descriptors(f) = {}  BY <2>1 DEF Descriptors, None
      <3> QED  BY <3>1, FS_EmptySet
    <2> QED  BY <2>2, <2>3, <2>4, <2>5 DEF FilesOK
  <1>9. ASSUME NEW s \in Slots PROVE icache[s].ref = Cardinality(Pointers(s))
    <2> DEFINE F == {g \in 1 .. NFILE : ftable[g].ref > 0 /\ ftable[g].ip = s}
               C == {q \in Procs : cwd[q] = s}
    <2>1. F = {}  BY DEF Init
    <2>2. /\ {q \in Procs : th[q].cur = s} = {} /\ {q \in Procs : th[q].dp = s} = {}
          /\ {q \in Procs : th[q].ip = s} = {} /\ {q \in Procs : th[q].put = s} = {}
      BY <1>0, <1>4, IdleIs
    <2>3. Pointers(s) = {<<"cwd", q>> : q \in C}
      BY <2>1, <2>2 DEF Pointers
    <2>4. CASE s = 1
      <3>1. C = Procs  BY <2>4 DEF Init
      <3> DEFINE S == {<<"cwd", q>> : q \in Procs}
                 h == [q \in Procs |-> <<"cwd", q>>]
      <3>2. h \in Bijection(Procs, S)
        BY DEF Bijection, Injection, Surjection, IsInjective
      <3> HIDE DEF h
      <3>4. ExistsBijection(Procs, S)  BY <3>2 DEF ExistsBijection
      <3> HIDE DEF S
      <3>3. Cardinality(S) = Cardinality(Procs)  BY <1>1, <3>4, FS_Bijection
      <3>5. Pointers(s) = S  BY <2>3, <3>1 DEF S
      <3> QED  BY <1>2, <2>4, <3>3, <3>5
    <2>5. CASE s # 1
      <3>1. C = {}  BY <2>5 DEF Init
      <3>2. Pointers(s) = {}  BY <2>3, <3>1
      <3> QED  BY <1>2, <2>5, <3>2, FS_EmptySet
    <2> QED  BY <2>4, <2>5
  <1> QED  BY <1>3, <1>5, <1>6, <1>7, <1>8, <1>9 DEF FInv, Counted

LEMMA FNext == FInv /\ [Next]_vars => FInv'
  <1> SUFFICES ASSUME FInv, [Next]_vars PROVE FInv'
    OBVIOUS
  <1>1. CASE UNCHANGED vars
    <2>1. UNCHANGED <<icache, th, cwd, holder, ftable, ofile>>  BY <1>1 DEF vars
    <2>2. CacheOK(icache') /\ ThreadsOK' /\ CwdOK' /\ LocksOK'
      BY <2>1 DEF FInv, ThreadsOK, CwdOK, LocksOK
    <2>3. FilesOK'  BY <2>1 DEF FInv, FilesOK, Descriptors
    <2>4. Counted'  BY <2>1 DEF FInv, Counted, Pointers
    <2> QED  BY <2>2, <2>3, <2>4 DEF FInv
  <1>2. ASSUME NEW p \in Procs, Step(p) PROVE FInv'
    <2>1. CASE Lookup(p)
      BY <2>1, NamexStep, NamexLookStep, IgetPanicStep DEF Lookup
    <2>2. CASE Inode(p)
      BY <2>2, IlockStep, IputStep, IputFreeStep, IputDoneStep DEF Inode
    <2>3. CASE Create(p)
      BY <2>3, CreateLookupStep, CreateExistingStep, IallocStep, CreateGetStep, CreateLinkStep,
         MadeStep DEF Create
    <2>4. CASE LinkCall(p)
      BY <2>4, LinkStep, LinkEntryStep, LinkTakenStep, LinkBadStep DEF LinkCall
    <2>5. CASE UnlinkCall(p)
      BY <2>5, UnlinkLookupStep, UnlinkEntryStep, UnlinkCountStep, UnlinkBadStep DEF UnlinkCall
    <2>6. CASE Open(p)  BY <2>6, OpenStep
    <2>7. CASE Chdir(p)  BY <2>7, ChdirStep
    <2>8. CASE ChdirDone(p)  BY <2>8, ChdirDoneStep
    <2> QED  BY <1>2, <2>1, <2>2, <2>3, <2>4, <2>5, <2>6, <2>7, <2>8 DEF Step
  <1>3. ASSUME NEW p \in Procs, NEW c \in calls, Call(p, c) PROVE FInv'
    BY <1>3, CallStarts
  <1>4. ASSUME NEW p \in Procs, NEW fd \in 1 .. NOFILE, Close(p, fd) \/ Dup(p, fd) PROVE FInv'
    BY <1>4, CloseStep, DupStep
  <1> QED  BY <1>1, <1>2, <1>3, <1>4 DEF Next

LEMMA FRefs == FInv => RefsExact
  <1> SUFFICES ASSUME FInv PROVE RefsExact
    OBVIOUS
  <1>1. ASSUME NEW i PROVE Cardinality(Hits(i)) <= 1
    <2>1. CASE Hits(i) = {}  BY <2>1, FS_EmptySet
    <2>2. CASE Hits(i) # {}
      <3>1. PICK x : x \in Hits(i)  BY <2>2
      <3>2. Hits(i) = {x}  BY <3>1 DEF Hits, FInv, CacheOK
      <3>3. Cardinality({x}) = 1  BY FS_Singleton
      <3> QED  BY <3>2, <3>3
    <2> QED  BY <2>1, <2>2
  <1>2. ASSUME NEW s \in Slots, holder[s] # None PROVE ~At(holder[s], "idle")
    <2>1. holder[s] \in Procs /\ Holding(th[holder[s]], s)  BY <1>2 DEF FInv, LocksOK
    <2> QED  BY <2>1 DEF At, Holding, DpHeld, IpHeld, Putting, Stopped
  <1> QED  BY <1>1, <1>2 DEF RefsExact, FInv, Counted

\* The cache, the calls in progress, the current directories, the locks and
\* the file table of fs.c, file.c and sysfile.c stay consistent, and every
\* ip->ref counts the pointers there are.
THEOREM FilesInvariance == Spec => []FInv
  <1> QED  BY FInit, FNext, PTL DEF Spec

\* ip->ref is the number of open files, current directories and local
\* variables that point to the entry, iget gives no inode two entries, and no
\* lock is held by a call that is over (fs.c, iget, idup, iput and iunlock).
THEOREM FilesReferences == Spec => []RefsExact
  <1> QED  BY FilesInvariance, FRefs, PTL
=============================================================================
