------------------------------ MODULE LogProofs ------------------------------
(***************************************************************************)
(* Proofs about the log, for any number of processes, blocks and values.   *)
(* Who may be where (Calls), and so which panic is reached, holds for any  *)
(* sizes; how full the log can be (Reserve) when no call writes more than  *)
(* begin_op reserves for it (Reserved); how the buffer cache, the log      *)
(* blocks and the home blocks are related in every phase of a commit and   *)
(* of recovery (Contents) under LogBudget, where no panic cuts a call off. *)
(***************************************************************************)
EXTENDS Log, FiniteSetTheorems, TLAPS

Active == {p \in Procs : pc[p] \in InOp}

Distinct(s) == \A i, j \in DOMAIN s : s[i] = s[j] => i = j

\* The types of the variables of log.c and of its callers.
LogTypes ==
    /\ head \in Seq(Blocks) /\ lh \in Seq(Blocks)
    /\ outstanding \in Nat /\ committing \in BOOLEAN /\ tail \in Nat \ {0}
    /\ pc \in [Procs -> {"idle", "begin", "sleeping"} \cup InOp \cup InCommit]
    /\ cur \in [Procs -> Blocks \cup {NoBlock}]
    /\ wrote \in [Procs -> SUBSET Blocks]
    /\ sys \in {"recover", "replay", "up", "panic"}

\* A panic is "too big a transaction": somebody is in log_write, the log full.
PanicWhenFull ==
    sys = "panic" => \E p \in Procs :
        /\ pc[p] = "check" /\ cur[p] \in Blocks /\ outstanding >= 1
        /\ Len(lh) >= LOGSIZE \/ Len(lh) >= NLOG - 1

\* Who is where: the calls counted, one committer, nobody before "up".
Calls ==
    /\ outstanding = Cardinality(Active)
    /\ committing => Active = {}
    /\ \A p \in Procs : pc[p] \in InCommit => committing
    /\ \A p, q \in Procs : pc[p] \in InCommit /\ pc[q] \in InCommit => p = q
    /\ \A p \in Procs : cur[p] # NoBlock <=> pc[p] \in {"check", "append"}
    /\ sys \in {"recover", "replay"} => ~committing /\ \A p \in Procs : pc[p] = "idle"
    /\ PanicWhenFull

\* The same where no panic is reached.
Control ==
    /\ NoPanic
    /\ outstanding = Cardinality(Active)
    /\ committing => Active = {}
    /\ \A p \in Procs : pc[p] \in InCommit => committing
    /\ \A p, q \in Procs : pc[p] \in InCommit /\ pc[q] \in InCommit => p = q
    /\ \A p \in Procs : cur[p] # NoBlock <=> pc[p] \in {"check", "append"}
    /\ sys # "up" => ~committing /\ \A p \in Procs : pc[p] = "idle"

\* How full the log can be, in memory and on disk.
Reserve ==
    /\ \A p \in Procs : pc[p] \in InOp =>
          /\ IsFiniteSet(wrote[p]) /\ Cardinality(wrote[p]) <= OpBlocks
          /\ \A b \in wrote[p] : In(b, lh)
    /\ \A p \in Procs : pc[p] \in {"check", "append"} =>
          cur[p] \in wrote[p] \/ Cardinality(wrote[p]) < OpBlocks
    /\ ReservationFits
    /\ head # <<>> => Len(head) + (MAXOPBLOCKS - OpBlocks) <= LOGSIZE

\* While the system is up.
UpContents ==
    /\ \A b \in dirty : In(b, lh) /\ cache[b] # NoBuf
    /\ \A b \in Blocks : \/ cache[b] \in {NoBuf, home[b]} \/ b \in dirty
                         \/ \E p \in Procs : cur[p] = b
    /\ \A p \in Procs : cur[p] # NoBlock => cache[cur[p]] # NoBuf
    /\ head # <<>> => \E p \in Procs : pc[p] = "install"
    /\ \A p \in Procs : pc[p] = "wlog" =>
          \A i \in DOMAIN lh : i < tail => logblk[i] = BufData(lh[i])
    /\ \A p \in Procs : pc[p] = "install" =>
          /\ head = lh
          /\ \A i \in DOMAIN lh : logblk[i] = BufData(lh[i])
          /\ \A i \in DOMAIN lh : i < tail => lh[i] \notin dirty
    /\ \A p \in Procs : pc[p] = "done" => lh = <<>>

\* While initlog replays the log that it read.
ReplayContents ==
    /\ lh = head /\ dirty = {}
    /\ \A b \in Blocks : cache[b] \in {NoBuf, home[b]}
    /\ \A i \in DOMAIN lh : i < tail => home[lh[i]] = logblk[i]

Contents ==
    /\ Distinct(lh) /\ Distinct(head)
    /\ sys = "up" => UpContents
    /\ sys = "replay" => ReplayContents
    /\ sys = "recover" => /\ lh = <<>> /\ dirty = {} /\ tail = 1
                          /\ \A b \in Blocks : cache[b] = NoBuf

\* The inductive invariants: for any sizes, for calls that keep to what
\* begin_op reserves, and within the budget.
CallInv == LogTypes /\ Calls
RoomInv == CallInv /\ Reserve
IInv == TypeOK /\ Control /\ Reserve /\ Contents
-----------------------------------------------------------------------------
(* The variables of log.c and of its callers keep their types.             *)

LEMMA Within ==
    ASSUME IInv
    PROVE  RoomInv /\ sys # "panic"
BY DEF IInv, RoomInv, CallInv, TypeOK, LogTypes, Control, Calls, PanicWhenFull, NoPanic

LEMMA ActiveFinite ==
    IsFiniteSet(Active) /\ Cardinality(Active) \in Nat
BY LogConstants, FS_Subset, FS_CardinalityType DEF Active

LEMMA LogTypesStep ==
    ASSUME CallInv, [Next]_vars
    PROVE  LogTypes'
<1> USE LogConstants DEF CallInv, LogTypes, InOp, InCommit
<1>2. ASSUME NEW p \in Procs, Call(p) \/ Begin(p)
      PROVE  LogTypes'
  <2>1. CASE Call(p) \/ BeginSleep(p)
    BY <2>1 DEF Call, BeginSleep, diskVars, logVars
  <2>2. CASE BeginOp(p)
    BY <2>2 DEF BeginOp, diskVars
  <2> QED
    BY <1>2, <2>1, <2>2 DEF Begin
<1>3. ASSUME NEW p \in Procs, Log_write(p)
      PROVE  LogTypes'
  <2>1. CASE LogWriteCheck(p)
    BY <2>1 DEF LogWriteCheck, diskVars, logVars
  <2>2. CASE LogWriteAppend(p)
    <3>1. cur[p] \in Blocks
      BY <2>2 DEF LogWriteAppend, Calls
    <3>2. lh' \in Seq(Blocks)
      BY <2>2, <3>1 DEF LogWriteAppend
    <3> QED
      BY <2>2, <3>1, <3>2 DEF LogWriteAppend, diskVars
  <2> QED
    BY <1>3, <2>1, <2>2 DEF Log_write
<1>4. ASSUME NEW p \in Procs, EndOp(p)
      PROVE  LogTypes'
  <2>1. IsFiniteSet(Active) /\ p \in Active
    BY <1>4, FS_Subset DEF Active, EndOp
  <2>2. outstanding # 0
    BY <2>1, FS_EmptySet DEF Calls
  <2>3. outstanding' \in Nat /\ tail' \in Nat \ {0}
    BY <1>4, <2>2 DEF EndOp
  <2>5. committing' \in BOOLEAN
    BY <1>4, Zenon DEF EndOp
  <2>4. pc' \in [Procs -> {"idle", "begin", "sleeping"} \cup InOp \cup InCommit]
    <3>1. CASE outstanding = 1
      BY <1>4, <3>1 DEF EndOp
    <3>2. CASE outstanding # 1
      BY <1>4, <3>2 DEF EndOp, Woken
    <3> QED
      BY <3>1, <3>2
  <2> QED
    BY <1>4, <2>3, <2>4, <2>5 DEF EndOp, diskVars
<1>5. ASSUME NEW p \in Procs, WriteLog(p) \/ WriteHead(p) \/ Erase(p) \/ EndCommit(p)
      PROVE  LogTypes'
  <2>1. CASE WriteLog(p)
    BY <2>1 DEF WriteLog, procVars
  <2>2. CASE WriteHead(p)
    BY <2>2 DEF WriteHead
  <2>3. CASE Erase(p)
    BY <2>3 DEF Erase, EraseLog
  <2>4. CASE EndCommit(p)
    BY <2>4 DEF EndCommit, Woken, diskVars
  <2> QED
    BY <1>5, <2>1, <2>2, <2>3, <2>4
<1>6. ASSUME NEW p \in Procs, NEW b \in Blocks, NEW v \in Values, Modify(p, b, v)
      PROVE  LogTypes'
  BY <1>6 DEF Modify, diskVars, logVars
<1>7. ASSUME NEW b \in Blocks, Bread(b) \/ Evict(b)
      PROVE  LogTypes'
  BY <1>7 DEF Bread, Evict, diskVars, logVars, procVars
<1>8. CASE ReadHead
  BY <1>8 DEF ReadHead, diskVars, procVars
<1>9. CASE RecoverErase
  BY <1>9 DEF RecoverErase, EraseLog
<1>10. CASE InstallTrans /\ sys' = sys
  BY <1>10 DEF InstallTrans, procVars
<1>11. CASE Crash
  <2>1. pc' \in [Procs -> {"idle", "begin", "sleeping"} \cup InOp \cup InCommit]
    BY <1>11 DEF Crash, Reset
  <2>2. cur' \in [Procs -> Blocks \cup {NoBlock}] /\ wrote' \in [Procs -> SUBSET Blocks]
    BY <1>11 DEF Crash, Reset
  <2>3. lh' \in Seq(Blocks) /\ head' \in Seq(Blocks)
    BY <1>11 DEF Crash, Reset, diskVars
  <2>4. outstanding' \in Nat /\ tail' \in Nat \ {0}
    BY <1>11 DEF Crash, Reset
  <2>5. committing' \in BOOLEAN
    BY <1>11, Zenon DEF Crash, Reset
  <2> QED
    BY <1>11, <2>1, <2>2, <2>3, <2>4, <2>5, Zenon DEF Crash
<1>12. CASE UNCHANGED vars
  BY <1>12 DEF vars, diskVars, logVars, procVars
<1> QED
  BY <1>2, <1>3, <1>4, <1>5, <1>6, <1>7, <1>8, <1>9, <1>10, <1>11, <1>12
  DEF Next, Running, Commit, Install, Recover, RecoverInstall, InstallTrans

-----------------------------------------------------------------------------
(* Calls: the committer is alone, and a panic means that the log is full.  *)

LEMMA CallsStep ==
    ASSUME CallInv, [Next]_vars
    PROVE  Calls'
<1> USE LogConstants DEF InOp, InCommit
<1>0. LogTypes /\ Calls
  BY DEF CallInv
<1>1. ASSUME NEW p \in Procs, Call(p) \/ BeginSleep(p)
      PROVE  Calls'
  <2>1. Active' = Active
    BY <1>0, <1>1 DEF LogTypes, Active, Call, BeginSleep
  <2> QED
    <3>1. UNCHANGED <<cur, outstanding, committing, sys>>
      BY <1>1 DEF Call, BeginSleep, logVars
    <3>2. /\ sys = "up" /\ pc[p] \in {"idle", "begin"}
          /\ \A q \in Procs \ {p} : pc'[q] = pc[q]
          /\ pc'[p] \in {"begin", "sleeping"}
      BY <1>0, <1>1 DEF LogTypes, Call, BeginSleep
    <3> QED
      BY <1>0, <2>1, <3>1, <3>2 DEF LogTypes, Calls, PanicWhenFull
<1>2. ASSUME NEW p \in Procs, BeginOp(p)
      PROVE  Calls'
  <2>1. Active' = Active \cup {p} /\ p \notin Active
    BY <1>0, <1>2 DEF LogTypes, Active, BeginOp
  <2>2. Cardinality(Active') = Cardinality(Active) + 1
    BY <2>1, ActiveFinite, FS_AddElement
  <2>3. outstanding' = Cardinality(Active')
    BY <1>0, <1>2, <2>2 DEF Calls, BeginOp
  <2> QED
    BY <1>0, <1>2, <2>3 DEF LogTypes, Calls, PanicWhenFull, BeginOp
<1>3. ASSUME NEW p \in Procs, NEW b \in Blocks, NEW v \in Values, Modify(p, b, v)
      PROVE  Calls'
  <2>1. Active' = Active
    BY <1>0, <1>3 DEF LogTypes, Active, Modify
  <2> QED
    BY <1>0, <1>3, <2>1 DEF LogTypes, Calls, PanicWhenFull, Modify, logVars
<1>4. ASSUME NEW p \in Procs, LogWriteCheck(p)
      PROVE  Calls'
  <2>1. p \in Active /\ cur[p] \in Blocks /\ outstanding >= 1
    <3>1. p \in Active /\ cur[p] \in Blocks
      BY <1>0, <1>4 DEF LogTypes, Calls, PanicWhenFull, Active, LogWriteCheck
    <3> QED
      BY <1>0, <3>1, ActiveFinite, FS_EmptySet DEF Calls, LogTypes
  <2>2. /\ sys = "up" /\ pc[p] = "check"
        /\ UNCHANGED <<lh, cur, outstanding, committing>>
    BY <1>4 DEF LogWriteCheck, logVars
  <2>3. CASE Len(lh) >= LOGSIZE \/ Len(lh) >= NLOG - 1
    <3>1. sys' = "panic" /\ pc' = pc
      BY <1>4, <2>3 DEF LogWriteCheck
    <3>2. Active' = Active
      BY <3>1 DEF Active
    <3>3. PanicWhenFull'
      BY <2>1, <2>2, <2>3, <3>1 DEF PanicWhenFull
    <3> QED
      BY <1>0, <2>2, <3>1, <3>2, <3>3 DEF Calls
  <2>4. CASE ~(Len(lh) >= LOGSIZE \/ Len(lh) >= NLOG - 1)
    <3>1. pc' = [pc EXCEPT ![p] = "append"] /\ sys' = sys
      BY <1>0, <1>4, <2>1, <2>4 DEF LogWriteCheck, LogTypes
    <3>2. Active' = Active
      BY <1>0, <2>2, <3>1 DEF LogTypes, Active
    <3>3. PanicWhenFull'
      BY <2>2, <3>1 DEF PanicWhenFull
    <3> QED
      BY <1>0, <2>2, <3>1, <3>2, <3>3 DEF LogTypes, Calls, PanicWhenFull
  <2> QED
    BY <2>3, <2>4
<1>5. ASSUME NEW p \in Procs, LogWriteAppend(p)
      PROVE  Calls'
  <2>1. Active' = Active
    BY <1>0, <1>5 DEF LogTypes, Active, LogWriteAppend
  <2> QED
    BY <1>0, <1>5, <2>1 DEF LogTypes, Calls, PanicWhenFull, LogWriteAppend
<1>6. ASSUME NEW p \in Procs, EndOp(p)
      PROVE  Calls'
  <2>1. p \in Active /\ Active' = Active \ {p}
    <3>1. CASE outstanding = 1
      BY <1>0, <1>6, <3>1 DEF LogTypes, Active, EndOp
    <3>2. CASE outstanding # 1
      BY <1>0, <1>6, <3>2 DEF LogTypes, Active, EndOp, Woken
    <3> QED
      BY <3>1, <3>2
  <2>2. Cardinality(Active') = Cardinality(Active) - 1
    BY <2>1, ActiveFinite, FS_RemoveElement
  <2>3. outstanding' = Cardinality(Active')
    BY <1>0, <1>6, <2>2 DEF Calls, EndOp
  <2>4. ~committing /\ \A q \in Procs : pc[q] \notin InCommit
    BY <1>0, <2>1 DEF Calls
  <2>5. CASE outstanding = 1
    <3>1. Active' = {}
      BY <1>6, <2>1, <2>3, <2>5, ActiveFinite, FS_Subset, FS_EmptySet DEF EndOp
    <3> QED
      BY <1>0, <1>6, <2>3, <2>4, <2>5, <3>1 DEF LogTypes, Calls, PanicWhenFull, EndOp
  <2>6. CASE outstanding # 1
    <3>1. UNCHANGED <<cur, committing, sys>>
      BY <1>6, <2>4, <2>6 DEF EndOp
    <3>2. /\ sys = "up" /\ pc[p] = "op" /\ pc'[p] = "idle"
          /\ \A q \in Procs \ {p} :
                \/ pc'[q] = pc[q]
                \/ pc[q] = "sleeping" /\ pc'[q] = "begin"
      BY <1>0, <1>6, <2>6 DEF LogTypes, EndOp, Woken
    <3> QED
      BY <1>0, <2>3, <2>4, <3>1, <3>2 DEF LogTypes, Calls, PanicWhenFull
  <2> QED
    BY <2>5, <2>6
<1>7. ASSUME UNCHANGED <<pc, cur, outstanding, committing>>,
             sys' \in {sys, "replay", "up"}, sys = "up" => sys' = "up", sys # "panic"
      PROVE  Calls'
  <2>1. Active' = Active
    BY <1>7 DEF Active
  <2> QED
    BY <1>0, <1>7, <2>1 DEF LogTypes, Calls, PanicWhenFull
<1>8. ASSUME NEW p \in Procs, WriteHead(p) \/ Erase(p)
      PROVE  Calls'
  <2>1. pc[p] \in InCommit /\ pc' \in {[pc EXCEPT ![p] = "install"], [pc EXCEPT ![p] = "done"]}
    BY <1>8 DEF WriteHead, Erase
  <2>2. Active' = Active
    BY <1>0, <2>1 DEF LogTypes, Active
  <2>3. sys = "up" /\ UNCHANGED <<cur, outstanding, committing, sys>>
    BY <1>8 DEF WriteHead, Erase, EraseLog
  <2> QED
    BY <1>0, <2>1, <2>2, <2>3 DEF LogTypes, Calls, PanicWhenFull
<1>9. ASSUME NEW p \in Procs, EndCommit(p)
      PROVE  Calls'
  <2>1. Active' = Active
    BY <1>0, <1>9 DEF LogTypes, Active, EndCommit, Woken
  <2> QED
    BY <1>0, <1>9, <2>1 DEF LogTypes, Calls, PanicWhenFull, EndCommit, Woken
<1>10. CASE Crash
  <2>1. Active' = {}
    BY <1>10 DEF Active, Crash, Reset
  <2> QED
    BY <1>10, <2>1, FS_EmptySet DEF Calls, PanicWhenFull, Crash, Reset
<1>11. ASSUME NEW p \in Procs, WriteLog(p) \/ Install(p)
       PROVE  Calls'
  BY <1>7, <1>11 DEF WriteLog, Install, InstallTrans, procVars
<1>12. ASSUME NEW b \in Blocks, Bread(b) \/ Evict(b)
       PROVE  Calls'
  BY <1>7, <1>12 DEF Bread, Evict, procVars, logVars
<1>13. CASE Recover
  BY <1>7, <1>13 DEF Recover, ReadHead, RecoverInstall, RecoverErase,
                     InstallTrans, EraseLog, procVars
<1>14. CASE UNCHANGED vars
  <2>1. Active' = Active
    BY <1>14 DEF vars, procVars, Active
  <2> QED
    BY <1>0, <1>14, <2>1 DEF vars, procVars, logVars, Calls, PanicWhenFull
<1> QED
  BY <1>1, <1>2, <1>3, <1>4, <1>5, <1>6, <1>8, <1>9, <1>10, <1>11, <1>12,
     <1>13, <1>14
  DEF Next, Running, Begin, Log_write, Commit


LEMMA InitCalls ==
    ASSUME Init
    PROVE  CallInv
<1>1. Active = {}
  BY DEF Init, Active, InOp
<1>2. LogTypes
  <2>1. lh \in Seq(Blocks) /\ head \in Seq(Blocks)
    BY DEF Init
  <2>2. /\ pc \in [Procs -> {"idle", "begin", "sleeping"} \cup InOp \cup InCommit]
        /\ cur \in [Procs -> Blocks \cup {NoBlock}]
        /\ wrote \in [Procs -> SUBSET Blocks]
    BY DEF Init
  <2>3. outstanding \in Nat /\ tail \in Nat \ {0}
    BY DEF Init
  <2>4. committing \in BOOLEAN
    BY Zenon DEF Init
  <2> QED
    BY <2>1, <2>2, <2>3, <2>4, Zenon DEF Init, LogTypes
<1>3. Calls
  BY <1>1, FS_EmptySet DEF Init, Calls, PanicWhenFull, InCommit
<1> QED
  BY <1>2, <1>3 DEF CallInv

\* Whatever the calls write and however many run, the only panic of the log is
\* "too big a transaction", reached in log_write with the log full: "log_write
\* outside of trans" and end_op's "log.committing" are not.
THEOREM OnlyTooBig ==
    Spec => []PanicWhenFull
<1>1. Init => CallInv
  BY InitCalls
<1>2. CallInv /\ [Next]_vars => CallInv'
  BY LogTypesStep, CallsStep DEF CallInv
<1>3. CallInv => PanicWhenFull
  BY DEF CallInv, Calls
<1> QED
  BY <1>1, <1>2, <1>3, PTL DEF Spec

-----------------------------------------------------------------------------
(* Reserve: what begin_op admits fits, if no call writes more than that.   *)

LEMMA UnusedFinite ==
    IsFiniteSet(Unused) /\ Cardinality(Unused) \in Nat
<1>1. IsFiniteSet(1 .. OpBlocks)
  BY LogConstants, FS_Interval
<1>2. IsFiniteSet(Procs \X (1 .. OpBlocks))
  BY <1>1, LogConstants, FS_Product
<1>3. Unused \subseteq Procs \X (1 .. OpBlocks)
  BY DEF Unused
<1> QED
  BY <1>2, <1>3, FS_Subset, FS_CardinalityType

\* Nothing is logged and no call begins.
LEMMA ReserveQuiet ==
    ASSUME LogTypes, Reserve, UNCHANGED <<lh, wrote, cur>>,
           head' \in {head, lh, <<>>},
           \A p \in Procs : pc'[p] \in InOp => pc[p] \in InOp,
           \A p \in Procs : pc'[p] \in {"check", "append"}
                               => pc[p] \in {"check", "append"}
    PROVE  Reserve'
<1> USE LogConstants
<1>1. Unused' \subseteq Unused
  BY DEF Unused
<1>2. Cardinality(Unused') <= Cardinality(Unused) /\ Cardinality(Unused') \in Nat
  BY <1>1, UnusedFinite, FS_Subset, FS_CardinalityType
<1>3. ReservationFits'
  BY <1>1, <1>2, UnusedFinite DEF Reserve, ReservationFits, LogTypes
<1>4. head' # <<>> => Len(head') + (MAXOPBLOCKS - OpBlocks) <= LOGSIZE
  <2>1. lh # <<>> => Len(lh) + (MAXOPBLOCKS - OpBlocks) <= LOGSIZE
    BY UnusedFinite DEF Reserve, ReservationFits, LogTypes
  <2> QED
    BY <2>1 DEF Reserve
<1> QED
  BY <1>3, <1>4 DEF Reserve, In

\* Nobody is in a call.
LEMMA ReserveIdle ==
    ASSUME \A p \in Procs : pc'[p] \notin InOp,
           lh' \in {<<>>, head'}, head' \in Seq(Blocks),
           head' # <<>> => Len(head') + (MAXOPBLOCKS - OpBlocks) <= LOGSIZE
    PROVE  Reserve'
<1>1. Unused' = {}
  BY DEF Unused
<1>2. Cardinality(Unused') = 0
  BY <1>1, FS_EmptySet
<1> QED
  BY <1>1, <1>2, LogConstants DEF Reserve, ReservationFits, InOp

LEMMA Slack ==
    ASSUME NEW n \in Nat, NEW m \in Nat, NEW k \in 0 .. m
    PROVE  (n + 1) * k + (m - k) <= (n + 1) * m
<1>1. n * k <= n * m
  <2>1. PICK d \in Nat : m = k + d
    BY m - k \in Nat, m = k + (m - k)
  <2>2. n * (k + d) = n * k + n * d /\ n * d \in Nat /\ n * k \in Nat
    OBVIOUS
  <2> QED
    BY <2>1, <2>2
<1>2. (n + 1) * k = n * k + k /\ (n + 1) * m = n * m + m
  OBVIOUS
<1> QED
  BY <1>1, <1>2

LEMMA ReserveBegin ==
    ASSUME Reserved, RoomInv, NEW p \in Procs, BeginOp(p)
    PROVE  Reserve'
<1> USE LogConstants
<1>0. LogTypes /\ Calls /\ Reserve
  BY DEF RoomInv, CallInv
<1>1. Active' = Active \cup {p} /\ p \notin Active
  BY <1>0 DEF LogTypes, Active, BeginOp, InOp
<1>2. IsFiniteSet(Active') /\ Cardinality(Active') = outstanding + 1
  BY <1>0, <1>1, ActiveFinite, FS_AddElement DEF Calls
<1>3. Unused' \subseteq Active' \X (1 .. OpBlocks)
  BY DEF Unused, Active
<1>4. /\ IsFiniteSet(Active' \X (1 .. OpBlocks))
      /\ Cardinality(Active' \X (1 .. OpBlocks)) = (outstanding + 1) * OpBlocks
  <2>1. IsFiniteSet(1 .. OpBlocks) /\ Cardinality(1 .. OpBlocks) = OpBlocks
    BY FS_Interval
  <2>2. Cardinality(Active' \X (1 .. OpBlocks)) =
            Cardinality(Active') * Cardinality(1 .. OpBlocks)
    BY <1>2, <2>1, FS_Product
  <2>3. IsFiniteSet(Active' \X (1 .. OpBlocks))
    BY <1>2, <2>1, FS_Product
  <2> QED
    BY <1>2, <2>1, <2>2, <2>3
<1>5. Cardinality(Unused') <= (outstanding + 1) * OpBlocks /\ Cardinality(Unused') \in Nat
  BY <1>3, <1>4, FS_Subset, FS_CardinalityType
<1>6. ReservationFits'
  <2>1. Len(lh) + (outstanding + 1) * MAXOPBLOCKS <= LOGSIZE /\ lh' = lh
    BY <1>0 DEF BeginOp, NoRoom, LogTypes
  <2>2. (outstanding + 1) * OpBlocks + (MAXOPBLOCKS - OpBlocks)
           <= (outstanding + 1) * MAXOPBLOCKS
    BY <1>0, Slack DEF LogTypes, Reserved
  <2>3. (outstanding + 1) * OpBlocks \in Int /\ (outstanding + 1) * MAXOPBLOCKS \in Int
    BY <1>0 DEF LogTypes
  <2> DEFINE used == (outstanding + 1) * OpBlocks
             room == (outstanding + 1) * MAXOPBLOCKS
  <2>4. /\ used \in Int /\ room \in Int
        /\ Cardinality(Unused') <= used
        /\ used + (MAXOPBLOCKS - OpBlocks) <= room
        /\ Len(lh) + room <= LOGSIZE
    BY <1>5, <2>1, <2>2, <2>3
  <2> HIDE DEF used, room
  <2>5. Len(lh) + Cardinality(Unused') + (MAXOPBLOCKS - OpBlocks) <= LOGSIZE
    BY <1>0, <1>5, <2>4 DEF LogTypes
  <2> QED
    BY <2>1, <2>5 DEF ReservationFits
<1> QED
  BY <1>0, <1>6, FS_EmptySet DEF Reserve, BeginOp, LogTypes, In, InOp, diskVars

LEMMA AppendFacts ==
    ASSUME NEW s \in Seq(Blocks), NEW b \in Blocks
    PROVE  /\ Append(s, b) # <<>> /\ Len(Append(s, b)) = Len(s) + 1
           /\ \A x : In(x, Append(s, b)) <=> In(x, s) \/ x = b
           /\ Distinct(s) /\ ~In(b, s) => Distinct(Append(s, b))
<1> DEFINE t == Append(s, b)
<1>1. /\ t \in Seq(Blocks) /\ Len(t) = Len(s) + 1 /\ t[Len(s) + 1] = b
      /\ DOMAIN t = 1 .. Len(s) + 1 /\ DOMAIN s = 1 .. Len(s) /\ Len(s) \in Nat
      /\ \A i \in 1 .. Len(s) : t[i] = s[i]
  OBVIOUS
<1> HIDE DEF t
<1>2. t # <<>>
  BY <1>1
<1>3. \A x : In(x, t) <=> In(x, s) \/ x = b
  BY <1>1 DEF In
<1>4. Distinct(s) /\ ~In(b, s) => Distinct(t)
  BY <1>1 DEF Distinct, In
<1> QED
  BY <1>1, <1>2, <1>3, <1>4 DEF t

LEMMA ReserveAppend ==
    ASSUME Reserved, RoomInv, NEW p \in Procs, LogWriteAppend(p)
    PROVE  Reserve'
<1> USE LogConstants
<1>0. LogTypes /\ Calls /\ Reserve
  BY DEF RoomInv, CallInv
<1> DEFINE n == Cardinality(wrote[p])
<1>1. /\ pc[p] = "append" /\ pc[p] \in InOp /\ IsFiniteSet(wrote[p]) /\ n \in Nat
      /\ n <= OpBlocks /\ cur[p] \in Blocks
      /\ cur[p] \in wrote[p] \/ n < OpBlocks
      /\ \A b \in wrote[p] : In(b, lh)
  BY <1>0, FS_CardinalityType DEF LogWriteAppend, Reserve, InOp, Calls, LogTypes
<1>2. /\ wrote'[p] = wrote[p] \cup {cur[p]}
      /\ \A q \in Procs \ {p} : wrote'[q] = wrote[q] /\ cur'[q] = cur[q] /\ pc'[q] = pc[q]
      /\ pc'[p] = "op" /\ head' = head
  BY <1>0 DEF LogWriteAppend, LogTypes, diskVars
<1>3. \A x : In(x, lh') <=> In(x, lh) \/ x = cur[p]
  BY <1>0, <1>1, AppendFacts DEF LogWriteAppend, LogTypes
<1>4. /\ IsFiniteSet(wrote'[p])
      /\ Cardinality(wrote'[p]) = IF cur[p] \in wrote[p] THEN n ELSE n + 1
  <2>1. /\ IsFiniteSet(wrote[p] \cup {cur[p]})
        /\ Cardinality(wrote[p] \cup {cur[p]})
              = IF cur[p] \in wrote[p] THEN n ELSE n + 1
    BY <1>1, FS_AddElement, Zenon
  <2> QED
    BY <1>2, <2>1, Zenon
<1>9. \A q \in Procs : pc'[q] \in InOp => pc[q] \in InOp
  BY <1>1, <1>2
<1>5. ReservationFits'
  <2>1. CASE In(cur[p], lh)
    <3>1. lh' = lh /\ lh # <<>>
      BY <2>1 DEF LogWriteAppend, In
    <3>2. Unused' \subseteq Unused
      <4> SUFFICES ASSUME NEW q \in Procs, NEW i \in 1 .. OpBlocks,
                          pc'[q] \in InOp, i + Cardinality(wrote'[q]) <= OpBlocks
                   PROVE  i + Cardinality(wrote[q]) <= OpBlocks
        BY <1>9 DEF Unused
      <4>1. CASE q = p
        BY <1>1, <1>4, <4>1
      <4>2. CASE q # p
        BY <1>2, <4>2
      <4> QED
        BY <4>1, <4>2
    <3>3. Cardinality(Unused') <= Cardinality(Unused) /\ Cardinality(Unused') \in Nat
      BY <3>2, UnusedFinite, FS_Subset, FS_CardinalityType
    <3> QED
      BY <1>0, <3>1, <3>3, UnusedFinite DEF Reserve, ReservationFits, LogTypes
  <2>2. CASE ~In(cur[p], lh)
    <3>1. lh' = Append(lh, cur[p]) /\ Len(lh') = Len(lh) + 1
      BY <1>0, <1>1, <2>2 DEF LogWriteAppend, LogTypes
    <3>2. cur[p] \notin wrote[p] /\ Cardinality(wrote'[p]) = n + 1 /\ n < OpBlocks
      BY <1>1, <1>4, <2>2
    <3>3. <<p, OpBlocks - n>> \in Unused
      BY <1>1, <3>2 DEF Unused
    <3>4. Unused' \subseteq Unused \ {<<p, OpBlocks - n>>}
      <4> SUFFICES ASSUME NEW q \in Procs, NEW i \in 1 .. OpBlocks,
                          pc'[q] \in InOp, i + Cardinality(wrote'[q]) <= OpBlocks
                   PROVE  /\ i + Cardinality(wrote[q]) <= OpBlocks
                          /\ ~(q = p /\ i = OpBlocks - n)
        BY <1>9 DEF Unused
      <4>1. CASE q = p
        BY <1>1, <3>2, <4>1
      <4>2. CASE q # p
        BY <1>2, <4>2
      <4> QED
        BY <4>1, <4>2
    <3>5. /\ IsFiniteSet(Unused \ {<<p, OpBlocks - n>>})
          /\ Cardinality(Unused \ {<<p, OpBlocks - n>>}) = Cardinality(Unused) - 1
      BY <3>3, UnusedFinite, FS_RemoveElement
    <3>6. Cardinality(Unused') <= Cardinality(Unused) - 1 /\ Cardinality(Unused') \in Nat
      BY <3>4, <3>5, FS_Subset, FS_CardinalityType
    <3>7. Len(lh) + Cardinality(Unused) + (MAXOPBLOCKS - OpBlocks) <= LOGSIZE
      BY <1>0, <3>3 DEF Reserve, ReservationFits
    <3> QED
      BY <1>0, <3>1, <3>6, <3>7, UnusedFinite DEF ReservationFits, LogTypes
  <2> QED
    BY <2>1, <2>2
<1>6. \A q \in Procs : pc'[q] \in InOp =>
          /\ IsFiniteSet(wrote'[q]) /\ Cardinality(wrote'[q]) <= OpBlocks
          /\ \A b \in wrote'[q] : In(b, lh')
  <2> TAKE q \in Procs
  <2>1. CASE q = p
    <3>1. Cardinality(wrote'[p]) <= OpBlocks
      BY <1>1, <1>4
    <3>2. \A b \in wrote'[p] : In(b, lh')
      BY <1>1, <1>2, <1>3
    <3> QED
      BY <1>4, <2>1, <3>1, <3>2
  <2>2. CASE q # p
    BY <1>0, <1>2, <1>3, <2>2 DEF Reserve
  <2> QED
    BY <2>1, <2>2
<1>7. \A q \in Procs : pc'[q] \in {"check", "append"} =>
          cur'[q] \in wrote'[q] \/ Cardinality(wrote'[q]) < OpBlocks
  BY <1>0, <1>2 DEF Reserve
<1>8. head' # <<>> => Len(head') + (MAXOPBLOCKS - OpBlocks) <= LOGSIZE
  BY <1>0, <1>2 DEF Reserve
<1> QED
  BY <1>5, <1>6, <1>7, <1>8 DEF Reserve, In

LEMMA ReserveStep ==
    ASSUME Reserved, RoomInv, [Next]_vars
    PROVE  Reserve'
<1> USE LogConstants
<1>0. LogTypes /\ Calls /\ Reserve
  BY DEF RoomInv, CallInv
<1>1. ASSUME NEW p \in Procs, Call(p) \/ BeginSleep(p) \/ LogWriteCheck(p)
      PROVE  Reserve'
  <2>1. UNCHANGED <<lh, wrote, cur, head>>
    BY <1>1 DEF Call, BeginSleep, LogWriteCheck, logVars, diskVars
  <2>2. /\ \A q \in Procs \ {p} : pc'[q] = pc[q]
        /\ pc'[p] \in {"begin", "sleeping"} \/ pc[p] = "check"
    BY <1>0, <1>1 DEF LogTypes, Call, BeginSleep, LogWriteCheck
  <2> QED
    BY <1>0, <2>1, <2>2, ReserveQuiet DEF InOp
<1>2. ASSUME NEW p \in Procs, NEW b \in Blocks, NEW v \in Values, Modify(p, b, v)
      PROVE  Reserve'
  <2>1. UNCHANGED <<lh, wrote, head>> /\ cur'[p] = b /\ pc[p] = "op"
    BY <1>0, <1>2 DEF Modify, LogTypes, logVars, diskVars
  <2>2. /\ \A q \in Procs \ {p} : pc'[q] = pc[q] /\ cur'[q] = cur[q]
        /\ pc'[p] = "check"
        /\ cur'[p] \in wrote[p] \/ Cardinality(wrote[p]) < OpBlocks
    BY <1>0, <1>2 DEF LogTypes, Modify
  <2>3. \A q \in Procs : pc'[q] \in InOp <=> pc[q] \in InOp
    BY <2>1, <2>2 DEF InOp
  <2>4. Unused' = Unused
    BY <2>1, <2>3 DEF Unused
  <2>5. ReservationFits'
    BY <1>0, <2>1, <2>4 DEF Reserve, ReservationFits
  <2> QED
    BY <1>0, <2>1, <2>2, <2>3, <2>5 DEF Reserve, In
<1>3. ASSUME NEW p \in Procs, EndOp(p) \/ EndCommit(p)
      PROVE  Reserve'
  <2>1. UNCHANGED <<lh, wrote, cur, head>>
    BY <1>3 DEF EndOp, EndCommit, diskVars
  <2>2. \A q \in Procs : pc'[q] = pc[q] \/ pc'[q] \in {"idle", "begin", "wlog"}
    BY <1>0, <1>3 DEF LogTypes, EndOp, EndCommit, Woken
  <2> QED
    BY <1>0, <2>1, <2>2, ReserveQuiet DEF InOp
<1>4. ASSUME NEW p \in Procs, WriteLog(p) \/ WriteHead(p) \/ Install(p)
      PROVE  Reserve'
  <2>1. UNCHANGED <<lh, wrote, cur>> /\ head' \in {head, lh}
    BY <1>4 DEF WriteLog, WriteHead, Install, InstallTrans, procVars
  <2>2. \A q \in Procs : pc'[q] = pc[q] \/ pc'[q] \in {"idle", "install"}
    BY <1>0, <1>4 DEF LogTypes, WriteLog, WriteHead, Install, InstallTrans, procVars
  <2> QED
    BY <1>0, <2>1, <2>2, ReserveQuiet DEF InOp
<1>5. ASSUME NEW p \in Procs, Erase(p)
      PROVE  Reserve'
  <2>1. lh' = <<>> /\ head' = <<>>
    BY <1>5 DEF Erase, EraseLog
  <2>2. \A q \in Procs : pc'[q] \notin InOp
    BY <1>0, <1>5 DEF LogTypes, Calls, Active, Erase, InCommit, InOp
  <2>3. <<>> \in Seq(Blocks)
    OBVIOUS
  <2> QED
    BY <2>1, <2>2, <2>3, ReserveIdle
<1>6. CASE Crash \/ ReadHead \/ RecoverErase
  <2>3. /\ lh' \in {<<>>, head'}
        /\ head' \in {<<>>, head}
    BY <1>6 DEF Crash, Reset, ReadHead, RecoverErase, EraseLog, diskVars
  <2>1. /\ head' \in Seq(Blocks)
        /\ head' # <<>> => Len(head') + (MAXOPBLOCKS - OpBlocks) <= LOGSIZE
    <3>1. <<>> \in Seq(Blocks)
      OBVIOUS
    <3>2. CASE head' = <<>>
      BY <3>1, <3>2
    <3>3. CASE head' = head
      BY <1>0, <3>3 DEF LogTypes, Reserve
    <3> QED
      BY <2>3, <3>2, <3>3
  <2>2. \A q \in Procs : pc'[q] = "idle"
    <3>1. CASE Crash
      BY <3>1 DEF Crash, Reset
    <3>2. CASE ReadHead \/ RecoverErase
      <4>1. sys \in {"recover", "replay"} /\ pc' = pc
        BY <3>2 DEF ReadHead, RecoverErase, procVars
      <4> QED
        BY <1>0, <4>1 DEF Calls
    <3> QED
      BY <1>6, <3>1, <3>2
  <2> QED
    BY <2>1, <2>2, <2>3, ReserveIdle DEF InOp
<1>7. CASE RecoverInstall \/ UNCHANGED vars
  <2>1. UNCHANGED <<lh, wrote, cur, head, pc>>
    BY <1>7 DEF RecoverInstall, InstallTrans, vars, diskVars, procVars, logVars
  <2> QED
    BY <1>0, <2>1, ReserveQuiet
<1>8. ASSUME NEW b \in Blocks, Bread(b) \/ Evict(b)
      PROVE  Reserve'
  <2>1. UNCHANGED <<lh, wrote, cur, head, pc>>
    BY <1>8 DEF Bread, Evict, diskVars, procVars, logVars
  <2> QED
    BY <1>0, <2>1, ReserveQuiet
<1> QED
  BY <1>1, <1>2, <1>3, <1>4, <1>5, <1>6, <1>7, <1>8, ReserveBegin, ReserveAppend
  DEF Next, Running, Begin, Log_write, Commit, Recover

\* While calls keep to what begin_op reserves, the log's fill is as Reserve says.
LEMMA RoomHolds ==
    ASSUME Reserved
    PROVE  Spec => []RoomInv
<1>1. Init => RoomInv
  <2> SUFFICES ASSUME Init  PROVE RoomInv
    OBVIOUS
  <2>1. CallInv
    BY InitCalls
  <2>2. Unused = {}
    BY DEF Init, Unused, InOp
  <2>3. Reserve
    BY <2>2 DEF Init, Reserve, ReservationFits, InOp
  <2> QED
    BY <2>1, <2>3 DEF RoomInv
<1>2. RoomInv /\ [Next]_vars => RoomInv'
  BY LogTypesStep, CallsStep, ReserveStep DEF RoomInv, CallInv
<1> QED
  BY <1>1, <1>2, PTL DEF Spec

\* begin_op's admission test keeps the blocks logged and still to be logged
\* within LOGSIZE, for any number of concurrent calls that write no more
\* than MAXOPBLOCKS blocks each, and whatever the size of the on-disk log.
THEOREM Admission ==
    ASSUME Reserved
    PROVE  Spec => []ReservationFits
<1>1. RoomInv => ReservationFits
  BY DEF RoomInv, Reserve
<1> QED
  BY <1>1, RoomHolds, PTL

\* The blocks logged fit the header's array of LOGSIZE block numbers.
HeaderFits == Len(lh) <= LOGSIZE /\ Len(head) <= LOGSIZE

\* That array is never overrun, though log_write tests it before it takes the
\* lock: so the blocks logged reach beyond the log's region on the disk by
\* LOGSIZE - (NLOG - 1) at most, one block at param.h's sizes.
THEOREM HeaderHolds ==
    ASSUME Reserved
    PROVE  Spec => []HeaderFits
<1>1. RoomInv => HeaderFits
  <2> SUFFICES ASSUME RoomInv  PROVE HeaderFits
    OBVIOUS
  <2>1. LogTypes /\ Reserve
    BY DEF RoomInv, CallInv
  <2>2. lh # <<>> => Len(lh) <= LOGSIZE
    BY <2>1, UnusedFinite, LogConstants DEF Reserve, ReservationFits, LogTypes, Reserved
  <2>3. head # <<>> => Len(head) <= LOGSIZE
    BY <2>1, LogConstants DEF Reserve, LogTypes, Reserved
  <2>4. Len(<<>>) <= LOGSIZE
    BY LogConstants
  <2> QED
    BY <2>2, <2>3, <2>4 DEF HeaderFits
<1> QED
  BY <1>1, RoomHolds, PTL

\* A panic is that of a call which writes again a block that it has logged
\* already, with every block of every reservation used.
PanicOnRewrite ==
    sys = "panic" => \E p \in Procs :
        /\ pc[p] = "check" /\ cur[p] \in wrote[p] /\ In(cur[p], lh)
        /\ Len(lh) = LOGSIZE /\ Unused = {}

\* When the on-disk log has room for LOGSIZE blocks and calls keep to their
\* reservation, that is the one panic left: log_write's test for a full log
\* comes before the search that would find the block in it.
THEOREM OnlyOnRewrite ==
    ASSUME Reserved, LOGSIZE <= NLOG - 1
    PROVE  Spec => []PanicOnRewrite
<1>1. RoomInv => PanicOnRewrite
  <2> SUFFICES ASSUME RoomInv, sys = "panic"  PROVE PanicOnRewrite
    BY DEF PanicOnRewrite
  <2>1. LogTypes /\ Calls /\ Reserve
    BY DEF RoomInv, CallInv
  <2>2. PICK p \in Procs : /\ pc[p] = "check" /\ cur[p] \in Blocks
                           /\ Len(lh) >= LOGSIZE \/ Len(lh) >= NLOG - 1
    BY <2>1 DEF Calls, PanicWhenFull
  <2>3. Len(lh) >= LOGSIZE
    BY <2>1, <2>2, LogConstants DEF LogTypes
  <2>4. /\ cur[p] \in wrote[p] \/ Cardinality(wrote[p]) < OpBlocks
        /\ IsFiniteSet(wrote[p]) /\ Cardinality(wrote[p]) \in Nat
        /\ \A b \in wrote[p] : In(b, lh)
    BY <2>1, <2>2, FS_CardinalityType DEF Reserve, InOp
  <2>5. Cardinality(Unused) \in Nat /\ IsFiniteSet(Unused)
    BY UnusedFinite
  <2>6. lh # <<>> \/ Unused # {}
    <3>1. CASE cur[p] \in wrote[p]
      BY <2>4, <3>1 DEF In
    <3>2. CASE Cardinality(wrote[p]) < OpBlocks
      <4>1. <<p, OpBlocks - Cardinality(wrote[p])>> \in Unused
        BY <2>2, <2>4, <3>2, LogConstants DEF Unused, InOp
      <4> QED
        BY <4>1
    <3> QED
      BY <2>4, <3>1, <3>2
  <2>7. Len(lh) + Cardinality(Unused) + (MAXOPBLOCKS - OpBlocks) <= LOGSIZE
    BY <2>1, <2>6 DEF Reserve, ReservationFits
  <2>8. Len(lh) = LOGSIZE /\ Cardinality(Unused) = 0
    BY <2>1, <2>3, <2>5, <2>7, LogConstants DEF LogTypes, Reserved
  <2>9. Unused = {}
    BY <2>5, <2>8, FS_EmptySet
  <2>10. cur[p] \in wrote[p]
    <3>1. Cardinality(wrote[p]) < OpBlocks => <<p, OpBlocks - Cardinality(wrote[p])>> \in Unused
      BY <2>2, <2>4, LogConstants DEF Unused, InOp
    <3> QED
      BY <2>4, <2>9, <3>1
  <2> QED
    BY <2>2, <2>4, <2>8, <2>9, <2>10 DEF PanicOnRewrite
<1> QED
  BY <1>1, RoomHolds, PTL

-----------------------------------------------------------------------------
(* What LogBudget gives: no panic, and log blocks inside the log's region. *)

LEMMA Region ==
    ASSUME LogBudget, TypeOK, Reserve
    PROVE  /\ Cardinality(Unused) \in Nat
           /\ Len(lh) <= NLOG - 1
           /\ Len(head) <= NLOG - 1
           /\ lh # <<>> => Len(lh) < LOGSIZE /\ Len(lh) < NLOG - 1
<1>1. Cardinality(Unused) \in Nat
  BY UnusedFinite
<1>2. lh # <<>> => Len(lh) < LOGSIZE /\ Len(lh) < NLOG - 1
  BY <1>1, LogConstants DEF LogBudget, Reserve, ReservationFits, TypeOK
<1>3. head # <<>> => Len(head) <= NLOG - 1
  BY LogConstants DEF LogBudget, Reserve, TypeOK
<1>4. Len(<<>>) <= NLOG - 1
  BY LogConstants
<1> QED
  BY <1>1, <1>2, <1>3, <1>4, LogConstants DEF TypeOK

LEMMA TypeStep ==
    ASSUME LogBudget, IInv, [Next]_vars
    PROVE  TypeOK'
<1> DEFINE StoreTypes == /\ home \in [Blocks -> Values] /\ logblk \in [1 .. NLOG - 1 -> Values]
                         /\ cache \in [Blocks -> Values \cup {NoBuf}] /\ dirty \in SUBSET Blocks
<1>0. TypeOK /\ Control
  BY DEF IInv
<1>1. Len(lh) <= NLOG - 1 /\ Len(head) <= NLOG - 1
  BY Region DEF IInv
<1>2. LogTypes'
  BY Within, LogTypesStep DEF RoomInv
<1>3. ASSUME UNCHANGED <<home, logblk, cache, dirty>>
      PROVE  StoreTypes'
  BY <1>0, <1>3 DEF TypeOK
<1>4. ASSUME NEW p \in Procs, LogWriteAppend(p)
      PROVE  StoreTypes'
  <2>1. cur[p] \in Blocks
    BY <1>0, <1>4 DEF LogWriteAppend, Control, TypeOK
  <2> QED
    BY <1>0, <1>4, <2>1 DEF LogWriteAppend, TypeOK, diskVars
<1>5. ASSUME NEW p \in Procs, WriteLog(p)
      PROVE  StoreTypes'
  <2>1. lh[tail] \in Blocks /\ BufData(lh[tail]) \in Values
    BY <1>0, <1>5 DEF WriteLog, BufData, TypeOK
  <2>2. logblk' \in [1 .. NLOG - 1 -> Values]
    BY <1>0, <1>5, <2>1 DEF WriteLog, TypeOK
  <2>3. cache' \in [Blocks -> Values \cup {NoBuf}]
    BY <1>0, <1>5, <2>1 DEF WriteLog, TypeOK
  <2> QED
    BY <1>0, <1>5, <2>2, <2>3 DEF WriteLog, TypeOK
<1>6. ASSUME InstallTrans
      PROVE  StoreTypes'
  <2>1. lh[tail] \in Blocks /\ logblk[tail] \in Values
    BY <1>0, <1>1, <1>6, LogConstants DEF InstallTrans, TypeOK
  <2> QED
    BY <1>0, <1>6, <2>1 DEF InstallTrans, TypeOK
<1>7. ASSUME NEW p \in Procs, NEW b \in Blocks, NEW v \in Values, Modify(p, b, v)
      PROVE  StoreTypes'
  BY <1>0, <1>7 DEF Modify, diskVars, TypeOK
<1>8. ASSUME NEW b \in Blocks, Bread(b) \/ Evict(b)
      PROVE  StoreTypes'
  BY <1>0, <1>8 DEF Bread, Evict, diskVars, TypeOK
<1>9. ASSUME Crash
      PROVE  StoreTypes'
  BY <1>0, <1>9 DEF Crash, Reset, diskVars, TypeOK
<1>10. StoreTypes'
  <2> HIDE DEF StoreTypes
  <2>1. ASSUME NEW p \in Procs, \/ Call(p) \/ Begin(p) \/ LogWriteCheck(p) \/ EndOp(p)
                                \/ WriteHead(p) \/ Erase(p) \/ EndCommit(p)
        PROVE  StoreTypes'
    BY <1>3, <2>1 DEF Call, Begin, BeginSleep, BeginOp, LogWriteCheck, EndOp, WriteHead,
                      Erase, EraseLog, EndCommit, diskVars, bufVars
  <2>2. CASE ReadHead \/ RecoverErase \/ UNCHANGED vars
    BY <1>3, <2>2 DEF ReadHead, RecoverErase, EraseLog, vars, diskVars, bufVars
  <2> QED
    BY <1>4, <1>5, <1>6, <1>7, <1>8, <1>9, <2>1, <2>2
    DEF Next, Running, Log_write, Commit, Install, Recover, RecoverInstall
<1> QED
  BY <1>2, <1>10 DEF TypeOK, LogTypes

LEMMA RoomToLog ==
    ASSUME LogBudget, IInv, NEW p \in Procs, pc[p] \in {"check", "append"}
    PROVE  /\ Len(lh) < LOGSIZE /\ Len(lh) < NLOG - 1
           /\ outstanding >= 1
           /\ cur[p] \in Blocks
           /\ cur[p] \in wrote[p] \/ <<p, OpBlocks - Cardinality(wrote[p])>> \in Unused
<1> USE LogConstants
<1>1. p \in Active /\ cur[p] \in Blocks
  BY DEF IInv, TypeOK, Control, Active, InOp
<1>2. outstanding >= 1
  BY <1>1, ActiveFinite, FS_EmptySet DEF IInv, Control, TypeOK
<1>3. CASE cur[p] \in wrote[p]
  <2>1. In(cur[p], lh)
    BY <1>1, <1>3 DEF IInv, Reserve, Active
  <2>2. lh # <<>>
    BY <2>1 DEF In
  <2> QED
    BY <1>1, <1>2, <1>3, <2>2, Region DEF IInv
<1>4. CASE cur[p] \notin wrote[p]
  <2>1. /\ IsFiniteSet(wrote[p])
        /\ Cardinality(wrote[p]) < OpBlocks
    BY <1>1, <1>4 DEF IInv, Reserve, Active
  <2>2. Cardinality(wrote[p]) \in Nat
    BY <2>1, FS_CardinalityType
  <2>3. <<p, OpBlocks - Cardinality(wrote[p])>> \in Unused
    BY <1>1, <2>1, <2>2 DEF Unused, Active
  <2>5. Cardinality(Unused) \in Nat \ {0}
    BY <2>3, UnusedFinite, FS_EmptySet
  <2>6. Len(lh) + Cardinality(Unused) + (MAXOPBLOCKS - OpBlocks) <= LOGSIZE
    BY <2>3 DEF IInv, Reserve, ReservationFits
  <2> QED
    BY <1>1, <1>2, <2>3, <2>5, <2>6 DEF LogBudget, IInv, TypeOK
<1> QED
  BY <1>3, <1>4

LEMMA ControlStep ==
    ASSUME LogBudget, IInv, [Next]_vars
    PROVE  Control'
<1>1. Calls' /\ LogTypes'
  BY Within, CallsStep, LogTypesStep DEF RoomInv
<1>2. sys' # "panic"
  <2>1. ASSUME NEW p \in Procs, LogWriteCheck(p)
        PROVE  sys' # "panic"
    <3>1. Len(lh) < LOGSIZE /\ Len(lh) < NLOG - 1 /\ outstanding >= 1
      BY <2>1, RoomToLog DEF LogWriteCheck
    <3> QED
      BY <2>1, <3>1, LogConstants DEF LogWriteCheck, IInv, TypeOK
  <2>2. ASSUME NEW p \in Procs, EndOp(p)
        PROVE  sys' # "panic"
    BY <2>2 DEF EndOp, IInv, Control, Active, InOp
  <2> QED
    BY <2>1, <2>2, Within
    DEF Next, Running, Call, Begin, BeginSleep, BeginOp, Log_write, LogWriteAppend, Commit,
        WriteLog, WriteHead, Install, InstallTrans, Erase, EndCommit, Modify, Bread, Evict,
        Recover, ReadHead, RecoverInstall, RecoverErase, Crash, vars
<1> QED
  BY <1>1, <1>2 DEF Calls, Control, NoPanic, LogTypes

-----------------------------------------------------------------------------
(* Contents: cache, log and home blocks through commit and recovery.       *)

\* Steps that move only program counters, and start no phase of a commit.
LEMMA ContentsQuiet ==
    ASSUME Contents, sys = "up", sys' = "up",
           UNCHANGED <<home, logblk, head, cache, dirty, lh, cur>>,
           \A p \in Procs : pc[p] = "install" <=> pc'[p] = "install",
           \A p \in Procs : pc'[p] = "wlog" => (pc[p] = "wlog" /\ tail' = tail) \/ tail' = 1,
           (\E p \in Procs : pc[p] = "install") => tail' = tail,
           \A p \in Procs : pc'[p] = "done" => pc[p] = "done",
           \A i \in DOMAIN lh : i \in Nat \ {0}
    PROVE  Contents'
<1>1. \A b : BufData(b)' = BufData(b)
  BY DEF BufData
<1>2. UpContents
  BY DEF Contents
<1>3. /\ \A b \in dirty' : In(b, lh') /\ cache'[b] # NoBuf
      /\ \A b \in Blocks : \/ cache'[b] \in {NoBuf, home'[b]} \/ b \in dirty'
                           \/ \E p \in Procs : cur'[p] = b
      /\ \A p \in Procs : cur'[p] # NoBlock => cache'[cur'[p]] # NoBuf
  BY <1>2 DEF UpContents
<1>4. /\ head' # <<>> => \E p \in Procs : pc'[p] = "install"
      /\ \A p \in Procs : pc'[p] = "done" => lh' = <<>>
  BY <1>2 DEF UpContents
<1>5. \A p \in Procs : pc'[p] = "wlog" =>
         \A i \in DOMAIN lh' : i < tail' => logblk'[i] = BufData(lh[i])'
  BY <1>1, <1>2 DEF UpContents, BufData
<1>6. \A p \in Procs : pc'[p] = "install" =>
         /\ head' = lh'
         /\ \A i \in DOMAIN lh' : logblk'[i] = BufData(lh[i])'
         /\ \A i \in DOMAIN lh' : i < tail' => lh'[i] \notin dirty'
  BY <1>1, <1>2 DEF UpContents, BufData
<1>7. UpContents'
  BY <1>3, <1>4, <1>5, <1>6 DEF UpContents
<1> QED
  BY <1>7 DEF Contents, Distinct

LEMMA ContentsModify ==
    ASSUME IInv, NEW p \in Procs, NEW b \in Blocks, NEW v \in Values, Modify(p, b, v)
    PROVE  Contents'
<1> USE LogConstants
<1>0. TypeOK /\ Control /\ Contents
  BY DEF IInv
<1>1. /\ sys = "up" /\ sys' = "up" /\ pc[p] = "op" /\ UpContents
      /\ UNCHANGED <<home, logblk, head, dirty, lh, tail>>
      /\ \A q \in Procs \ {p} : pc'[q] = pc[q] /\ cur'[q] = cur[q]
      /\ pc'[p] = "check" /\ cur'[p] = b
      /\ cache'[b] = v /\ v # NoBuf
      /\ \A c \in Blocks \ {b} : cache'[c] = cache[c]
      /\ \A q \in Procs : cur[q] # b
  BY <1>0 DEF Modify, Contents, TypeOK, diskVars, logVars
<1>2. \A q \in Procs : pc[q] \notin InCommit /\ pc'[q] \notin InCommit
  BY <1>0, <1>1 DEF Control, Active, InOp, InCommit
<1>3. UpContents'
  <2>1. \A c \in dirty' : In(c, lh') /\ cache'[c] # NoBuf
    BY <1>0, <1>1 DEF UpContents, TypeOK
  <2>2. \A c \in Blocks : \/ cache'[c] \in {NoBuf, home'[c]} \/ c \in dirty'
                          \/ \E q \in Procs : cur'[q] = c
    <3> TAKE c \in Blocks
    <3>1. CASE c = b
      BY <1>1, <3>1
    <3>2. CASE c # b
      <4>1. (\E q \in Procs : cur[q] = c) => \E q \in Procs : cur'[q] = c
        BY <1>0, <1>1 DEF Control
      <4> QED
        BY <1>1, <3>2, <4>1 DEF UpContents
    <3> QED
      BY <3>1, <3>2
  <2>3. \A q \in Procs : cur'[q] # NoBlock => cache'[cur'[q]] # NoBuf
    <3> SUFFICES ASSUME NEW q \in Procs, cur'[q] # NoBlock
                 PROVE  cache'[cur'[q]] # NoBuf
      OBVIOUS
    <3>1. CASE q = p
      BY <1>1, <3>1
    <3>2. CASE q # p
      <4>1. cur'[q] = cur[q] /\ cur[q] \in Blocks \ {b}
        BY <1>0, <1>1, <3>2 DEF TypeOK
      <4> QED
        BY <1>1, <4>1 DEF UpContents
    <3> QED
      BY <3>1, <3>2
  <2> QED
    BY <1>1, <1>2, <2>1, <2>2, <2>3 DEF UpContents, InCommit
<1> QED
  BY <1>0, <1>1, <1>3 DEF Contents, Distinct

LEMMA ContentsAppend ==
    ASSUME LogBudget, IInv, NEW p \in Procs, LogWriteAppend(p)
    PROVE  Contents'
<1> USE LogConstants
<1>0. TypeOK /\ Control /\ Contents
  BY DEF IInv
<1>1. /\ sys = "up" /\ sys' = "up" /\ pc[p] = "append" /\ UpContents
      /\ UNCHANGED <<home, logblk, head, cache, tail>>
      /\ \A q \in Procs \ {p} : pc'[q] = pc[q] /\ cur'[q] = cur[q]
      /\ pc'[p] = "op" /\ cur'[p] = NoBlock /\ cur[p] \in Blocks
      /\ dirty' = dirty \cup {cur[p]}
  BY <1>0 DEF LogWriteAppend, Contents, Control, TypeOK, diskVars
<1>2. \A q \in Procs : pc[q] \notin InCommit /\ pc'[q] \notin InCommit
  BY <1>0, <1>1 DEF Control, Active, InOp, InCommit
<1>3. \A x : In(x, lh') <=> In(x, lh) \/ x = cur[p]
  BY <1>0, <1>1, AppendFacts DEF LogWriteAppend, TypeOK
<1>4. Distinct(lh')
  BY <1>0, <1>1, AppendFacts DEF LogWriteAppend, TypeOK, Contents
<1>5. UpContents'
  BY <1>0, <1>1, <1>2, <1>3 DEF UpContents, TypeOK, InCommit
<1> QED
  BY <1>0, <1>1, <1>4, <1>5 DEF Contents, Distinct

LEMMA ContentsWriteLog ==
    ASSUME LogBudget, IInv, NEW p \in Procs, WriteLog(p)
    PROVE  Contents'
<1> USE LogConstants
<1>0. TypeOK /\ Control /\ Contents /\ Len(lh) <= NLOG - 1
  BY Region DEF IInv
<1> DEFINE b == lh[tail]
<1>1. /\ sys = "up" /\ sys' = "up" /\ pc[p] = "wlog" /\ UpContents
      /\ UNCHANGED <<home, head, lh, dirty, pc, cur>>
      /\ tail' = tail + 1 /\ tail \in DOMAIN lh /\ b \in Blocks
      /\ cache'[b] = BufData(b) /\ \A c \in Blocks \ {b} : cache'[c] = cache[c]
      /\ logblk'[tail] = BufData(b)
      /\ \A i \in DOMAIN lh \ {tail} : logblk'[i] = logblk[i]
  BY <1>0 DEF WriteLog, Contents, TypeOK, procVars
<1>2. \A c \in Blocks : BufData(c)' = BufData(c)
  BY <1>0, <1>1 DEF BufData, TypeOK
<1>3. \A q \in Procs : cur[q] = NoBlock /\ (pc[q] \in InCommit => q = p)
  BY <1>0, <1>1 DEF Control, TypeOK, Active, InOp, InCommit
<1>4. UpContents'
  <2>1. \A i \in DOMAIN lh : i < tail' => logblk'[i] = BufData(lh[i])'
    <3> SUFFICES ASSUME NEW i \in DOMAIN lh, i < tail + 1
                 PROVE  logblk'[i] = BufData(lh[i])'
      BY <1>1
    <3>1. lh[i] \in Blocks /\ lh'[i] = lh[i] /\ i \in Nat /\ tail \in Nat
      BY <1>0, <1>1 DEF TypeOK
    <3>2. BufData(lh[i])' = BufData(lh[i])
      BY <1>2, <3>1 DEF BufData
    <3>3. CASE i = tail
      BY <1>1, <3>2, <3>3
    <3>4. CASE i # tail
      <4>1. i < tail
        BY <3>1, <3>4
      <4> QED
        BY <1>1, <3>2, <3>4, <4>1 DEF UpContents
    <3> QED
      BY <3>3, <3>4
  <2>2. \A c \in Blocks : cache'[c] \in {NoBuf, home[c]} \/ c \in dirty
    BY <1>0, <1>1, <1>3 DEF UpContents, BufData, TypeOK
  <2>3. \A c \in dirty : In(c, lh) /\ cache'[c] # NoBuf
    BY <1>0, <1>1 DEF UpContents, BufData, TypeOK
  <2>4. \A q \in Procs : pc'[q] \notin {"install", "done"} /\ cur'[q] = NoBlock
    BY <1>1, <1>3 DEF InCommit
  <2> QED
    BY <1>1, <2>1, <2>2, <2>3, <2>4 DEF UpContents, In
<1> QED
  BY <1>0, <1>1, <1>4 DEF Contents, Distinct

LEMMA CommitterAlone ==
    ASSUME TypeOK, Control, NEW p \in Procs, pc[p] \in InCommit
    PROVE  /\ \A q \in Procs : cur[q] = NoBlock
           /\ \A q \in Procs : pc[q] \in InCommit => q = p
BY DEF Control, TypeOK, Active, InOp, InCommit

LEMMA ContentsWriteHead ==
    ASSUME IInv, NEW p \in Procs, WriteHead(p)
    PROVE  Contents'
<1>0. TypeOK /\ Control /\ Contents
  BY DEF IInv
<1>1. /\ sys = "up" /\ sys' = "up" /\ pc[p] = "wlog" /\ UpContents
      /\ UNCHANGED <<home, logblk, lh, cache, dirty, cur>>
      /\ tail > Len(lh) /\ tail' = 1 /\ head' = lh /\ lh' = lh
      /\ pc'[p] = "install" /\ \A q \in Procs \ {p} : pc'[q] = pc[q]
  BY <1>0 DEF WriteHead, Contents, TypeOK, bufVars
<1>2. /\ \A q \in Procs : cur[q] = NoBlock
      /\ \A q \in Procs : pc'[q] \in {"wlog", "install", "done"} => q = p
  BY <1>0, <1>1, CommitterAlone DEF InCommit
<1>3. \A i \in DOMAIN lh : i >= 1 /\ i < tail
  BY <1>0, <1>1 DEF TypeOK
<1>4. \A i \in DOMAIN lh : logblk'[i] = BufData(lh[i])'
  BY <1>1, <1>3 DEF UpContents, BufData
<1>5. \A i \in DOMAIN lh : ~(i < tail')
  BY <1>0, <1>1, <1>3 DEF TypeOK
<1>6. UpContents'
  BY <1>1, <1>2, <1>4, <1>5 DEF UpContents, In
<1> QED
  BY <1>0, <1>1, <1>6 DEF Contents, Distinct

LEMMA ContentsInstall ==
    ASSUME LogBudget, IInv, NEW p \in Procs, Install(p)
    PROVE  Contents'
<1> USE LogConstants
<1>0. TypeOK /\ Control /\ Contents /\ Len(lh) <= NLOG - 1
  BY Region DEF IInv
<1> DEFINE b == lh[tail]
<1>1. /\ sys = "up" /\ sys' = "up" /\ pc[p] = "install" /\ UpContents
      /\ UNCHANGED <<logblk, head, lh, pc, cur>>
      /\ tail' = tail + 1 /\ tail \in DOMAIN lh /\ b \in Blocks
      /\ logblk[tail] \in Values
      /\ cache'[b] = logblk[tail] /\ \A c \in Blocks \ {b} : cache'[c] = cache[c]
      /\ home'[b] = logblk[tail] /\ \A c \in Blocks \ {b} : home'[c] = home[c]
      /\ dirty' = dirty \ {b}
  BY <1>0 DEF Install, InstallTrans, Contents, TypeOK, procVars
<1>2. /\ \A q \in Procs : cur[q] = NoBlock
      /\ \A q \in Procs : pc'[q] \in {"wlog", "install", "done"} => q = p
  BY <1>0, <1>1, CommitterAlone DEF InCommit
<1>3. /\ head = lh
      /\ \A i \in DOMAIN lh : logblk[i] = BufData(lh[i])
      /\ \A i \in DOMAIN lh : i < tail => lh[i] \notin dirty
  BY <1>1 DEF UpContents
<1>4. \A c \in Blocks : BufData(c)' = BufData(c)
  <2> TAKE c \in Blocks
  <2>1. CASE c = b
    BY <1>0, <1>1, <1>3, <2>1 DEF BufData
  <2>2. CASE c # b
    BY <1>1, <2>2 DEF BufData
  <2> QED
    BY <2>1, <2>2
<1>5. \A i \in DOMAIN lh' : logblk'[i] = BufData(lh[i])'
  <2> SUFFICES ASSUME NEW i \in DOMAIN lh
               PROVE  logblk[i] = BufData(lh[i])'
    BY <1>1
  <2>1. lh[i] \in Blocks /\ lh'[i] = lh[i]
    BY <1>0, <1>1 DEF TypeOK
  <2>2. BufData(lh[i])' = BufData(lh[i])
    BY <1>4, <2>1 DEF BufData
  <2> QED
    BY <1>3, <2>2
<1>6. \A i \in DOMAIN lh' : i < tail' => lh'[i] \notin dirty'
  <2> SUFFICES ASSUME NEW i \in DOMAIN lh, i < tail + 1
               PROVE  lh[i] \notin dirty \ {b}
    BY <1>1
  <2>1. i \in Nat /\ tail \in Nat
    BY <1>0 DEF TypeOK
  <2>2. i = tail \/ i < tail
    BY <2>1
  <2> QED
    BY <1>3, <2>2
<1>7. \A c \in Blocks : cache'[c] \in {NoBuf, home'[c]} \/ c \in dirty'
  BY <1>1, <1>2 DEF UpContents, TypeOK
<1>8. \A c \in dirty' : In(c, lh') /\ cache'[c] # NoBuf
  BY <1>0, <1>1 DEF UpContents, TypeOK
<1>9. UpContents'
  BY <1>1, <1>2, <1>3, <1>5, <1>6, <1>7, <1>8 DEF UpContents
<1> QED
  BY <1>0, <1>1, <1>9 DEF Contents, Distinct

LEMMA ContentsErase ==
    ASSUME IInv, NEW p \in Procs, Erase(p)
    PROVE  Contents'
<1>0. TypeOK /\ Control /\ Contents
  BY DEF IInv
<1>1. /\ sys = "up" /\ sys' = "up" /\ pc[p] = "install" /\ UpContents
      /\ UNCHANGED <<home, logblk, cache, dirty, cur>>
      /\ lh' = <<>> /\ head' = <<>> /\ tail > Len(lh)
      /\ pc'[p] = "done" /\ \A q \in Procs \ {p} : pc'[q] = pc[q]
  BY <1>0 DEF Erase, EraseLog, Contents, TypeOK, bufVars
<1>2. /\ \A q \in Procs : cur[q] = NoBlock
      /\ \A q \in Procs : pc'[q] \in {"wlog", "install", "done"} => q = p
  BY <1>0, <1>1, CommitterAlone DEF InCommit
<1>3. dirty = {}
  <2>1. \A i \in DOMAIN lh : lh[i] \notin dirty
    BY <1>0, <1>1 DEF UpContents, TypeOK
  <2> QED
    BY <1>1, <2>1 DEF UpContents, In
<1>4. UpContents'
  BY <1>1, <1>2, <1>3 DEF UpContents
<1> QED
  BY <1>1, <1>4 DEF Contents, Distinct

LEMMA ContentsCache ==
    ASSUME IInv, NEW b \in Blocks, Bread(b) \/ Evict(b)
    PROVE  Contents'
<1> USE LogConstants
<1>0. TypeOK /\ Control /\ Contents
  BY DEF IInv
<1>1. /\ sys = "up" /\ sys' = "up" /\ UpContents
      /\ UNCHANGED <<home, logblk, head, lh, tail, dirty, pc, cur>>
      /\ \A c \in Blocks \ {b} : cache'[c] = cache[c]
      /\ \/ cache[b] = NoBuf /\ cache'[b] = home[b]
         \/ /\ cache[b] # NoBuf /\ cache'[b] = NoBuf /\ b \notin dirty
            /\ \A p \in Procs : cur[p] # b
  BY <1>0 DEF Bread, Evict, Contents, TypeOK, diskVars, logVars, procVars
<1>2. \A c \in Blocks : BufData(c)' = BufData(c)
  BY <1>0, <1>1 DEF BufData, UpContents, TypeOK
<1>3. \A i \in DOMAIN lh' : BufData(lh[i])' = BufData(lh[i])
  <2> SUFFICES ASSUME NEW i \in DOMAIN lh
               PROVE  BufData(lh[i])' = BufData(lh[i])
    BY <1>1
  <2>1. lh[i] \in Blocks /\ lh'[i] = lh[i]
    BY <1>0, <1>1 DEF TypeOK
  <2> QED
    BY <1>2, <2>1 DEF BufData
<1>4. \A c \in Blocks : \/ cache'[c] \in {NoBuf, home'[c]} \/ c \in dirty'
                        \/ \E p \in Procs : cur'[p] = c
  BY <1>1 DEF UpContents
<1>5. \A c \in dirty' : In(c, lh') /\ cache'[c] # NoBuf
  BY <1>0, <1>1 DEF UpContents, TypeOK
<1>6. \A p \in Procs : cur'[p] # NoBlock => cache'[cur'[p]] # NoBuf
  BY <1>0, <1>1 DEF UpContents, TypeOK
<1>7. UpContents'
  BY <1>1, <1>3, <1>4, <1>5, <1>6 DEF UpContents
<1> QED
  BY <1>0, <1>1, <1>7 DEF Contents, Distinct

LEMMA ContentsReplay ==
    ASSUME LogBudget, IInv, RecoverInstall
    PROVE  Contents'
<1> USE LogConstants
<1>0. TypeOK /\ Control /\ Contents /\ Len(lh) <= NLOG - 1
  BY Region DEF IInv
<1> DEFINE b == lh[tail]
<1>1. /\ sys = "replay" /\ sys' = "replay" /\ ReplayContents
      /\ UNCHANGED <<logblk, head, lh>>
      /\ tail' = tail + 1 /\ tail \in DOMAIN lh /\ b \in Blocks
      /\ cache'[b] = logblk[tail] /\ \A c \in Blocks \ {b} : cache'[c] = cache[c]
      /\ home'[b] = logblk[tail] /\ \A c \in Blocks \ {b} : home'[c] = home[c]
      /\ dirty' = dirty \ {b}
  BY <1>0 DEF RecoverInstall, InstallTrans, Contents, TypeOK
<1>2. \A i \in DOMAIN lh' : i < tail' => home'[lh'[i]] = logblk'[i]
  <2> SUFFICES ASSUME NEW i \in DOMAIN lh, i < tail + 1
               PROVE  home'[lh[i]] = logblk[i]
    BY <1>1
  <2>1. i \in Nat /\ tail \in Nat /\ lh[i] \in Blocks
    BY <1>0 DEF TypeOK
  <2>2. CASE i = tail
    BY <1>1, <2>2
  <2>3. CASE i # tail
    <3>1. i < tail /\ lh[i] # b
      BY <1>0, <1>1, <2>1, <2>3 DEF Contents, Distinct
    <3> QED
      BY <1>1, <2>1, <3>1 DEF ReplayContents
  <2> QED
    BY <2>2, <2>3
<1>3. ReplayContents'
  BY <1>1, <1>2 DEF ReplayContents
<1> QED
  BY <1>0, <1>1, <1>3 DEF Contents, Distinct

LEMMA ContentsRecover ==
    ASSUME IInv, ReadHead \/ RecoverErase \/ Crash
    PROVE  Contents'
<1>0. TypeOK /\ Control /\ Contents
  BY DEF IInv
<1>1. CASE Crash
  BY <1>0, <1>1 DEF Crash, Reset, Contents, Distinct, diskVars
<1>2. CASE ReadHead
  <2>1. /\ sys = "recover" /\ sys' = "replay" /\ lh' = head /\ head' = head
        /\ UNCHANGED <<home, logblk, cache, dirty, tail>>
    BY <1>2 DEF ReadHead, diskVars, bufVars
  <2>2. \A i \in DOMAIN head : i >= 1
    BY <1>0 DEF TypeOK
  <2>3. \A i \in DOMAIN lh' : ~(i < tail')
    BY <1>0, <2>1, <2>2 DEF Contents, TypeOK
  <2> QED
    BY <1>0, <2>1, <2>3 DEF Contents, ReplayContents, Distinct
<1>3. CASE RecoverErase
  <2>1. /\ sys = "replay" /\ sys' = "up" /\ lh' = <<>> /\ head' = <<>>
        /\ UNCHANGED <<home, logblk, cache, dirty, pc, cur>>
    BY <1>3 DEF RecoverErase, EraseLog, bufVars
  <2>2. \A p \in Procs : pc[p] = "idle" /\ cur[p] = NoBlock
    BY <1>0, <2>1 DEF Control
  <2>3. UpContents'
    BY <1>0, <2>1, <2>2 DEF UpContents, Contents, ReplayContents
  <2> QED
    BY <2>1, <2>3 DEF Contents, Distinct
<1> QED
  BY <1>1, <1>2, <1>3

LEMMA ContentsStep ==
    ASSUME LogBudget, IInv, [Next]_vars
    PROVE  Contents'
<1>0. TypeOK /\ Control /\ Contents
  BY DEF IInv
<1>1. \A i \in DOMAIN lh : i \in Nat \ {0}
  BY <1>0 DEF TypeOK
<1>2. ASSUME NEW p \in Procs, Call(p) \/ Begin(p) \/ LogWriteCheck(p)
      PROVE  Contents'
  <2>1. /\ sys = "up" /\ UNCHANGED <<home, logblk, head, cache, dirty, lh, cur, tail>>
        /\ pc[p] \notin InCommit
        /\ \A q \in Procs \ {p} : pc'[q] = pc[q]
        /\ pc'[p] \notin InCommit
    BY <1>0, <1>2 DEF Call, Begin, BeginSleep, BeginOp, LogWriteCheck,
                      TypeOK, diskVars, bufVars, logVars, InCommit
  <2>2. sys' = "up"
    <3>1. Control'
      BY ControlStep
    <3> QED
      BY <1>2, <2>1, <3>1 DEF Call, Begin, BeginSleep, BeginOp, LogWriteCheck,
                              Control, NoPanic
  <2> QED
    BY <1>0, <1>1, <2>1, <2>2, ContentsQuiet DEF InCommit
<1>3. ASSUME NEW p \in Procs, EndOp(p)
      PROVE  Contents'
  <2>1. /\ sys = "up" /\ UNCHANGED <<home, logblk, head, cache, dirty, lh, cur>>
        /\ tail' \in {tail, 1}
        /\ \A q \in Procs : pc'[q] = pc[q] \/ pc'[q] \in {"begin", "idle", "wlog"}
        /\ \A q \in Procs : pc'[q] = "wlog" => pc[q] = "wlog" \/ tail' = 1
    BY <1>0, <1>3 DEF EndOp, TypeOK, Woken, diskVars, bufVars
  <2>2. ~committing /\ \A q \in Procs : pc[q] \notin InCommit
    BY <1>0, <1>3 DEF EndOp, Control, Active, InOp
  <2>3. sys' = "up"
    BY <1>3, <2>2 DEF EndOp
  <2> QED
    BY <1>0, <1>1, <2>1, <2>2, <2>3, ContentsQuiet DEF InCommit
<1>4. ASSUME NEW p \in Procs, EndCommit(p)
      PROVE  Contents'
  <2>1. /\ sys = "up" /\ sys' = "up"
        /\ UNCHANGED <<home, logblk, head, cache, dirty, lh, cur, tail>>
        /\ pc[p] \in {"wlog", "done"} /\ pc'[p] = "idle"
        /\ \A q \in Procs \ {p} : \/ pc'[q] = pc[q]
                                  \/ pc[q] = "sleeping" /\ pc'[q] = "begin"
    BY <1>0, <1>4 DEF EndCommit, TypeOK, Woken, diskVars, bufVars
  <2> QED
    BY <1>0, <1>1, <2>1, ContentsQuiet
<1>5. CASE UNCHANGED vars
  BY <1>0, <1>5 DEF vars, diskVars, bufVars, logVars, procVars, Contents,
     UpContents, ReplayContents, BufData, Distinct, In
<1> QED
  BY <1>2, <1>3, <1>4, <1>5, ContentsModify, ContentsAppend, ContentsWriteLog,
     ContentsWriteHead, ContentsInstall, ContentsErase, ContentsCache,
     ContentsReplay, ContentsRecover
  DEF Next, Running, Log_write, Commit, Recover

-----------------------------------------------------------------------------
(* The invariants of the specification.                                    *)

LEMMA InitInv ==
    ASSUME Init
    PROVE  IInv
<1> USE LogConstants DEF Init
<1>1. TypeOK
  <2>1. lh \in Seq(Blocks) /\ head \in Seq(Blocks)
    OBVIOUS
  <2>2. /\ pc \in [Procs -> {"idle", "begin", "sleeping"} \cup InOp \cup InCommit]
        /\ cur \in [Procs -> Blocks \cup {NoBlock}]
        /\ wrote \in [Procs -> SUBSET Blocks]
    OBVIOUS
  <2>3. /\ home \in [Blocks -> Values] /\ logblk \in [1 .. NLOG - 1 -> Values]
        /\ cache \in [Blocks -> Values \cup {NoBuf}] /\ dirty \in SUBSET Blocks
        /\ outstanding \in Nat /\ tail \in Nat \ {0}
        /\ sys \in {"recover", "replay", "up", "panic"}
    OBVIOUS
  <2> QED
    BY <2>1, <2>2, <2>3, Zenon DEF TypeOK
<1>2. Control
  <2>1. Active = {}
    BY DEF Active, InOp
  <2> QED
    BY <2>1, FS_EmptySet DEF Control, NoPanic, InOp, InCommit
<1>3. Reserve
  <2>1. Unused = {}
    BY DEF Unused, InOp
  <2> QED
    BY <2>1 DEF Reserve, ReservationFits, InOp
<1>4. Contents
  BY DEF Contents, Distinct
<1> QED
  BY <1>1, <1>2, <1>3, <1>4 DEF IInv

\* The inductive invariant holds in every reachable state: who may be in
\* begin_op, log_write and commit, how full the log is, and what the cache,
\* the log and the home blocks hold.
THEOREM Invariance ==
    ASSUME LogBudget
    PROVE  Spec => []IInv
<1>1. Init => IInv
  BY InitInv
<1>2. IInv /\ [Next]_vars => IInv'
  <2> SUFFICES ASSUME IInv, [Next]_vars  PROVE IInv'
    OBVIOUS
  <2>1. Reserved
    BY LogConstants DEF LogBudget, Reserved
  <2> QED
    BY <2>1, Within, TypeStep, ControlStep, ReserveStep, ContentsStep DEF IInv
<1> QED
  BY <1>1, <1>2, PTL DEF Spec

\* Every variable keeps its type; in particular install_trans reads only log
\* blocks inside the log's region of the disk.
THEOREM TypeCorrect ==
    ASSUME LogBudget
    PROVE  Spec => []TypeOK
<1>1. IInv => TypeOK
  BY DEF IInv
<1> QED
  BY <1>1, Invariance, PTL

\* The buffer cache never drops contents that are not at home yet.
THEOREM Pinned ==
    ASSUME LogBudget
    PROVE  Spec => []PinnedUntilInstalled
<1>1. IInv => PinnedUntilInstalled
  BY DEF IInv, Contents, UpContents, PinnedUntilInstalled, BufData
<1> QED
  BY <1>1, Invariance, PTL

\* A home block changes only while the on-disk header lists it.
THEOREM WritesAhead ==
    ASSUME LogBudget
    PROVE  Spec => WriteAhead
<1> DEFINE Ahead == \A b \in Blocks : home'[b] # home[b] => In(b, head)
<1>1. ASSUME IInv, [Next]_vars
      PROVE  [Ahead]_vars
  <2>1. ASSUME InstallTrans, head = lh
        PROVE  Ahead
    BY <1>1, <2>1 DEF InstallTrans, In, IInv, TypeOK
  <2>2. ASSUME NEW p \in Procs, Install(p)
        PROVE  Ahead
    BY <1>1, <2>1, <2>2 DEF Install, IInv, Contents, UpContents
  <2>3. CASE RecoverInstall
    BY <1>1, <2>1, <2>3 DEF RecoverInstall, IInv, Contents, ReplayContents
  <2>4. CASE UNCHANGED vars
    BY <2>4
  <2>5. CASE UNCHANGED home
    BY <2>5
  <2> QED
    BY <1>1, <2>2, <2>3, <2>4, <2>5
    DEF Next, Running, Call, Begin, BeginSleep, BeginOp, Log_write, LogWriteCheck,
        LogWriteAppend, EndOp, Commit, WriteLog, WriteHead, Erase, EraseLog,
        EndCommit, Modify, Bread, Evict, Recover, ReadHead, RecoverErase, Crash,
        diskVars
<1> QED
  BY <1>1, Invariance, PTL DEF Spec, WriteAhead

-----------------------------------------------------------------------------
(* Refinement: log.c implements the atomic disk.                           *)

LEMMA IndexOf ==
    ASSUME NEW s, Distinct(s), NEW i \in DOMAIN s
    PROVE  In(s[i], s) /\ (CHOOSE j \in DOMAIN s : s[j] = s[i]) = i
BY DEF Distinct, In

LEMMA RecoveredHome ==
    ASSUME TypeOK, head = <<>>
    PROVE  Recovered = home
BY DEF Recovered, In, TypeOK

\* Steps of the log that the atomic disk does not see.
LEMMA RefineStutter ==
    ASSUME UNCHANGED <<Seen, Recovered, committing, Active>>
    PROVE  UNCHANGED Disk!vars
BY DEF Disk!vars, Active

LEMMA RefineControl ==
    ASSUME IInv, IInv', NEW p \in Procs,
           Call(p) \/ BeginSleep(p) \/ LogWriteCheck(p) \/ LogWriteAppend(p)
    PROVE  UNCHANGED Disk!vars
<1>0. TypeOK /\ Control /\ Control'
  BY DEF IInv
<1>1. /\ sys = "up" /\ sys' = "up"
      /\ UNCHANGED <<home, logblk, head, cache, committing>>
  <2>1. sys = "up" /\ sys' \in {"up", "panic"}
    BY <1>0 DEF Call, BeginSleep, LogWriteCheck, LogWriteAppend
  <2> QED
    BY <1>0, <2>1 DEF Call, BeginSleep, LogWriteCheck, LogWriteAppend, Control,
                      NoPanic, diskVars, bufVars, logVars
<1>2. Active' = Active
  BY <1>0 DEF Call, BeginSleep, LogWriteCheck, LogWriteAppend, TypeOK, Active, InOp
<1>3. Recovered' = Recovered /\ Seen' = Seen
  BY <1>1 DEF Recovered, Seen, BufData
<1> QED
  BY <1>1, <1>2, <1>3, RefineStutter

LEMMA RefineBegin ==
    ASSUME IInv, NEW p \in Procs, BeginOp(p)
    PROVE  Disk!Begin(p)
<1>0. TypeOK
  BY DEF IInv
<1>1. /\ p \notin Active /\ Active' = Active \cup {p}
      /\ ~committing /\ committing' = committing
  BY <1>0 DEF BeginOp, Active, TypeOK, InOp
<1>2. Recovered' = Recovered /\ Seen' = Seen
  BY DEF BeginOp, Recovered, Seen, BufData, diskVars, bufVars
<1> QED
  BY <1>1, <1>2 DEF Disk!Begin, Active

LEMMA RefineWrite ==
    ASSUME IInv, NEW p \in Procs, NEW b \in Blocks, NEW v \in Values, Modify(p, b, v)
    PROVE  Disk!Write(p, b, v)
<1> USE LogConstants
<1>0. TypeOK
  BY DEF IInv
<1>1. p \in Active /\ Active' = Active /\ committing' = committing
  BY <1>0 DEF Modify, Active, TypeOK, InOp, logVars
<1>2. Recovered' = Recovered
  BY DEF Modify, Recovered, diskVars
<1>3. Seen' = [Seen EXCEPT ![b] = v]
  <2>1. /\ sys = "up" /\ sys' = "up" /\ home' = home
        /\ cache' = [cache EXCEPT ![b] = v] /\ v # NoBuf
    BY DEF Modify, diskVars
  <2> QED
    BY <1>0, <2>1 DEF Seen, BufData, TypeOK
<1> QED
  BY <1>1, <1>2, <1>3 DEF Disk!Write, Active

LEMMA RefineEnd ==
    ASSUME IInv, NEW p \in Procs, EndOp(p)
    PROVE  Disk!End(p)
<1>0. TypeOK /\ Control
  BY DEF IInv
<1>1. p \in Active /\ ~committing
  BY <1>0 DEF EndOp, Active, InOp, Control
<1>2. outstanding = 1 <=> Active = {p}
  <2>1. Active = {p} => outstanding = 1
    BY <1>0, FS_Singleton DEF Control
  <2>2. IsFiniteSet(Active \ {p}) /\ Cardinality(Active \ {p}) = Cardinality(Active) - 1
    BY <1>1, ActiveFinite, FS_RemoveElement
  <2>3. outstanding = 1 => Active \ {p} = {}
    BY <1>0, <2>2, FS_EmptySet DEF Control
  <2> QED
    BY <1>1, <2>1, <2>3
<1>3. Active' = Active \ {p}
  <2>1. CASE outstanding = 1
    BY <1>0, <2>1 DEF EndOp, Active, TypeOK, InOp
  <2>2. CASE outstanding # 1
    BY <1>0, <2>2 DEF EndOp, Active, TypeOK, InOp, Woken
  <2> QED
    BY <2>1, <2>2
<1>4. committing' = (Active = {p})
  <2>1. CASE outstanding = 1
    BY <1>2, <2>1 DEF EndOp
  <2>2. CASE outstanding # 1
    BY <1>0, <1>1, <1>2, <2>2 DEF EndOp, TypeOK
  <2> QED
    BY <2>1, <2>2
<1>5. Recovered' = Recovered /\ Seen' = Seen
  <2>1. sys = "up" /\ sys' = "up" /\ UNCHANGED <<home, logblk, head, cache>>
    BY <1>1 DEF EndOp, diskVars, bufVars
  <2> QED
    BY <2>1 DEF Recovered, Seen, BufData
<1> QED
  BY <1>1, <1>3, <1>4, <1>5 DEF Disk!End, Active

\* The log blocks are written before the header: recovery still sees home.
LEMMA RefineWriteLog ==
    ASSUME IInv, NEW p \in Procs, WriteLog(p)
    PROVE  UNCHANGED Disk!vars
<1> USE LogConstants
<1>0. TypeOK /\ Control /\ UpContents
  BY DEF IInv, Contents, WriteLog
<1>1. /\ sys = "up" /\ sys' = "up"
      /\ UNCHANGED <<home, head, pc, committing>>
      /\ cache' = [cache EXCEPT ![lh[tail]] = BufData(lh[tail])]
      /\ pc[p] = "wlog"
  BY DEF WriteLog, procVars
<1>2. head = <<>>
  BY <1>0, <1>1, CommitterAlone DEF UpContents, InCommit
<1>3. Recovered' = Recovered
  BY <1>1, <1>2 DEF Recovered, In
<1>4. Seen' = Seen
  BY <1>0, <1>1 DEF Seen, BufData, TypeOK
<1>5. Active' = Active
  BY <1>1 DEF Active
<1> QED
  BY <1>1, <1>3, <1>4, <1>5, RefineStutter

\* write_head is the instant at which the whole group becomes durable.
LEMMA RefineCommit ==
    ASSUME IInv, NEW p \in Procs, WriteHead(p)
    PROVE  Disk!Commit
<1> USE LogConstants
<1>0. TypeOK /\ Control /\ Contents /\ UpContents
  BY DEF IInv, Contents, WriteHead
<1>1. /\ sys = "up" /\ sys' = "up" /\ pc[p] = "wlog" /\ tail > Len(lh)
      /\ UNCHANGED <<home, logblk, cache, committing>> /\ head' = lh
  BY DEF WriteHead, bufVars
<1>2. committing /\ \A q \in Procs : cur[q] = NoBlock
  BY <1>0, <1>1, CommitterAlone DEF Control, InCommit
<1>3. Active' = Active
  BY <1>0 DEF WriteHead, Active, TypeOK, InOp
<1>4. Seen' = Seen /\ Seen = [b \in Blocks |-> BufData(b)]
  BY <1>1 DEF Seen, BufData
<1>5. Recovered' = Seen
  <2>1. \A i \in DOMAIN lh : logblk[i] = BufData(lh[i])
    BY <1>0, <1>1 DEF UpContents, TypeOK
  <2>2. \A b \in Blocks : In(b, lh) =>
           logblk[CHOOSE i \in DOMAIN lh : lh[i] = b] = BufData(b)
    BY <1>0, <2>1, IndexOf DEF Contents, In
  <2>3. \A b \in Blocks : ~In(b, lh) => home[b] = BufData(b)
    BY <1>0, <1>2 DEF UpContents, BufData
  <2>4. Recovered' = [b \in Blocks |-> IF In(b, lh)
                         THEN logblk[CHOOSE i \in DOMAIN lh : lh[i] = b]
                         ELSE home[b]]
    BY <1>1 DEF Recovered, In
  <2> QED
    BY <1>4, <2>2, <2>3, <2>4
<1> QED
  BY <1>1, <1>2, <1>3, <1>4, <1>5 DEF Disk!Commit, Active

\* install_trans copies home what recovery would copy.
LEMMA RecoveredInstall ==
    ASSUME TypeOK, InstallTrans, head = lh
    PROVE  Recovered' = Recovered
<1>1. /\ UNCHANGED <<logblk, head>>
      /\ \A b \in Blocks : ~In(b, head) => home'[b] = home[b]
  BY DEF InstallTrans, In, TypeOK
<1> QED
  BY <1>1 DEF Recovered, In

LEMMA RefineInstall ==
    ASSUME LogBudget, IInv, NEW p \in Procs, Install(p)
    PROVE  UNCHANGED Disk!vars
<1> USE LogConstants
<1>0. TypeOK /\ Control /\ Contents /\ UpContents /\ Len(lh) <= NLOG - 1
  BY Region DEF IInv, Contents, Install
<1>1. /\ sys = "up" /\ sys' = "up" /\ UNCHANGED <<pc, committing>>
      /\ head = lh /\ InstallTrans
      /\ logblk[tail] = BufData(lh[tail]) /\ logblk[tail] \in Values
      /\ lh[tail] \in Blocks
  BY <1>0 DEF Install, InstallTrans, procVars, UpContents, TypeOK
<1>2. Recovered' = Recovered
  BY <1>0, <1>1, RecoveredInstall
<1>3. Seen' = Seen
  <2>1. /\ cache' = [cache EXCEPT ![lh[tail]] = logblk[tail]]
        /\ home' = [home EXCEPT ![lh[tail]] = logblk[tail]]
    BY <1>1 DEF InstallTrans
  <2>2. \A b \in Blocks : BufData(b)' = BufData(b)
    BY <1>0, <1>1, <2>1 DEF BufData, TypeOK
  <2> QED
    BY <1>1, <2>2 DEF Seen, BufData
<1>4. Active' = Active
  BY <1>1 DEF Active
<1> QED
  BY <1>1, <1>2, <1>3, <1>4, RefineStutter

\* The header is erased only when every block is at home.
LEMMA RecoveredErase ==
    ASSUME TypeOK, Contents, head = lh, tail > Len(lh),
           \A i \in DOMAIN lh : i < tail => home[lh[i]] = logblk[i]
    PROVE  Recovered = home
<1>1. \A i \in DOMAIN lh : home[lh[i]] = logblk[i]
  BY DEF TypeOK
<1>2. \A b \in Blocks : In(b, head) =>
         logblk[CHOOSE i \in DOMAIN head : head[i] = b] = home[b]
  BY <1>1, IndexOf DEF Contents, In
<1> QED
  BY <1>2 DEF Recovered, TypeOK

LEMMA RefineErase ==
    ASSUME IInv, IInv', NEW p \in Procs, Erase(p)
    PROVE  UNCHANGED Disk!vars
<1>0. TypeOK /\ Control /\ Contents /\ UpContents
  BY DEF IInv, Contents, Erase
<1>1. /\ sys = "up" /\ sys' = "up" /\ UNCHANGED <<home, cache, committing>>
      /\ pc[p] = "install" /\ tail > Len(lh) /\ head' = <<>>
  BY DEF Erase, EraseLog, bufVars
<1>2. \A q \in Procs : cur[q] = NoBlock
  BY <1>0, <1>1, CommitterAlone DEF InCommit
<1>3. head = lh /\ \A i \in DOMAIN lh : i < tail => home[lh[i]] = logblk[i]
  BY <1>0, <1>1, <1>2, LogConstants DEF UpContents, BufData, TypeOK
<1>4. Recovered = home
  BY <1>0, <1>1, <1>3, RecoveredErase
<1>5. Recovered' = home
  BY <1>0, <1>1 DEF Recovered, In, TypeOK
<1>6. Seen' = Seen
  BY <1>1 DEF Seen, BufData
<1>7. Active' = Active
  BY <1>0 DEF Erase, Active, TypeOK, InOp
<1> QED
  BY <1>1, <1>4, <1>5, <1>6, <1>7, RefineStutter

LEMMA RefineReturn ==
    ASSUME IInv, NEW p \in Procs, EndCommit(p)
    PROVE  Disk!Return
<1>0. TypeOK /\ Control /\ UpContents
  BY DEF IInv, Contents, EndCommit
<1>1. /\ sys = "up" /\ sys' = "up" /\ UNCHANGED <<home, logblk, head, cache>>
      /\ pc[p] \in {"wlog", "done"} /\ lh = <<>> /\ committing' = FALSE
  BY <1>0 DEF EndCommit, UpContents, diskVars, bufVars
<1>2. committing /\ \A q \in Procs : cur[q] = NoBlock /\ pc[q] # "install"
  BY <1>0, <1>1, CommitterAlone DEF Control, InCommit
<1>3. head = <<>> /\ dirty = {}
  BY <1>0, <1>1, <1>2 DEF UpContents, In
<1>4. Recovered = home
  BY <1>0, <1>3, RecoveredHome
<1>5. Seen = home
  BY <1>0, <1>1, <1>2, <1>3, LogConstants DEF Seen, BufData, UpContents, TypeOK
<1>6. Active' = Active
  BY <1>0 DEF EndCommit, Active, TypeOK, InOp, Woken
<1>7. Recovered' = Recovered /\ Seen' = Seen
  BY <1>1 DEF Recovered, Seen, BufData
<1> QED
  BY <1>1, <1>2, <1>4, <1>5, <1>6, <1>7 DEF Disk!Return, Active

LEMMA RefineCache ==
    ASSUME IInv, NEW b \in Blocks, Bread(b) \/ Evict(b)
    PROVE  UNCHANGED Disk!vars
<1> USE LogConstants
<1>0. TypeOK /\ UpContents
  BY DEF IInv, Contents, Bread, Evict
<1>1. /\ sys = "up" /\ sys' = "up" /\ UNCHANGED <<home, logblk, head, committing, pc>>
      /\ \A c \in Blocks : BufData(c)' = BufData(c)
  BY <1>0 DEF Bread, Evict, UpContents, BufData, TypeOK, diskVars, logVars, procVars
<1>2. Recovered' = Recovered /\ Seen' = Seen
  BY <1>1 DEF Recovered, Seen, BufData
<1>3. Active' = Active
  BY <1>1 DEF Active
<1> QED
  BY <1>1, <1>2, <1>3, RefineStutter

LEMMA RefineRecover ==
    ASSUME LogBudget, IInv, Recover
    PROVE  UNCHANGED Disk!vars
<1>0. TypeOK /\ Control /\ Contents
  BY DEF IInv
<1>1. UNCHANGED <<pc, committing>> /\ Active' = Active
  BY DEF Recover, ReadHead, RecoverInstall, RecoverErase, InstallTrans, EraseLog,
         procVars, Active
<1>2. CASE ReadHead
  BY <1>1, <1>2, RefineStutter DEF ReadHead, Recovered, Seen, diskVars
<1>3. CASE RecoverInstall
  <2>1. sys = "replay" /\ sys' = "replay" /\ InstallTrans /\ head = lh
    BY <1>0, <1>3 DEF RecoverInstall, InstallTrans, Contents, ReplayContents
  <2>2. Recovered' = Recovered
    BY <1>0, <2>1, RecoveredInstall
  <2>3. Seen' = Seen
    BY <2>1, <2>2 DEF Seen
  <2> QED
    BY <1>1, <2>2, <2>3, RefineStutter
<1>4. CASE RecoverErase
  <2>1. /\ sys = "replay" /\ sys' = "up" /\ UNCHANGED <<home, cache>>
        /\ head' = <<>> /\ tail > Len(lh) /\ ReplayContents
    BY <1>0, <1>4 DEF RecoverErase, EraseLog, bufVars, Contents
  <2>2. Recovered = home
    BY <1>0, <2>1, RecoveredErase DEF ReplayContents
  <2>3. Recovered' = home
    BY <1>0, <2>1 DEF Recovered, In, TypeOK
  <2>4. Seen' = home
    BY <1>0, <2>1 DEF Seen, BufData, ReplayContents, TypeOK
  <2>5. Seen = Recovered
    BY <2>1 DEF Seen
  <2> QED
    BY <1>1, <2>2, <2>3, <2>4, <2>5, RefineStutter
<1> QED
  BY <1>2, <1>3, <1>4 DEF Recover

LEMMA RefineCrash ==
    ASSUME Crash
    PROVE  Disk!Crash
<1>1. Active' = {} /\ committing' = FALSE
  BY DEF Crash, Reset, Active, InOp
<1>2. Recovered' = Recovered /\ Seen' = Recovered'
  BY DEF Crash, Recovered, Seen, diskVars
<1> QED
  BY <1>1, <1>2 DEF Disk!Crash, Active

\* log.c implements the atomic disk, for every number of processes, blocks
\* and values: whatever the interleaving and wherever the machine stops, what
\* recovery leaves is the state at the last instant with no call running.
THEOREM Atomicity ==
    ASSUME LogBudget
    PROVE  Spec => AtomicGroups
<1>1. Init => Disk!Init
  <2> SUFFICES ASSUME Init PROVE Disk!Init
    OBVIOUS
  <2>1. Recovered = home /\ Seen = Recovered
    BY DEF Init, Recovered, Seen, In
  <2> QED
    BY <2>1 DEF Init, Disk!Init, InOp
<1>2. ASSUME IInv, IInv', [Next]_vars
      PROVE  [Disk!Next]_Disk!vars
  <2>1. CASE UNCHANGED vars
    BY <2>1 DEF vars, diskVars, bufVars, logVars, procVars, Disk!vars, Recovered,
                Seen, BufData, In
  <2>2. ASSUME NEW p \in Procs, Call(p) \/ Begin(p) \/ Log_write(p) \/ EndOp(p) \/ Commit(p)
        PROVE  [Disk!Next]_Disk!vars
    BY <1>2, <2>2, RefineControl, RefineBegin, RefineEnd, RefineWriteLog,
       RefineCommit, RefineInstall, RefineErase, RefineReturn
    DEF Begin, Log_write, Commit, Disk!Next
  <2>3. ASSUME NEW p \in Procs, NEW b \in Blocks, NEW v \in Values, Modify(p, b, v)
        PROVE  [Disk!Next]_Disk!vars
    BY <1>2, <2>3, RefineWrite DEF Disk!Next
  <2>4. ASSUME NEW b \in Blocks, Bread(b) \/ Evict(b)
        PROVE  [Disk!Next]_Disk!vars
    BY <1>2, <2>4, RefineCache
  <2>5. CASE Recover
    BY <1>2, <2>5, RefineRecover
  <2>6. CASE Crash
    BY <2>6, RefineCrash DEF Disk!Next
  <2> QED
    BY <1>2, <2>1, <2>2, <2>3, <2>4, <2>5, <2>6 DEF Next, Running
<1> QED
  BY <1>1, <1>2, Invariance, PTL DEF Spec, AtomicGroups, Disk!Spec
=============================================================================
