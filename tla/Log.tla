-------------------------------- MODULE Log --------------------------------
(***************************************************************************)
(* The write-ahead log of the xv6 file system, OS_project/xv6-public/      *)
(* log.c, with the part of the buffer cache it relies on (a block that     *)
(* log_write marked B_DIRTY is not evicted, bio.c) and with crashes.  One  *)
(* action is what a process does under log.lock, or one disk write: the    *)
(* machine may stop between any two of them.                               *)
(***************************************************************************)
EXTENDS Naturals, Sequences, FiniteSets
LOCAL INSTANCE TLC

CONSTANTS
    Procs,        \* processes issuing file-system calls
    Blocks,       \* home blocks the calls write
    Values,       \* contents of a block
    Zero,         \* a block as mkfs writes it
    MAXOPBLOCKS,  \* param.h: blocks begin_op reserves for a call
    LOGSIZE,      \* param.h: length of logheader.block[]
    NLOG,         \* sb.nlog: blocks of the on-disk log, its header included
    OpBlocks,     \* distinct blocks a call really writes
    NoBuf,        \* "block not in the buffer cache"
    NoBlock       \* "holds no buffer"

ASSUME LogConstants ==
    /\ MAXOPBLOCKS \in Nat \ {0} /\ LOGSIZE \in Nat /\ NLOG \in Nat \ {0}
    /\ OpBlocks \in Nat
    /\ Zero \in Values /\ NoBuf \notin Values
    /\ NoBlock \notin Blocks
    /\ IsFiniteSet(Procs)

VARIABLES
    home, logblk, head,             \* disk: home blocks, log blocks, log header
    cache, dirty,                   \* buffer cache: data, B_DIRTY buffers
    lh, outstanding, committing,    \* struct log
    tail,                           \* loop variable of write_log and install_trans
    pc, cur, wrote,                 \* per process: step, locked buffer, blocks logged
    sys                             \* boot phase, "up" or "panic"

diskVars == <<home, logblk, head>>
bufVars  == <<cache, dirty>>
logVars  == <<lh, outstanding, committing, tail>>
procVars == <<pc, cur, wrote>>
vars     == <<diskVars, bufVars, logVars, procVars, sys>>

InOp == {"op", "check", "append"}
InCommit == {"wlog", "install", "done"}

In(b, s) == \E i \in DOMAIN s : s[i] = b

\* What bread(b) returns: the cached copy, else the block on disk.
BufData(b) == IF cache[b] = NoBuf THEN home[b] ELSE cache[b]

-----------------------------------------------------------------------------
(* wakeup(&log): every sleeper of begin_op tries again.                    *)
Woken(f) == [p \in Procs |-> IF f[p] = "sleeping" THEN "begin" ELSE f[p]]

(* Mutant: the admission test forgets the calls already running.           *)
NoRoom_ignores_running == Len(lh) + MAXOPBLOCKS > LOGSIZE

(* begin_op: the log has no room for one more call of MAXOPBLOCKS blocks.  *)
NoRoom == Len(lh) + (outstanding + 1) * MAXOPBLOCKS > LOGSIZE

\* A process enters begin_op.
Call(p) ==
    /\ sys = "up" /\ pc[p] = "idle"
    /\ pc' = [pc EXCEPT ![p] = "begin"]
    /\ UNCHANGED <<diskVars, bufVars, logVars, cur, wrote, sys>>

\* sleep(&log, &log.lock): atomic, as the sleep/wakeup protocol makes it.
BeginSleep(p) ==
    /\ sys = "up" /\ pc[p] = "begin"
    /\ committing \/ NoRoom
    /\ pc' = [pc EXCEPT ![p] = "sleeping"]
    /\ UNCHANGED <<diskVars, bufVars, logVars, cur, wrote, sys>>

\* Mutant: the running call is not counted.
BeginOp_uncounted(p) ==
    /\ sys = "up" /\ pc[p] = "begin"
    /\ ~committing /\ ~NoRoom
    /\ pc' = [pc EXCEPT ![p] = "op"]
    /\ wrote' = [wrote EXCEPT ![p] = {}]
    /\ UNCHANGED <<diskVars, bufVars, lh, outstanding, committing, tail, cur, sys>>

BeginOp(p) ==
    /\ sys = "up" /\ pc[p] = "begin"
    /\ ~committing /\ ~NoRoom
    /\ outstanding' = outstanding + 1
    /\ pc' = [pc EXCEPT ![p] = "op"]
    /\ wrote' = [wrote EXCEPT ![p] = {}]
    /\ UNCHANGED <<diskVars, bufVars, lh, committing, tail, cur, sys>>

-----------------------------------------------------------------------------
(* A caller's bread(b), change of b->data, log_write(b), brelse(b).  The   *)
(* buffer is locked throughout; log_write looks at the log's fill before   *)
(* it takes log.lock.                                                      *)
Modify(p, b, v) ==
    /\ sys = "up" /\ pc[p] = "op"
    /\ \A q \in Procs : cur[q] # b
    /\ b \in wrote[p] \/ Cardinality(wrote[p]) < OpBlocks
    /\ cache' = [cache EXCEPT ![b] = v]
    /\ cur' = [cur EXCEPT ![p] = b]
    /\ pc' = [pc EXCEPT ![p] = "check"]
    /\ UNCHANGED <<diskVars, dirty, logVars, wrote, sys>>

LogWriteCheck(p) ==
    /\ sys = "up" /\ pc[p] = "check"
    /\ IF Len(lh) >= LOGSIZE \/ Len(lh) >= NLOG - 1 \/ outstanding < 1
       THEN sys' = "panic" /\ UNCHANGED pc
       ELSE pc' = [pc EXCEPT ![p] = "append"] /\ UNCHANGED sys
    /\ UNCHANGED <<diskVars, bufVars, logVars, cur, wrote>>

\* Mutant: the buffer is not pinned.
LogWriteAppend_unpinned(p) ==
    /\ sys = "up" /\ pc[p] = "append"
    /\ lh' = IF In(cur[p], lh) THEN lh ELSE Append(lh, cur[p])
    /\ wrote' = [wrote EXCEPT ![p] = @ \cup {cur[p]}]
    /\ cur' = [cur EXCEPT ![p] = NoBlock]
    /\ pc' = [pc EXCEPT ![p] = "op"]
    /\ UNCHANGED <<diskVars, bufVars, outstanding, committing, tail, sys>>

LogWriteAppend(p) ==
    /\ sys = "up" /\ pc[p] = "append"
    /\ lh' = IF In(cur[p], lh) THEN lh ELSE Append(lh, cur[p])
    /\ dirty' = dirty \cup {cur[p]}
    /\ wrote' = [wrote EXCEPT ![p] = @ \cup {cur[p]}]
    /\ cur' = [cur EXCEPT ![p] = NoBlock]
    /\ pc' = [pc EXCEPT ![p] = "op"]
    /\ UNCHANGED <<diskVars, cache, outstanding, committing, tail, sys>>

-----------------------------------------------------------------------------
(* end_op, and the commit the last of a group runs without log.lock.       *)

\* Mutant: write_log's loop starts one block early.
EndOp_tail_zero(p) ==
    /\ sys = "up" /\ pc[p] = "op"
    /\ outstanding' = outstanding - 1
    /\ IF outstanding = 1
       THEN committing' = TRUE /\ tail' = 0 /\ pc' = [pc EXCEPT ![p] = "wlog"]
       ELSE /\ pc' = Woken([pc EXCEPT ![p] = "idle"])
            /\ UNCHANGED <<committing, tail>>
    /\ UNCHANGED <<diskVars, bufVars, lh, cur, wrote, sys>>

EndOp(p) ==
    /\ sys = "up" /\ pc[p] = "op"
    /\ outstanding' = outstanding - 1
    /\ sys' = IF committing THEN "panic" ELSE sys
    /\ IF outstanding = 1
       THEN /\ committing' = TRUE
            /\ pc' = [pc EXCEPT ![p] = "wlog"]
            /\ tail' = 1
       ELSE /\ pc' = Woken([pc EXCEPT ![p] = "idle"])
            /\ UNCHANGED <<committing, tail>>
    /\ UNCHANGED <<diskVars, bufVars, lh, cur, wrote>>

\* One pass of write_log's loop: a cached block goes to the log.
WriteLog(p) ==
    /\ sys = "up" /\ pc[p] = "wlog" /\ tail <= Len(lh)
    /\ logblk' = [logblk EXCEPT ![tail] = BufData(lh[tail])]
    /\ cache' = [cache EXCEPT ![lh[tail]] = BufData(lh[tail])]
    /\ tail' = tail + 1
    /\ UNCHANGED <<home, head, dirty, lh, outstanding, committing, procVars, sys>>

\* Mutant: commit() installs without having written the header.
WriteHead_skipped(p) ==
    /\ sys = "up" /\ pc[p] = "wlog" /\ tail > Len(lh) /\ lh # <<>>
    /\ tail' = 1
    /\ pc' = [pc EXCEPT ![p] = "install"]
    /\ UNCHANGED <<diskVars, bufVars, lh, outstanding, committing, cur, wrote, sys>>

\* write_head: the header block makes the group committed.
WriteHead(p) ==
    /\ sys = "up" /\ pc[p] = "wlog" /\ tail > Len(lh) /\ lh # <<>>
    /\ head' = lh
    /\ tail' = 1
    /\ pc' = [pc EXCEPT ![p] = "install"]
    /\ UNCHANGED <<home, logblk, bufVars, lh, outstanding, committing, cur, wrote, sys>>

\* One pass of install_trans's loop, in a commit or in recovery: bwrite
\* writes the block home and ideintr clears B_DIRTY.
InstallTrans ==
    /\ tail <= Len(lh)
    /\ home' = [home EXCEPT ![lh[tail]] = logblk[tail]]
    /\ cache' = [cache EXCEPT ![lh[tail]] = logblk[tail]]
    /\ dirty' = dirty \ {lh[tail]}
    /\ tail' = tail + 1
    /\ UNCHANGED <<logblk, head, lh, outstanding, committing, procVars, sys>>

Install(p) == sys = "up" /\ pc[p] = "install" /\ InstallTrans

\* Mutant: the log is erased before every block is installed.
EraseLog_early ==
    /\ lh' = <<>>
    /\ head' = <<>>
    /\ UNCHANGED <<home, logblk, bufVars, outstanding, committing, tail, cur, wrote>>

\* log.lh.n = 0; write_head(): the transaction is erased from the log.
EraseLog ==
    /\ tail > Len(lh)
    /\ lh' = <<>>
    /\ head' = <<>>
    /\ UNCHANGED <<home, logblk, bufVars, outstanding, committing, tail, cur, wrote>>

Erase(p) ==
    /\ sys = "up" /\ pc[p] = "install"
    /\ EraseLog
    /\ pc' = [pc EXCEPT ![p] = "done"]
    /\ UNCHANGED sys

\* Mutant: end_op does not wake the processes waiting in begin_op.
EndCommit_no_wakeup(p) ==
    /\ sys = "up" /\ (pc[p] = "done" \/ (pc[p] = "wlog" /\ lh = <<>>))
    /\ committing' = FALSE
    /\ pc' = [pc EXCEPT ![p] = "idle"]
    /\ UNCHANGED <<diskVars, bufVars, lh, outstanding, tail, cur, wrote, sys>>

\* Mutant: log.committing is not reset.
EndCommit_no_reset(p) ==
    /\ sys = "up" /\ (pc[p] = "done" \/ (pc[p] = "wlog" /\ lh = <<>>))
    /\ pc' = Woken([pc EXCEPT ![p] = "idle"])
    /\ UNCHANGED <<diskVars, bufVars, lh, outstanding, committing, tail, cur, wrote, sys>>

\* end_op after commit(), which has nothing to do when lh.n = 0.
EndCommit(p) ==
    /\ sys = "up" /\ (pc[p] = "done" \/ (pc[p] = "wlog" /\ lh = <<>>))
    /\ committing' = FALSE
    /\ pc' = Woken([pc EXCEPT ![p] = "idle"])
    /\ UNCHANGED <<diskVars, bufVars, lh, outstanding, tail, cur, wrote, sys>>

-----------------------------------------------------------------------------
(* The buffer cache around the log: a reader outside any transaction       *)
(* (fileread) loads a block, bget recycles a clean unlocked buffer.        *)
Bread(b) ==
    /\ sys = "up" /\ cache[b] = NoBuf
    /\ cache' = [cache EXCEPT ![b] = home[b]]
    /\ UNCHANGED <<diskVars, dirty, logVars, procVars, sys>>

Evict(b) ==
    /\ sys = "up" /\ cache[b] # NoBuf /\ b \notin dirty
    /\ \A p \in Procs : cur[p] # b
    /\ cache' = [cache EXCEPT ![b] = NoBuf]
    /\ UNCHANGED <<diskVars, dirty, logVars, procVars, sys>>

-----------------------------------------------------------------------------
(* Power failure (or a reset after a panic), then initlog() run by the     *)
(* first process before any other exists.                                  *)
Reset == /\ cache' = [b \in Blocks |-> NoBuf] /\ dirty' = {}
         /\ lh' = <<>> /\ outstanding' = 0 /\ committing' = FALSE /\ tail' = 1
         /\ pc' = [p \in Procs |-> "idle"]
         /\ cur' = [p \in Procs |-> NoBlock]
         /\ wrote' = [p \in Procs |-> {}]

Crash == Reset /\ sys' = "recover" /\ UNCHANGED diskVars

\* recover_from_log: read_head, install_trans, lh.n = 0, write_head.
ReadHead ==
    /\ sys = "recover"
    /\ lh' = head
    /\ sys' = "replay"
    /\ UNCHANGED <<diskVars, bufVars, outstanding, committing, tail, procVars>>

RecoverInstall == sys = "replay" /\ InstallTrans

RecoverErase == /\ sys = "replay"
                /\ EraseLog
                /\ sys' = "up"
                /\ UNCHANGED pc

-----------------------------------------------------------------------------
\* The file system as mkfs leaves it: an erased log, nothing cached.
Init == /\ home \in [Blocks -> Values]
        /\ logblk = [i \in 1 .. NLOG - 1 |-> Zero]
        /\ head = <<>>
        /\ cache = [b \in Blocks |-> NoBuf] /\ dirty = {}
        /\ lh = <<>> /\ outstanding = 0 /\ committing = FALSE /\ tail = 1
        /\ pc = [p \in Procs |-> "idle"]
        /\ cur = [p \in Procs |-> NoBlock]
        /\ wrote = [p \in Procs |-> {}]
        /\ sys = "recover"

Begin(p)  == BeginSleep(p) \/ BeginOp(p)
Log_write(p) == LogWriteCheck(p) \/ LogWriteAppend(p)
Commit(p) == WriteLog(p) \/ WriteHead(p) \/ Install(p) \/ Erase(p) \/ EndCommit(p)
Recover   == ReadHead \/ RecoverInstall \/ RecoverErase

Running == \/ \E p \in Procs : \/ Call(p) \/ Begin(p) \/ Log_write(p)
                               \/ EndOp(p) \/ Commit(p)
           \/ \E p \in Procs, b \in Blocks, v \in Values : Modify(p, b, v)
           \/ \E b \in Blocks : Bread(b) \/ Evict(b)
           \/ Recover

Next == Running \/ Crash

Spec == Init /\ [][Next]_vars

(* Without crashes.  Every process that is in the kernel is scheduled      *)
(* again; a file-system call makes finitely many updates, then ends; the   *)
(* application is not obliged to call (Call has no fairness).              *)
Fairness == /\ WF_vars(Recover)
            /\ \A p \in Procs : /\ WF_vars(Begin(p)) /\ WF_vars(Log_write(p))
                                /\ WF_vars(Commit(p)) /\ SF_vars(EndOp(p))

LiveSpec == Init /\ [][Running]_vars /\ Fairness
-----------------------------------------------------------------------------
(***************************************************************************)
(* Properties                                                              *)
(***************************************************************************)

\* Every variable of log.c and of the buffer cache holds a value of its type.
TypeOK ==
    /\ home \in [Blocks -> Values] /\ logblk \in [1 .. NLOG - 1 -> Values]
    /\ head \in Seq(Blocks) /\ lh \in Seq(Blocks)
    /\ cache \in [Blocks -> Values \cup {NoBuf}] /\ dirty \in SUBSET Blocks
    /\ outstanding \in Nat /\ committing \in BOOLEAN /\ tail \in Nat \ {0}
    /\ pc \in [Procs -> {"idle", "begin", "sleeping"} \cup InOp \cup InCommit]
    /\ cur \in [Procs -> Blocks \cup {NoBlock}]
    /\ wrote \in [Procs -> SUBSET Blocks]
    /\ sys \in {"recover", "replay", "up", "panic"}

(* The contents recovery would leave: a committed log is replayed.         *)
Recovered == [b \in Blocks |-> IF In(b, head)
                               THEN logblk[CHOOSE i \in DOMAIN head : head[i] = b]
                               ELSE home[b]]

Seen == IF sys \in {"recover", "replay"} THEN Recovered
        ELSE [b \in Blocks |-> BufData(b)]

Disk == INSTANCE AtomicDisk WITH
            mem <- Seen, durable <- Recovered,
            active <- {p \in Procs : pc[p] \in InOp}, flushing <- committing

\* log.c implements the atomic disk: whatever the interleaving of calls and
\* wherever the machine stops, also during recovery, the recovered disk is
\* the state at the last instant with no call running, and the last end_op
\* of a group returns only when the group is durable.
AtomicGroups == Disk!Spec

\* The write-ahead rule of commit(): a home block changes only while the
\* header on disk lists it, so a crash can replay it.
WriteAhead == [][\A b \in Blocks : home'[b] # home[b] => In(b, head)]_vars

\* B_DIRTY pins what is not yet at home (log_write, bget): when no call holds
\* the buffer, a block whose cached contents differ from the disk is dirty and
\* listed in the in-memory header.
PinnedUntilInstalled ==
    sys = "up" => \A b \in Blocks :
        \/ \E p \in Procs : cur[p] = b
        \/ BufData(b) = home[b]
        \/ b \in dirty /\ In(b, lh)

(* Blocks the running calls may still add to the log: one pair per block   *)
(* of its reservation that a call has not used.                            *)
Unused == {t \in Procs \X (1 .. OpBlocks) :
              pc[t[1]] \in InOp /\ t[2] + Cardinality(wrote[t[1]]) <= OpBlocks}

\* begin_op's admission test: the blocks logged and the blocks the running
\* calls may still log leave free what the reservations exceed the use by.
ReservationFits == lh # <<>> \/ Unused # {} =>
    Len(lh) + Cardinality(Unused) + (MAXOPBLOCKS - OpBlocks) <= LOGSIZE

(* What begin_op relies on, param.h's "max # of blocks any FS op writes".   *)
Reserved == OpBlocks <= MAXOPBLOCKS

(* What log_write's own test asks for: the calls use less than they        *)
(* reserve, and the on-disk log is long enough for the rest.               *)
LogBudget == /\ OpBlocks < MAXOPBLOCKS
             /\ LOGSIZE + OpBlocks + 2 <= NLOG + MAXOPBLOCKS

\* The panics of log_write and end_op ("too big a transaction", "log_write
\* outside of trans", "log.committing") are never reached.
NoPanic == sys # "panic"

\* The blocks of a transaction fit between the log header and the inode
\* blocks that follow the log on the disk (fs.h, "Disk layout").
LogInRegion == Len(lh) <= NLOG - 1

\* wakeup(&log) is not missed: a process sleeping in begin_op is woken.
SleeperWoken == \A p \in Procs : pc[p] = "sleeping" ~> pc[p] # "sleeping"

\* The commit run by the last end_op comes to its end.
CommitEnds == committing ~> ~committing

\* For TLC: processes and blocks are interchangeable, and so the states that
\* differ by a permutation need one visit, where no liveness is checked.
Symmetric == Permutations(Procs) \cup Permutations(Blocks)
=============================================================================
