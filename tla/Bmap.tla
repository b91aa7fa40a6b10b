-------------------------------- MODULE Bmap --------------------------------
(***************************************************************************)
(* The contents of files in xv6: balloc, bfree, bmap, itrunc, readi and    *)
(* writei of fs.c with its double-indirect blocks, and filewrite of        *)
(* file.c, over the log's transactions.  A turn of a loop over blocks is a *)
(* step.  A block holds BSIZE units, a byte or a block number each, so     *)
(* that NINDIRECT = BSIZE.                                                 *)
(***************************************************************************)
EXTENDS Integers, FiniteSets, Sequences, FiniteSetsExt, Functions, TLC

CONSTANTS BSIZE, NDIRECT, NBLOCKS,   \* data blocks of the disk
          MAXOPBLOCKS, LOGSIZE,
          BmFiles,                   \* inodes
          BmProcs,
          BmLens,                    \* lengths of writes
          BmBytes,                   \* bytes
          BmCalls,                   \* bound on the calls
          BmCrashes                  \* bound on the crashes

VARIABLES mem,         \* the buffers: blk, bitmap and dino (the inode blocks)
          disk,        \* the same on the disk
          logged,      \* blocks the log will write; BITMAP and INODES stand for those
          ino,         \* the inodes in memory: addrs, size and the lock's holder
          op,          \* what each process does
          want,        \* what the files hold, by the writes: in memory and on the disk
          budget       \* calls and crashes left

bmVars == <<mem, disk, logged, ino, op, want, budget>>

NINDIRECT == BSIZE
NDINDIRECT == NINDIRECT * NINDIRECT
MAXFILE == NDIRECT + NINDIRECT + NDINDIRECT
Blocks == 1 .. NBLOCKS
BITMAP == 0
INODES == -1
NoCall == [k |-> "idle"]
Zero == [i \in 0 .. BSIZE - 1 |-> 0]
NoAddrs == [i \in 0 .. NDIRECT + 1 |-> 0]

BmInit == /\ mem = [blk |-> [b \in Blocks |-> Zero], bitmap |-> {},
                    dino |-> [f \in BmFiles |-> [addrs |-> NoAddrs, size |-> 0]]]
          /\ disk = mem /\ logged = {}
          /\ ino = [f \in BmFiles |-> [addrs |-> NoAddrs, size |-> 0, holder |-> 0]]
          /\ op = [p \in BmProcs |-> NoCall]
          /\ want = [f \in BmFiles |-> [mem |-> <<>>, disk |-> <<>>]]
          /\ budget = [calls |-> BmCalls, crashes |-> BmCrashes]
-----------------------------------------------------------------------------
(* x is the buffers, the log's blocks, and the inode's addrs; ret the block  *)
Log(x, b) == [x EXCEPT !.logged = @ \cup {b}]
CanAlloc(n) == Cardinality(Blocks \ mem.bitmap) >= n
\* balloc, with bzero: the first free block.
balloc(x) ==
    LET b == Min(Blocks \ x.m.bitmap)
    IN  [[x EXCEPT !.m.bitmap = @ \cup {b}, !.m.blk[b] = Zero, !.ret = b] EXCEPT !.logged = @ \cup {BITMAP, b}]
bfree(x, b) == [x EXCEPT !.m.bitmap = @ \ {b}, !.logged = @ \cup {BITMAP}]

InInode(x, i) == IF x.addrs[i] # 0 THEN [x EXCEPT !.ret = x.addrs[i]]
                 ELSE LET y == balloc(x) IN [y EXCEPT !.addrs[i] = y.ret]
InBlock(x, b, i) == IF x.m.blk[b][i] # 0 THEN [x EXCEPT !.ret = x.m.blk[b][i]]
                    ELSE LET y == balloc(x) IN [y EXCEPT !.m.blk[b][i] = y.ret]
\* Mutant: the double-indirect block is not logged.
bmap_unlogged(x, bn) ==
    IF bn < NDIRECT THEN InInode(x, bn)
    ELSE IF bn - NDIRECT < NINDIRECT
    THEN LET y == InInode(x, NDIRECT)
             z == InBlock(y, y.ret, bn - NDIRECT)
         IN  IF y.m.blk[y.ret][bn - NDIRECT] = 0 THEN Log(z, y.ret) ELSE z
    ELSE LET n == bn - NDIRECT - NINDIRECT
             y == InInode(x, NDIRECT + 1)
             z == InBlock(y, y.ret, n \div NINDIRECT)
             w == InBlock(z, z.ret, n % NINDIRECT)
         IN  IF z.m.blk[z.ret][n % NINDIRECT] = 0 THEN Log(w, z.ret) ELSE w

bmap(x, bn) ==
    IF bn < NDIRECT THEN InInode(x, bn)
    ELSE IF bn - NDIRECT < NINDIRECT
    THEN LET y == InInode(x, NDIRECT)
             z == InBlock(y, y.ret, bn - NDIRECT)
         IN  IF y.m.blk[y.ret][bn - NDIRECT] = 0 THEN Log(z, y.ret) ELSE z
    ELSE LET n == bn - NDIRECT - NINDIRECT
             y == InInode(x, NDIRECT + 1)
             z == InBlock(y, y.ret, n \div NINDIRECT)
             w == InBlock(z, z.ret, n % NINDIRECT)
         IN  IF z.m.blk[z.ret][n % NINDIRECT] = 0 THEN Log(Log(w, z.ret), y.ret) ELSE w

X(f) == [m |-> mem, logged |-> logged, addrs |-> ino[f].addrs, ret |-> 0]
iupdate(m, f, addrs, size) == [m EXCEPT !.dino[f] = [addrs |-> addrs, size |-> size]]
-----------------------------------------------------------------------------
(* filewrite, in parts of at most max; the log's operations                  *)
max == ((LOGSIZE - 1 - 1 - 2) \div 2) * BSIZE
Least(a, b) == IF a < b THEN a ELSE b
Most(a, b) == IF a < b THEN b ELSE a
Outstanding(p) == {q \in BmProcs \ {p} : op[q].k \in {"write", "trunc"}}
\* end_op: the last operation to end commits the blocks in the log.
Commit(p, m, lg, files) ==
    IF Outstanding(p) # {}
    THEN /\ logged' = lg /\ UNCHANGED disk
         /\ want' = [f \in BmFiles |-> [want[f] EXCEPT !.mem = files[f]]]
    ELSE /\ disk' = [blk |-> [b \in Blocks |-> IF b \in lg THEN m.blk[b] ELSE disk.blk[b]],
                     bitmap |-> IF BITMAP \in lg THEN m.bitmap ELSE disk.bitmap,
                     dino |-> IF INODES \in lg THEN m.dino ELSE disk.dino]
         /\ logged' = {}
         /\ want' = [f \in BmFiles |-> [mem |-> files[f], disk |-> files[f]]]
Files == [f \in BmFiles |-> want[f].mem]

FileWrite(p, f, n, v) ==
    /\ op[p] = NoCall /\ budget.calls > 0
    /\ op' = [op EXCEPT ![p] = [k |-> "write", f |-> f, off |-> -1, left |-> n, tot |-> 0, v |-> v, wrote |-> {}]]
    /\ budget' = [budget EXCEPT !.calls = @ - 1]
    /\ UNCHANGED <<mem, disk, logged, ino, want>>
\* ilock, and f->off, which is at most the size.
WriteLock(p, off) ==
    /\ op[p].k = "write" /\ ino[op[p].f].holder = 0 /\ off <= ino[op[p].f].size
    /\ op[p].off # -1 => off = op[p].off
    /\ op' = [op EXCEPT ![p].off = off]
    /\ ino' = [ino EXCEPT ![op[p].f].holder = p]
    /\ UNCHANGED <<mem, disk, logged, want, budget>>

Writing(p) == op[p].k = "write" /\ ino[op[p].f].holder = p
Part(o) == Least(o.left, max)
Refused(o) == o.off + Part(o) > MAXFILE * BSIZE
\* A turn of the loop of writei.
WriteBlock(p) ==
    LET o == op[p]
        off == o.off + o.tot
        m == Least(Part(o) - o.tot, BSIZE - (off % BSIZE))
        x == bmap(X(o.f), off \div BSIZE)
        blk == [i \in 0 .. BSIZE - 1 |-> IF i \in (off % BSIZE) .. (off % BSIZE) + m - 1 THEN o.v
                                         ELSE x.m.blk[x.ret][i]]
    IN  /\ Writing(p) /\ ~Refused(o) /\ o.tot < Part(o) /\ CanAlloc(3)
        /\ mem' = [x.m EXCEPT !.blk[x.ret] = blk]
        /\ logged' = x.logged \cup {x.ret}
        /\ ino' = [ino EXCEPT ![o.f].addrs = x.addrs]
        /\ op' = [op EXCEPT ![p].tot = @ + m, ![p].wrote = @ \cup (x.logged \ logged) \cup {x.ret}]
        /\ UNCHANGED <<disk, want, budget>>

\* Mutant: a larger size is not written to the disk.
Grown_memory(p, m, lg, size) == [m |-> m, logged |-> lg]

Grown(p, m, lg, size) == [m |-> iupdate(m, op[p].f, ino[op[p].f].addrs, size), logged |-> lg \cup {INODES}]
\* The end of writei and of its transaction.
WriteEnd(p) ==
    LET o == op[p]
        end == o.off + o.tot
        x == IF end > ino[o.f].size THEN Grown(p, mem, logged, end) ELSE [m |-> mem, logged |-> logged]
        file == [i \in 1 .. Most(end, Len(want[o.f].mem)) |-> IF i > o.off /\ i <= end THEN o.v ELSE want[o.f].mem[i]]
    IN  /\ Writing(p) /\ (Refused(o) \/ o.tot = Part(o))
        /\ mem' = x.m
        /\ Commit(p, x.m, x.logged, [Files EXCEPT ![o.f] = file])
        /\ ino' = [ino EXCEPT ![o.f].size = Most(@, end), ![o.f].holder = 0]
        /\ op' = [op EXCEPT ![p] = IF Refused(o) \/ o.left = o.tot THEN NoCall
                                   ELSE [o EXCEPT !.k = "more", !.off = end, !.left = @ - o.tot, !.tot = 0, !.wrote = {}]]
        /\ UNCHANGED budget
WriteMore(p) == /\ op[p].k = "more"
                /\ op' = [op EXCEPT ![p].k = "write"]
                /\ UNCHANGED <<mem, disk, logged, ino, want, budget>>
-----------------------------------------------------------------------------
(* itrunc of an inode without links or references, in its three parts        *)
TruncCall(p, f) ==
    /\ op[p] = NoCall /\ budget.calls > 0 /\ ino[f].size > 0
    /\ \A q \in BmProcs : op[q] # NoCall => op[q].f # f
    /\ op' = [op EXCEPT ![p] = [k |-> "trunc", f |-> f, part |-> 0]]
    /\ ino' = [ino EXCEPT ![f].holder = p]
    /\ budget' = [budget EXCEPT !.calls = @ - 1]
    /\ UNCHANGED <<mem, disk, logged, want>>

Pointed(x, b) == {x.m.blk[b][i] : i \in 0 .. BSIZE - 1} \ {0}
FreeAll(x, S) == FoldSet(LAMBDA b, y : bfree(y, b), x, S)
\* Mutant: the indirect blocks below the double-indirect block stay in use.
Freed_leaves(x, part) ==
    CASE part = 0 -> [FreeAll(x, {x.addrs[i] : i \in 0 .. NDIRECT - 1} \ {0})
                        EXCEPT !.addrs = [i \in DOMAIN @ |-> IF i < NDIRECT THEN 0 ELSE @[i]]]
      [] x.addrs[NDIRECT + part - 1] = 0 -> x
      [] OTHER ->
           LET b == x.addrs[NDIRECT + part - 1]
               data == IF part = 1 THEN Pointed(x, b) ELSE UNION {Pointed(x, c) : c \in Pointed(x, b)}
           IN  [FreeAll(x, data \cup {b}) EXCEPT !.addrs[NDIRECT + part - 1] = 0]

Freed(x, part) ==
    CASE part = 0 -> [FreeAll(x, {x.addrs[i] : i \in 0 .. NDIRECT - 1} \ {0})
                        EXCEPT !.addrs = [i \in DOMAIN @ |-> IF i < NDIRECT THEN 0 ELSE @[i]]]
      [] x.addrs[NDIRECT + part - 1] = 0 -> x
      [] OTHER ->
           LET b == x.addrs[NDIRECT + part - 1]
               below == Pointed(x, b) \cup (IF part = 1 THEN {} ELSE UNION {Pointed(x, c) : c \in Pointed(x, b)})
           IN  [FreeAll(x, below \cup {b}) EXCEPT !.addrs[NDIRECT + part - 1] = 0]

TruncPart(p) ==
    LET o == op[p]
        x == Freed(X(o.f), o.part)
    IN  /\ o.k = "trunc" /\ o.part < 3
        /\ mem' = x.m /\ logged' = x.logged
        /\ ino' = [ino EXCEPT ![o.f].addrs = x.addrs]
        /\ op' = [op EXCEPT ![p].part = @ + 1]
        /\ UNCHANGED <<disk, want, budget>>
TruncEnd(p) ==
    LET o == op[p]
        m == iupdate(mem, o.f, ino[o.f].addrs, 0)
    IN  /\ o.k = "trunc" /\ o.part = 3
        /\ mem' = m
        /\ Commit(p, m, logged \cup {INODES}, [Files EXCEPT ![o.f] = <<>>])
        /\ ino' = [ino EXCEPT ![o.f].size = 0, ![o.f].holder = 0]
        /\ op' = [op EXCEPT ![p] = NoCall]
        /\ UNCHANGED budget

\* The machine stops and starts from the disk.
BmCrash == /\ budget.crashes > 0
           /\ mem' = disk /\ logged' = {}
           /\ ino' = [f \in BmFiles |-> [addrs |-> disk.dino[f].addrs, size |-> disk.dino[f].size, holder |-> 0]]
           /\ op' = [p \in BmProcs |-> NoCall]
           /\ want' = [f \in BmFiles |-> [want[f] EXCEPT !.mem = want[f].disk]]
           /\ budget' = [budget EXCEPT !.crashes = @ - 1]
           /\ UNCHANGED disk

BmNext == \/ \E p \in BmProcs, f \in BmFiles, n \in BmLens, v \in BmBytes : FileWrite(p, f, n, v)
          \/ \E p \in BmProcs, off \in 0 .. MAXFILE * BSIZE : WriteLock(p, off)
          \/ \E p \in BmProcs : WriteBlock(p) \/ WriteEnd(p) \/ WriteMore(p) \/ TruncPart(p) \/ TruncEnd(p)
          \/ \E p \in BmProcs, f \in BmFiles : TruncCall(p, f)
          \/ BmCrash
BmSpec == BmInit /\ [][BmNext]_bmVars
-----------------------------------------------------------------------------
(* readi: byte off of an inode with the given addresses, in memory m         *)
readi(m, addrs, off) ==
    LET bn == off \div BSIZE
        Ind(b, i) == IF b = 0 THEN 0 ELSE m.blk[b][i]
        b == IF bn < NDIRECT THEN addrs[bn]
             ELSE IF bn - NDIRECT < NINDIRECT THEN Ind(addrs[NDIRECT], bn - NDIRECT)
             ELSE LET n == bn - NDIRECT - NINDIRECT
                  IN  Ind(Ind(addrs[NDIRECT + 1], n \div NINDIRECT), n % NINDIRECT)
    IN  IF b = 0 THEN -1 ELSE m.blk[b][off % BSIZE]
FileContents(m, i) == [k \in 1 .. i.size |-> readi(m, i.addrs, k - 1)]

\* A file whose inode is not locked reads back as the writes and truncations
\* left it; after a crash at any point it reads as they left it when the
\* last group of operations was committed.
ReadsBack == \A f \in BmFiles : /\ ino[f].holder = 0 => FileContents(mem, ino[f]) = want[f].mem
                                /\ FileContents(disk, disk.dino[f]) = want[f].disk

\* On the disk, and in memory when no inode is locked, the bitmap marks the
\* blocks that the inodes lead to, and no block is reached in two ways.
Tree(m, a) ==
    LET P(b) == {m.blk[b][i] : i \in 0 .. BSIZE - 1} \ {0}
        N(b) == Cardinality({i \in 0 .. BSIZE - 1 : m.blk[b][i] # 0})
        Top(i) == IF a[i] = 0 THEN {} ELSE P(a[i])
        NTop(i) == IF a[i] = 0 THEN 0 ELSE N(a[i])
        second == Top(NDIRECT + 1)
    IN  [blocks |-> (Range(a) \ {0}) \cup Top(NDIRECT) \cup second \cup UNION {P(b) : b \in second},
         uses |-> Cardinality({i \in DOMAIN a : a[i] # 0}) + NTop(NDIRECT) + NTop(NDIRECT + 1) + MapThenSumSet(N, second)]
Accounted(m, a) ==
    LET all == UNION {Tree(m, a[f]).blocks : f \in BmFiles}
    IN  m.bitmap = all /\ Cardinality(all) = MapThenSumSet(LAMBDA f : Tree(m, a[f]).uses, BmFiles)
BlocksExact == /\ Accounted(disk, [f \in BmFiles |-> disk.dino[f].addrs])
               /\ (\A f \in BmFiles : ino[f].holder = 0) => Accounted(mem, [f \in BmFiles |-> ino[f].addrs])
=============================================================================
