-------------------------------- MODULE Ix --------------------------------
(***************************************************************************)
(* The index layer of FS_project/edubase: the B+ tree of IX_IndexHandle    *)
(* and IX_BTNode, IX_IndexScan, and the opening and closing of IX_Manager, *)
(* for one index.  The layer is sequential and a call is one action.  A    *)
(* node is a page: a sequence of pairs of a key and an address, an RID in  *)
(* a leaf and a page above, and its neighbours.  Positions are numbered    *)
(* from 1, and 0 is "not found".  Nodes that have been emptied are still   *)
(* pinned by the path when DisposePage is called, which fails, so page     *)
(* numbers are not used again.                                             *)
(***************************************************************************)
EXTENDS Integers, FiniteSets, Sequences, SequencesExt

CONSTANTS IKeys,       \* keys
          IRids,       \* RIDs
          IOrder,      \* order: the pairs a node has room for
          IEntries,    \* bound on the entries of the index
          ILoads       \* what clients do: records with the calls they make
                       \* (ops; "refill" is to insert after a deletion), the bound
                       \* on insertions and whether they keep keys distinct

VARIABLES ix,          \* the index and its handle
          iscan        \* an IX_IndexScan

ixVars == <<ix, iscan>>

NoNode == -1
NewNode == [pairs |-> <<>>, left |-> NoNode, right |-> NoNode]
IClosed == [open |-> FALSE, op |-> "NO_OP", value |-> 0, page |-> NoNode, pos |-> 0, rid |-> 0,
            count |-> 0, got |-> {}, end |-> FALSE, early |-> FALSE]

IxInit == /\ \E load \in ILoads :
                ix = [nodes |-> <<NewNode>>, root |-> 1, height |-> 1, largest |-> 0,
                      open |-> TRUE, ents |-> {}, made |-> 0, crashed |-> FALSE, load |-> load]
          /\ iscan = IClosed
-----------------------------------------------------------------------------
(* IX_BTNode *)
Key(n, i) == n.pairs[i][1]
Addr(n, i) == n.pairs[i][2]
KeysNum(n) == Len(n.pairs)
LargestKey(n) == Key(n, KeysNum(n))

\* The scans from the right of FindKeyBrut, FindKeyExact and InsertNode.
LastWhere(n, P(_)) == Max({0} \cup {i \in 1 .. KeysNum(n) : P(i)})
FindKeyBrut(n, k) ==
    LET i == LastWhere(n, LAMBDA j : Key(n, j) <= k)
    IN  IF i > 0 /\ Key(n, i) = k THEN i ELSE i + 1
FindKeyExact(n, k) == LastWhere(n, LAMBDA j : Key(n, j) = k)
FindPair(n, k, r) == LastWhere(n, LAMBDA j : n.pairs[j] = <<k, r>>)

\* A full node refuses the pair.
InsertNode(n, k, a) ==
    IF KeysNum(n) >= IOrder THEN n
    ELSE [n EXCEPT !.pairs = InsertAt(@, LastWhere(n, LAMBDA j : Key(n, j) <= k) + 1, <<k, a>>)]
DeleteNode(n, i) == IF i > KeysNum(n) THEN n ELSE [n EXCEPT !.pairs = RemoveAt(@, i)]
SetKey(n, i, k) == [n EXCEPT !.pairs[i] = <<k, @[2]>>]

\* SplitNode moves the upper half of node p to the new node q.
Half(n) == (KeysNum(n) + 1) \div 2
\* Mutant: the left neighbour of the node to the right is not set.
SplitNode_link(nodes, p, q) ==
    Append([i \in DOMAIN nodes |->
               IF i = p THEN [nodes[p] EXCEPT !.pairs = SubSeq(@, 1, Half(nodes[p])), !.right = q]
               ELSE nodes[i]],
           [pairs |-> SubSeq(nodes[p].pairs, Half(nodes[p]) + 1, KeysNum(nodes[p])),
            left |-> p, right |-> nodes[p].right])

SplitNode(nodes, p, q) ==
    Append([i \in DOMAIN nodes |->
               CASE i = p -> [nodes[p] EXCEPT !.pairs = SubSeq(@, 1, Half(nodes[p])), !.right = q]
                 [] i = nodes[p].right -> [nodes[i] EXCEPT !.left = q]
                 [] OTHER -> nodes[i]],
           [pairs |-> SubSeq(nodes[p].pairs, Half(nodes[p]) + 1, KeysNum(nodes[p])),
            left |-> p, right |-> nodes[p].right])
-----------------------------------------------------------------------------
(* IX_IndexHandle *)
\* FindLeaf: the path from the root, with the position in each node above
\* the leaf.  A key beyond the largest goes to the last child.
ChildPos(n, k) == IF FindKeyBrut(n, k) > KeysNum(n) THEN KeysNum(n) ELSE FindKeyBrut(n, k)
Descend(t, k, way) ==
    LET n == t.nodes[way.path[Len(way.path)]]
        i == ChildPos(n, k)
    IN  [path |-> Append(way.path, Addr(n, i)), pos |-> Append(way.pos, i)]
Down(t, k) == FoldLeft(LAMBDA way, level : Descend(t, k, way),
                       [path |-> <<t.root>>, pos |-> <<>>], [i \in 1 .. t.height - 1 |-> i])

\* The right neighbour of the leaf instead, when the key may be there too.
\* Its position in the parent is taken to be the key's position in the leaf.
Sibling(t, k, way) ==
    LET leaf == t.nodes[way.path[t.height]]
        right == t.nodes[leaf.right]
    IN  IF t.height = 1 \/ FindKeyBrut(leaf, k) # KeysNum(leaf) \/ leaf.right = NoNode THEN way
        ELSE IF KeysNum(right) = 0 THEN [way EXCEPT !.path = <<>>]      \* NULL
        ELSE IF k >= Key(right, 1)
        THEN [path |-> [way.path EXCEPT ![t.height] = leaf.right],
              pos |-> [way.pos EXCEPT ![t.height - 1] = FindKeyExact(right, k)]]
        ELSE way
FindLeaf(t, k) == Sibling(t, k, Down(t, k))

\* A new largest key replaces the old one on the path.
Raised(t, k, way) ==
    LET old(p) == FindKeyExact(t.nodes[p], t.largest)
    IN  [t EXCEPT !.largest = k,
                  !.nodes = [p \in DOMAIN @ |->
                               IF p \in {way.path[i] : i \in 1 .. t.height - 1} /\ old(p) > 0
                               THEN SetKey(@[p], old(p), k) ELSE @[p]]]
NewLargest(t, k, way) ==
    IF KeysNum(t.nodes[way.path[t.height]]) = 0 \/ k > t.largest THEN Raised(t, k, way) ELSE t

\* One turn of the splitting loop of InsertEntry.  c holds the tree t, the
\* level at which pair is to be inserted and did not fit, the key of the
\* entry, the way, and done.
\* Mutant: the pair stays in the left half.
Put_left(nodes, p, q, c) == [nodes EXCEPT ![p] = InsertNode(nodes[p], c.pair[1], c.pair[2])]

Put(nodes, p, q, c) ==
    IF c.key >= LargestKey(nodes[p])
    THEN [nodes EXCEPT ![q] = InsertNode(nodes[q], c.pair[1], c.pair[2])]
    ELSE [nodes EXCEPT ![p] = InsertNode(nodes[p], c.pair[1], c.pair[2])]
NewRoot(t, nodes, p, q) ==
    [t EXCEPT !.nodes = Append(nodes, [NewNode EXCEPT !.pairs = <<<<LargestKey(nodes[p]), p>>,
                                                                   <<LargestKey(nodes[q]), q>>>>]),
              !.root = q + 1, !.height = @ + 1]
\* The parent's pair for p is replaced by those for p and q.
Parent(n, pos, left) == InsertNode(DeleteNode(n, pos), left[1], left[2])
Adopt(c, nodes, p, q, up, left, right) ==
    IF c.way.pos[c.level - 1] = 0 THEN [c EXCEPT !.t.crashed = TRUE, !.done = TRUE]
    ELSE LET n == Parent(nodes[up], c.way.pos[c.level - 1], left)
         IN  [c EXCEPT !.t.nodes = [nodes EXCEPT ![up] = InsertNode(n, right[1], right[2])],
                       !.level = @ - 1, !.pair = right, !.done = KeysNum(n) < IOrder]
Grow(c, nodes, p, q) ==
    IF c.level = 1 THEN [c EXCEPT !.t = NewRoot(c.t, nodes, p, q), !.done = TRUE]
    ELSE Adopt(c, nodes, p, q, c.way.path[c.level - 1],
               <<LargestKey(nodes[p]), p>>, <<LargestKey(nodes[q]), q>>)
Split(c, p, q) == Grow(c, Put(SplitNode(c.t.nodes, p, q), p, q, c), p, q)
Turn(c) == IF c.done THEN c ELSE Split(c, c.way.path[c.level], Len(c.t.nodes) + 1)

First(t, way, k, r) ==
    LET p == way.path[t.height]
    IN  [t |-> [t EXCEPT !.nodes[p] = InsertNode(@, k, r)], level |-> t.height, key |-> k,
         pair |-> <<k, r>>, way |-> way, done |-> KeysNum(t.nodes[p]) < IOrder]
Inserted(t, way, k, r) ==
    FoldLeft(LAMBDA c, level : Turn(c), First(NewLargest(t, k, way), way, k, r),
             [i \in 1 .. t.height |-> i]).t
Insertion(t, way, k, r) == IF way.path = <<>> THEN [t EXCEPT !.crashed = TRUE]
                           ELSE Inserted(t, way, k, r)
InsertEntry(k, r) ==
    /\ ix.open /\ ~ix.crashed /\ ~iscan.open /\ ix.made < ix.load.inserts
    /\ Cardinality(ix.ents) < IEntries
    /\ \A e \in ix.ents : e[2] # r
    /\ ix.load.distinct => r = k
    /\ "refill" \in ix.load.ops \/ Cardinality(ix.ents) = ix.made
    /\ ix' = [Insertion(ix, FindLeaf(ix, k), k, r) EXCEPT !.ents = @ \cup {<<k, r>>}, !.made = @ + 1]
    /\ UNCHANGED iscan

\* DeleteEntry.  The largest key of the leaf is replaced on the path, from
\* the bottom up.
LeftKey(n, k) == IF LargestKey(n) # k THEN <<LargestKey(n)>>
                 ELSE IF KeysNum(n) > 1 THEN <<Key(n, KeysNum(n) - 1)>> ELSE <<>>
Lower(t, k, way, i) ==
    LET n == t.nodes[way.path[i]]
        pos == FindKeyExact(n, k)
        left == LeftKey(t.nodes[way.path[i + 1]], k)
    IN  IF pos > 0 /\ left # <<>> /\ (i = t.height - 1 \/ pos = KeysNum(n))
        THEN [t EXCEPT !.nodes[way.path[i]] = SetKey(@, pos, left[1])]
        ELSE t
Lowered(t, k, way, pos) ==
    IF pos < KeysNum(t.nodes[way.path[t.height]]) THEN t
    ELSE FoldLeft(LAMBDA u, i : Lower(u, k, way, i), t,
                  [i \in 1 .. t.height - 1 |-> t.height - i])

Unlinked(nodes, p) ==
    [i \in DOMAIN nodes |->
        CASE i = nodes[p].left -> [nodes[i] EXCEPT !.right = nodes[p].right]
          [] i = nodes[p].right -> [nodes[i] EXCEPT !.left = nodes[p].left]
          [] OTHER -> nodes[i]]
\* One turn of the loop for the node at level that has no pairs left.  The
\* root, too, is only given up when it has none, and then it has no child.
Shrink(c) ==
    IF KeysNum(c.t.nodes[c.way.path[c.level]]) > 0 \/ c.done THEN [c EXCEPT !.done = TRUE]
    ELSE IF c.level = 1 THEN [c EXCEPT !.done = TRUE, !.t.crashed = c.t.height > 1]
    ELSE IF c.way.pos[c.level - 1] = 0 THEN [c EXCEPT !.done = TRUE, !.t.crashed = TRUE]
    ELSE [c EXCEPT !.level = @ - 1,
                   !.t.nodes = Unlinked([@ EXCEPT ![c.way.path[c.level - 1]] =
                                                     DeleteNode(@, c.way.pos[c.level - 1])],
                                        c.way.path[c.level])]
Removed(t, way, pos) ==
    FoldLeft(LAMBDA c, level : Shrink(c),
             [t |-> [t EXCEPT !.nodes[way.path[t.height]] = DeleteNode(@, pos)], way |-> way,
              level |-> t.height, done |-> FALSE],
             [i \in 1 .. t.height |-> i]).t

\* DupScanLeftFind: the leaf to the left of p with the pair, if only the
\* key's duplicates are in between.
LeftOf(t, p) ==
    LET c[i \in 0 .. Len(t.nodes)] == IF i = 0 THEN t.nodes[p].left
                                      ELSE IF c[i - 1] = NoNode THEN NoNode
                                      ELSE t.nodes[c[i - 1]].left
    IN  [i \in 1 .. Len(t.nodes) |-> c[i - 1]]
DupLeaf(t, leaves, k, r) ==
    LET good == {i \in DOMAIN leaves : leaves[i] # NoNode /\ FindPair(t.nodes[leaves[i]], k, r) > 0}
        clear(i) == /\ \A j \in 1 .. i - 1 : \A x \in 1 .. KeysNum(t.nodes[leaves[j]]) :
                          Key(t.nodes[leaves[j]], x) = k
                    /\ \A x \in FindPair(t.nodes[leaves[i]], k, r) .. KeysNum(t.nodes[leaves[i]]) :
                          Key(t.nodes[leaves[i]], x) = k
    IN  {leaves[i] : i \in {j \in good : clear(j)}}
DeleteDup(t, leaf, k, r) ==
    IF FindKeyExact(t.nodes[leaf], k) = 0 THEN {}
    ELSE {[t EXCEPT !.nodes[p] = DeleteNode(@, FindPair(t.nodes[p], k, r))]
             : p \in DupLeaf(t, LeftOf(t, leaf), k, r)}

DeleteFrom(t, way, pos, k, r) ==
    IF pos > 0 THEN Removed(Lowered(t, k, way, pos), way, pos)
    ELSE LET d == DeleteDup(t, way.path[t.height], k, r)
         IN  IF d = {} THEN t ELSE CHOOSE u \in d : TRUE             \* IX_NOSUCHENTRY
Deleted(t, way, k, r) ==
    IF way.path = <<>> THEN [t EXCEPT !.crashed = TRUE]
    ELSE DeleteFrom(t, way, FindPair(t.nodes[way.path[t.height]], k, r), k, r)
DeleteEntry(k, r) ==
    /\ ix.open /\ ~ix.crashed /\ ~iscan.open /\ "delete" \in ix.load.ops
    /\ <<k, r>> \in ix.ents
    /\ ix' = [Deleted(ix, FindLeaf(ix, k), k, r) EXCEPT !.ents = @ \ {<<k, r>>}]
    /\ UNCHANGED iscan

\* The leaf reached through the first or the last child of every node.
EdgeLeaf(t, i(_)) == FoldLeft(LAMBDA p, level : Addr(t.nodes[p], i(t.nodes[p])), t.root,
                              [l \in 1 .. t.height - 1 |-> l])
FindSmallestLeaf(t) == EdgeLeaf(t, LAMBDA n : 1)
FindLargestLeaf(t) == EdgeLeaf(t, KeysNum)

CloseIndex == /\ ix.open /\ ~ix.crashed /\ ~iscan.open /\ "close" \in ix.load.ops
              /\ ix' = [ix EXCEPT !.open = FALSE, !.largest = 0] /\ UNCHANGED iscan
OpenIndex ==
    LET n == ix.nodes[FindLargestLeaf(ix)]
    IN  /\ ~ix.open
        /\ ix' = [ix EXCEPT !.open = TRUE, !.largest = IF KeysNum(n) > 0 THEN LargestKey(n) ELSE 0]
        /\ UNCHANGED iscan
-----------------------------------------------------------------------------
(* IX_IndexScan, of an index that does not change meanwhile *)
IxOpenScan(op, value) ==
    /\ ix.open /\ ~ix.crashed /\ ~iscan.open /\ "scan" \in ix.load.ops
    /\ iscan' = [IClosed EXCEPT !.open = TRUE, !.op = op, !.value = value]
    /\ UNCHANGED ix
IxCloseScan == iscan.open /\ iscan' = IClosed /\ UNCHANGED ix

\* The leaf and position at which the scan begins.
ScanSibling(k, p) ==
    LET n == ix.nodes[p]
    IN  IF FindKeyExact(n, k) = KeysNum(n) /\ n.right # NoNode /\ k >= Key(ix.nodes[n.right], 1)
        THEN n.right ELSE p
ScanLeaf(k, p) == [iscan EXCEPT !.page = p, !.pos = FindKeyExact(ix.nodes[p], k), !.count = 1,
                                !.rid = IF FindKeyExact(ix.nodes[p], k) = 0 THEN 0
                                        ELSE Addr(ix.nodes[p], FindKeyExact(ix.nodes[p], k))]
ScanFrom(k) == ScanLeaf(k, ScanSibling(k, Down(ix, k).path[ix.height]))

\* The pair to the left or right of the current one: its leaf and position,
\* 0 when there is none.
\* Mutant: the scan ends with the leaf.
ToLeft_leaf(s) == IF s.pos > 1 THEN <<s.page, s.pos - 1>> ELSE <<s.page, 0>>

ToLeft(s) == IF s.pos > 1 THEN <<s.page, s.pos - 1>>
             ELSE IF ix.nodes[s.page].left = NoNode THEN <<s.page, 0>>
             ELSE <<ix.nodes[s.page].left, KeysNum(ix.nodes[ix.nodes[s.page].left])>>
ToRight(s) == IF s.pos < KeysNum(ix.nodes[s.page]) THEN <<s.page, s.pos + 1>>
              ELSE IF ix.nodes[s.page].right = NoNode THEN <<s.page, 0>>
              ELSE <<ix.nodes[s.page].right, 1>>
AtEof(s) == [s EXCEPT !.end = TRUE]
Gets(s, at, k) == [s EXCEPT !.page = at[1], !.pos = at[2], !.rid = Addr(ix.nodes[at[1]], at[2]),
                            !.got = @ \cup {<<k, Addr(ix.nodes[at[1]], at[2])>>}]
\* FindDupKey, FindLeftKey, FindRightKey, FindDupLeftKey, FindDupRightKey:
\* the pair at hand if it has the value and this is the first call, and the
\* neighbour if it is on the right side.
Beside(s, at, eq, lt, gt) ==
    IF at[2] = 0 \/ at[2] > KeysNum(ix.nodes[at[1]]) THEN AtEof(s)
    ELSE LET k == Key(ix.nodes[at[1]], at[2])
         IN  IF \/ eq /\ k = s.value /\ Addr(ix.nodes[at[1]], at[2]) # s.rid
                \/ lt /\ k < s.value
                \/ gt /\ k > s.value
             THEN Gets(s, at, k) ELSE AtEof([s EXCEPT !.page = at[1], !.pos = at[2]])
Here1st(s, eq) == s.count = 1 /\ eq /\ s.got = {}
FindOp(s, at, eq, lt, gt) ==
    IF Here1st(s, eq) /\ s.pos = 0 THEN AtEof(s)
    ELSE IF Here1st(s, eq) THEN [s EXCEPT !.got = {<<s.value, s.rid>>}, !.count = 2]
    ELSE Beside(s, at, eq, lt, gt)
FindKey(s) ==
    CASE s.op = "EQ_OP" -> FindOp(s, ToLeft(s), TRUE, FALSE, FALSE)
      [] s.op = "LT_OP" -> FindOp(s, ToLeft(s), FALSE, TRUE, FALSE)
      [] s.op = "GT_OP" -> FindOp(s, ToRight(s), FALSE, FALSE, TRUE)
      [] s.op = "LE_OP" -> FindOp(s, ToLeft(s), TRUE, TRUE, FALSE)
      [] s.op = "GE_OP" -> FindOp(s, ToRight(s), TRUE, FALSE, TRUE)

\* rc is not initialised when a call is not the first: it may be IX_EOF.
GetNextEntry ==
    /\ iscan.open /\ ~iscan.end
    /\ IF iscan.count = 0 THEN iscan' = FindKey(ScanFrom(iscan.value))
       ELSE \/ iscan' = FindKey(iscan)
            \/ iscan' = [iscan EXCEPT !.end = TRUE, !.early = TRUE]
    /\ UNCHANGED ix

IxNext == \/ CloseIndex \/ OpenIndex \/ IxCloseScan \/ GetNextEntry
          \/ \E k \in IKeys, r \in IRids : InsertEntry(k, r) \/ DeleteEntry(k, r)
          \/ \E op \in {"EQ_OP", "LT_OP", "GT_OP", "LE_OP", "GE_OP"}, k \in IKeys : IxOpenScan(op, k)

IxSpec == IxInit /\ [][IxNext]_ixVars
-----------------------------------------------------------------------------
\* The leaves, in their order.
Leaves == LET c[i \in 1 .. Len(ix.nodes)] ==
                 IF i = 1 THEN FindSmallestLeaf(ix)
                 ELSE IF c[i - 1] = NoNode THEN NoNode ELSE ix.nodes[c[i - 1]].right
          IN  SelectSeq([i \in 1 .. Len(ix.nodes) |-> c[i]], LAMBDA p : p # NoNode)
Pairs == FoldLeft(LAMBDA acc, p : acc \o ix.nodes[p].pairs, <<>>, Leaves)

\* Deleting the last entry of a tree of several levels ends the program: a
\* root left with one child should have given way to it (ix_indexhandle.cc:793
\* and 838), but 795 sets result to a value at which the loop ends, and at 839
\* the root has no child left to take its place.
EmptiedTall == ix.ents = {} /\ ix.height > 1

\* The leaves hold the entries that were inserted and not deleted, each
\* once and in the order of their keys, and are linked both ways; and nothing
\* but the deletion of the last entry of a tree of several levels ends the
\* program (DeleteEntry, InsertEntry).
IndexExact ==
    IF ix.crashed THEN EmptiedTall
    ELSE /\ Len(Pairs) = Cardinality(ix.ents) /\ Range(Pairs) = ix.ents
         /\ \A i \in 1 .. Len(Pairs) - 1 : Pairs[i][1] <= Pairs[i + 1][1]
         /\ \A i \in 1 .. Len(Leaves) :
               ix.nodes[Leaves[i]].left = IF i = 1 THEN NoNode ELSE Leaves[i - 1]

\* The search from the root reaches every entry: splitting, the keys kept
\* on the path and the largest key of the tree never lead it astray.
EntriesFound ==
    ix.load.distinct =>
        \A e \in ix.ents : FindPair(ix.nodes[FindLeaf(ix, e[1]).path[ix.height]], e[1], e[2]) > 0

Matches(op, k, value) ==
    CASE op = "EQ_OP" -> k = value
      [] op = "LT_OP" -> k < value
      [] op = "GT_OP" -> k > value
      [] op = "LE_OP" -> k <= value
      [] op = "GE_OP" -> k >= value
Matching == {e \in ix.ents : Matches(iscan.op, e[1], iscan.value)}
\* A scan returns nothing but matching entries, and a scan for a value that
\* is in the index returns all of them, if the uninitialised return code
\* does not end it early.
EntriesScanned ==
    iscan.open =>
        /\ iscan.got \subseteq Matching
        /\ iscan.end /\ ~iscan.early /\ (\E e \in ix.ents : e[1] = iscan.value)
              => iscan.got = Matching
=============================================================================
