----------------------------- MODULE Algorithms -----------------------------
(***************************************************************************)
(* The programs of algorithm/.  First sorting and heaps: Insertion         *)
(* sort.cpp, Selection sort.cpp, Merge sort.cpp, Heap sort.cpp,            *)
(* Counting.cpp, PriorityQueue.cpp and Huffman.cpp.  An array that the C   *)
(* code numbers from 0 is a sequence here, numbered from 1.  Then graphs   *)
(* and dynamic programming: Connected_component.cpp, Topological_sort.cpp, *)
(* Dijkstra.cpp, Longest_common_sequence.cpp, Matrixchain.cpp,             *)
(* rod_cutting.c and Assembly_line.c, where one step reads an input and    *)
(* prints the answer.                                                      *)
(***************************************************************************)
EXTENDS Integers, Sequences, SequencesExt, FiniteSetsExt, Bags, TLC

CONSTANTS SoValues,      \* keys, naturals
          SoLen,         \* bound on the length of an array
          SENTINEL,      \* what 100000000000 is as an int: 1215752192
          PqCalls,       \* bound on the commands to the priority queue
          OpInputs       \* graph and table programs: records with the field prog

\* A key above the sentinel is merged behind it, and so in the wrong place.
ASSUME KeysBelowSentinel == \A v \in SoValues : v < SENTINEL

VARIABLES job,           \* a program and its input
          ans,           \* its output
          arr,           \* PriorityQueue: arr[1 .. length]
          extracted,     \* PriorityQueue: the keys taken out
          inside,        \* the keys that are in the queue by the commands so far
          input, output  \* of the graph and table programs

soVars == <<job, ans, arr, extracted, inside>>
opVars == <<input, output>>

array_swap(A, i, j) == [A EXCEPT ![i] = A[j], ![j] = A[i]]
Upto(a, b) == [i \in 1 .. b - a + 1 |-> a + i - 1]
-----------------------------------------------------------------------------
(* Insertion sort.cpp, descending *)
Insert(A, i) ==
    LET key == A[i]
        j == Max({0} \cup {k \in 1 .. i - 1 : A[k] >= key})   \* where the while loop stops
    IN  [k \in DOMAIN A |-> IF k <= j \/ k > i THEN A[k] ELSE IF k = j + 1 THEN key ELSE A[k - 1]]
insertionSort(A) == FoldLeft(Insert, A, Upto(2, Len(A)))

(* Selection sort.cpp: the m smallest to the front *)
Selection(A, m) ==
    FoldLeft(LAMBDA B, i :
               array_swap(B, i, CHOOSE k \in i .. Len(B) :
                                   /\ \A j \in i .. Len(B) : B[k] <= B[j]
                                   /\ \A j \in i .. k - 1 : B[j] # B[k]),
             A, Upto(1, m))

(* Merge sort.cpp.  x is the array and the places in L and R; what lies      *)
(* behind the sentinel in memory is some value, here the least.              *)
Past(S, i) == IF i <= Len(S) THEN S[i] ELSE 0
Step(L, R, x, k) ==
    IF Past(L, x.i) <= Past(R, x.j)
    THEN [x EXCEPT !.A[k] = Past(L, x.i), !.i = @ + 1]
    ELSE [x EXCEPT !.A[k] = Past(R, x.j), !.j = @ + 1]
\* Mutant: the last element of the right half is left out.
Merge_short(A, p, q, r) ==
    LET L == Append(SubSeq(A, p, q), SENTINEL)
        R == Append(SubSeq(A, q + 1, r - 1), SENTINEL)
    IN  FoldLeft(LAMBDA x, k : Step(L, R, x, k), [A |-> A, i |-> 1, j |-> 1], Upto(p, r)).A

Merge(A, p, q, r) ==
    LET L == Append(SubSeq(A, p, q), SENTINEL)
        R == Append(SubSeq(A, q + 1, r), SENTINEL)
    IN  FoldLeft(LAMBDA x, k : Step(L, R, x, k), [A |-> A, i |-> 1, j |-> 1], Upto(p, r)).A
RECURSIVE MergeSort(_, _, _)
MergeSort(A, p, r) ==
    IF p >= r THEN A
    ELSE LET q == (p - 1 + r - 1) \div 2 + 1      \* of the indices from 0
         IN  Merge(MergeSort(MergeSort(A, p, q), q + 1, r), p, q, r)

(* Heap sort.cpp: n is the size of the heap *)
RECURSIVE MaxHeapify(_, _, _)
MaxHeapify(A, n, i) ==
    LET l == IF 2 * i <= n /\ A[2 * i] > A[i] THEN 2 * i ELSE i
        largest == IF 2 * i + 1 <= n /\ A[2 * i + 1] > A[l] THEN 2 * i + 1 ELSE l
    IN  IF largest = i THEN A ELSE MaxHeapify(array_swap(A, i, largest), n, largest)
BuildMaxHeap(A) == FoldLeft(LAMBDA B, i : MaxHeapify(B, Len(A), i), A, Reverse(Upto(1, Len(A) \div 2)))
HeapSort(A, m) ==
    FoldLeft(LAMBDA B, i : MaxHeapify(array_swap(B, 1, i), i - 1, 1),
             BuildMaxHeap(A), Reverse(Upto(Len(A) - m + 1, Len(A))))

(* Counting.cpp: how many keys lie in a .. b, of keys up to m *)
Counting(A, m) ==
    LET count == [v \in 0 .. m |-> Quantify(DOMAIN A, LAMBDA i : A[i] = v)]
        C[v \in 0 .. m] == IF v = 0 THEN count[0] ELSE count[v] + C[v - 1]
    IN  C
Query(C, a, b) == IF a # 0 THEN C[b] - C[a - 1] ELSE C[b]
-----------------------------------------------------------------------------
(* PriorityQueue.cpp *)
RECURSIVE Heapify(_, _, _), Increase_key(_, _)
Heapify(A, current, length) ==
    LET left == 2 * current
        right == 2 * current + 1
        r == IF right <= length /\ A[right] > A[current] THEN right ELSE current
        largest == IF left <= length /\ A[left] > A[r] THEN left ELSE r
    IN  IF largest = current THEN A ELSE Heapify(array_swap(A, current, largest), largest, length)
Increase_key(A, index) ==
    IF index > 1 /\ A[index \div 2] < A[index]
    THEN Increase_key(array_swap(A, index, index \div 2), index \div 2) ELSE A

Running == job.prog = "PriorityQueue" /\ job.calls < PqCalls
Called == job' = [job EXCEPT !.calls = @ + 1] /\ UNCHANGED ans
\* The commands 1, 2 and 3; extracting from an empty queue and changing a
\* key outside of it are not among the inputs.
InsertKey(num) ==
    /\ Running /\ Called
    /\ arr' = Increase_key(Append(arr, num), Len(arr) + 1)
    /\ inside' = inside (+) SetToBag({num})
    /\ UNCHANGED extracted
Extract ==
    /\ Running /\ arr # <<>> /\ Called
    /\ extracted' = Append(extracted, arr[1])
    /\ arr' = Front(Heapify(array_swap(arr, 1, Len(arr)), 1, Len(arr) - 1))
    /\ inside' = inside (-) SetToBag({arr[1]})
\* Mutant: a changed key only moves down.
ChangeKey_down(index, num) ==
    /\ Running /\ index \in DOMAIN arr /\ Called
    /\ arr' = Heapify([arr EXCEPT ![index] = num], index, Len(arr))
    /\ inside' = (inside (-) SetToBag({arr[index]})) (+) SetToBag({num})
    /\ UNCHANGED extracted

ChangeKey(index, num) ==
    /\ Running /\ index \in DOMAIN arr /\ Called
    /\ LET A == [arr EXCEPT ![index] = num]
       IN  arr' = IF index # 1 /\ A[index] > A[index \div 2] THEN Increase_key(A, index)
                  ELSE Heapify(A, index, Len(arr))
    /\ inside' = (inside (-) SetToBag({arr[index]})) (+) SetToBag({num})
    /\ UNCHANGED extracted
-----------------------------------------------------------------------------
(* Huffman.cpp.  A node is [v, kids], kids empty at a leaf.                  *)
Leaf(v) == [v |-> v, kids |-> <<>>]
RECURSIVE Sift(_, _, _), Sink(_, _, _, _)
Sift(H, i, e) == IF i # 1 /\ e.v < H[i \div 2].v THEN Sift([H EXCEPT ![i] = H[i \div 2]], i \div 2, e)
                 ELSE [H EXCEPT ![i] = e]
InsertHeap(H, e) == Sift(Append(H, e), Len(H) + 1, e)
CreateHeap(et) == FoldLeft(LAMBDA H, v : IF v = 0 THEN H ELSE InsertHeap(H, Leaf(v)), <<>>, et)
Sink(H, parent, child, tmp) ==
    LET c == IF child < Len(H) /\ H[child].v > H[child + 1].v THEN child + 1 ELSE child
    IN  IF child > Len(H) \/ tmp.v < H[c].v THEN [H EXCEPT ![parent] = tmp]
        ELSE Sink([H EXCEPT ![parent] = H[c]], c, 2 * c, tmp)
\* The heap without its first node; the slot behind it keeps the last one.
Delete(H) == IF Len(H) = 1 THEN <<>> ELSE Sink(Front(H), 1, 2, Last(H))
RECURSIVE HuffmanTree(_), CheckHuff(_, _)
HuffmanTree(H) ==
    IF Len(H) <= 1 THEN H[1]
    ELSE LET H1 == Delete(H)
             both == [v |-> H[1].v + H1[1].v, kids |-> <<H[1], H1[1]>>]
         IN  HuffmanTree(InsertHeap(Delete(H1), both))
CheckHuff(e, size) == IF e.kids = <<>> THEN e.v * size
                      ELSE CheckHuff(e.kids[1], size + 1) + CheckHuff(e.kids[2], size + 1)
Huffman(et) == CheckHuff(HuffmanTree(CreateHeap(et)), 0)
-----------------------------------------------------------------------------
Arrays == UNION {[1 .. n -> SoValues] : n \in 1 .. SoLen}
NoAns == <<>>
Jobs == [prog : {"Insertion sort", "Merge sort", "Counting"}, in : Arrays, m : {0}]
           \cup {j \in [prog : {"Selection sort", "Heap sort"}, in : Arrays, m : 0 .. SoLen] : j.m <= Len(j.in)}
           \cup {j \in [prog : {"Huffman"}, in : Arrays, m : {0}] : \E i \in DOMAIN j.in : j.in[i] # 0}
SoStart(j) == job = j /\ ans = NoAns /\ arr = <<>> /\ extracted = <<>> /\ inside = EmptyBag
Queue == [prog |-> "PriorityQueue", calls |-> 0]
SoInit == SoStart(Queue) \/ \E j \in Jobs : SoStart(j)

\* main of each program.
Solve == /\ job.prog # "PriorityQueue" /\ ans = NoAns
         /\ ans' = CASE job.prog = "Insertion sort" -> insertionSort(job.in)
                     [] job.prog = "Merge sort" -> Reverse(MergeSort(job.in, 1, Len(job.in)))
                     [] job.prog = "Selection sort" -> Selection(job.in, job.m)
                     [] job.prog = "Heap sort" -> HeapSort(job.in, job.m)
                     [] job.prog = "Counting" -> <<Counting(job.in, Max(SoValues))>>
                     [] job.prog = "Huffman" -> <<Huffman(job.in)>>
         /\ UNCHANGED <<job, arr, extracted, inside>>

SoNext == \/ Solve
          \/ \E v \in SoValues : InsertKey(v)
          \/ Extract
          \/ \E i \in 1 .. PqCalls, v \in SoValues : ChangeKey(i, v)
SoSpec == SoInit /\ [][SoNext]_soVars
-----------------------------------------------------------------------------
BagOf(s) == FoldLeft(LAMBDA b, v : b (+) SetToBag({v}), EmptyBag, s)
Falling(s) == \A i \in 1 .. Len(s) - 1 : s[i] >= s[i + 1]
\* The least cost of a prefix code: the best of all orders of merging.
RECURSIVE Cheapest(_)
Cheapest(b) ==
    IF BagCardinality(b) <= 1 THEN 0
    ELSE Min({LET rest == b (-) BagOf(<<x, y>>) IN x + y + Cheapest(rest (+) SetToBag({x + y})) :
                <<x, y>> \in {p \in BagToSet(b) \X BagToSet(b) : BagOf(p) \sqsubseteq b}})

\* Every program's output is a permutation of its input and in the order it
\* promises (all of it, or the m first or last places); Counting answers each
\* query with the number of keys in the range, and Huffman's cost is the
\* least any prefix code of these frequencies has.
SortedRight ==
    ans # NoAns =>
        LET n == Len(job.in)
        IN  CASE job.prog \in {"Insertion sort", "Merge sort"} ->
                   Falling(ans) /\ BagOf(ans) = BagOf(job.in)
              [] job.prog = "Selection sort" ->
                   /\ BagOf(ans) = BagOf(job.in)
                   /\ \A i \in 1 .. job.m, k \in 1 .. n : i < k => ans[i] <= ans[k]
              [] job.prog = "Heap sort" ->
                   /\ BagOf(ans) = BagOf(job.in)
                   /\ \A k \in 1 .. n, i \in n - job.m + 1 .. n : k < i => ans[k] <= ans[i]
              [] job.prog = "Counting" ->
                   \A a, b \in 0 .. Max(SoValues) : a <= b =>
                       Query(ans[1], a, b) = Quantify(1 .. n, LAMBDA i : job.in[i] \in a .. b)
              [] job.prog = "Huffman" -> ans[1] = Cheapest(BagOf(SelectSeq(job.in, LAMBDA v : v # 0)))

\* Through every sequence of insertions, extractions and changes the queue
\* holds the keys that were put in and not taken out, with a largest one
\* first in every subtree, so that Extract always takes a largest key.
QueueExact == /\ BagOf(arr) = inside
              /\ \A i \in 2 .. Len(arr) : arr[i \div 2] >= arr[i]
-----------------------------------------------------------------------------
(* Graphs and tables *)
None == [ok |-> FALSE]
Infinity == -1           \* the weight of a vertex not yet reached
-----------------------------------------------------------------------------
(* Connected_component.cpp: the label of each vertex; g is a symmetric set   *)
(* of edges on 1 .. n.  A vertex may be in the queue more than once.         *)
RECURSIVE Bfs(_, _, _, _, _)
Bfs(g, n, label, q, vertice) ==
    IF q = <<>> THEN vertice
    ELSE LET v == [vertice EXCEPT ![Head(q)] = label]
         IN  Bfs(g, n, label,
                 Tail(q) \o SelectSeq([j \in 1 .. n |-> j], LAMBDA j : <<Head(q), j>> \in g /\ v[j] = 0), v)
Components(g, n) ==
    FoldLeft(LAMBDA x, i : IF x.vertice[i] # 0 THEN x
                           ELSE [count |-> x.count + 1, vertice |-> Bfs(g, n, x.count + 1, <<i>>, x.vertice)],
             [count |-> 0, vertice |-> [i \in 1 .. n |-> 0]], [i \in 1 .. n |-> i])

(* Topological_sort.cpp.  x is visited, graph and the stack result, its top  *)
(* last, and whether dfs has returned -1.                                    *)
RECURSIVE dfs(_, _, _)
dfs(n, x, v) ==
    LET Follow(y, i) ==
            IF y.bad \/ <<v, i>> \notin y.graph THEN y
            ELSE LET z == [y EXCEPT !.graph = @ \ {<<v, i>>}]
                 IN  IF z.visited[i] = 1 THEN [z EXCEPT !.bad = TRUE]
                     ELSE IF z.visited[i] = 0 THEN dfs(n, z, i) ELSE z
        w == FoldLeft(Follow, [x EXCEPT !.visited[v] = 1], [i \in 1 .. n |-> i])
    IN  IF w.bad THEN w ELSE [w EXCEPT !.visited[v] = -1, !.result = Append(@, v)]
TopologicalSort(g, n) ==
    LET x == FoldLeft(LAMBDA y, i : IF y.bad \/ y.visited[i] # 0 THEN y ELSE dfs(n, y, i),
                      [visited |-> [i \in 1 .. n |-> 0], graph |-> g, result |-> <<>>, bad |-> FALSE],
                      [i \in 1 .. n |-> i])
    IN  [acyclic |-> ~x.bad, order |-> Reverse(x.result)]

(* Dijkstra.cpp: w the weights of the edges, a function on pairs             *)
Relax(w, cur, weight) ==
    [to \in DOMAIN weight |->
        IF <<cur, to>> \in DOMAIN w
             /\ (weight[to] = Infinity \/ weight[cur] + w[<<cur, to>>] < weight[to])
        THEN weight[cur] + w[<<cur, to>>] ELSE weight[to]]
\* Mutant: the vertex of least weight may be one not reached yet.
Nearest_any(weight, selected) ==
    LET open == DOMAIN weight \ selected
    IN  IF open = {} THEN {}
        ELSE {Min({i \in open : \A j \in open : weight[i] <= weight[j]})}

Nearest(weight, selected) ==
    LET open == {i \in DOMAIN weight \ selected : weight[i] # Infinity}
    IN  IF open = {} THEN {}
        ELSE {Min({i \in open : \A j \in open : weight[i] <= weight[j]})}
RECURSIVE Expand(_, _, _, _)
Expand(w, cur, weight, selected) ==
    LET reached == Relax(w, cur, weight)
        next == Nearest(reached, selected \cup {cur})
    IN  IF next = {} THEN reached ELSE Expand(w, CHOOSE i \in next : TRUE, reached, selected \cup {cur})
Dijkstra(w, n) == Expand(w, 1, [i \in 1 .. n |-> IF i = 1 THEN 0 ELSE Infinity], {})
-----------------------------------------------------------------------------
(* Longest_common_sequence.cpp.  Rows M[0] and M[1] are rows i - 1 and i of  *)
(* one table; C says where an entry came from.                               *)
Table(small, big) ==
    LET M[c \in (0 .. Len(small)) \X (0 .. Len(big))] ==
            IF c[1] = 0 \/ c[2] = 0 THEN 0
            ELSE IF small[c[1]] = big[c[2]] THEN M[<<c[1] - 1, c[2] - 1>>] + 1
            ELSE IF M[<<c[1], c[2] - 1>>] <= M[<<c[1] - 1, c[2]>>] THEN M[<<c[1] - 1, c[2]>>]
            ELSE M[<<c[1], c[2] - 1>>]
    IN  M
Came(small, big, M, i, j) == IF small[i] = big[j] THEN 3 ELSE IF M[<<i, j - 1>>] <= M[<<i - 1, j>>] THEN 2 ELSE 1
RECURSIVE findPath(_, _, _, _, _)
findPath(small, big, M, m, n) ==
    IF m = 0 \/ n = 0 THEN <<>>
    ELSE CASE Came(small, big, M, m, n) = 3 -> <<small[m]>> \o findPath(small, big, M, m - 1, n - 1)
           [] Came(small, big, M, m, n) = 2 -> findPath(small, big, M, m - 1, n)
           [] Came(small, big, M, m, n) = 1 -> findPath(small, big, M, m, n - 1)
LongestCommon(a, b) ==
    LET small == IF Len(b) > Len(a) THEN a ELSE b
        big == IF Len(b) > Len(a) THEN b ELSE a
    IN  Reverse(findPath(small, big, Table(small, big), Len(small), Len(big)))

(* Matrixchain.cpp: matrix i is A[i - 1] x A[i]; an entry of the tables M    *)
(* and S is [m, s].  printParen's parentheses are a tree; it reads the       *)
(* bound S[i][j] first, so i < j, and a side of one matrix is no call.  For  *)
(* a single matrix main calls it with i = j = 1, outside of S.               *)
Chain(A, n) ==
    LET T[c \in (1 .. n) \X (1 .. n)] ==
            LET i == c[1]  j == c[2]
                Cost(k) == T[<<i, k>>].m + T[<<k + 1, j>>].m + A[i - 1] * A[k] * A[j]
                best == {k \in i .. j - 1 : \A l \in i .. j - 1 : Cost(k) <= Cost(l)}
            IN  IF i >= j THEN [m |-> 0, s |-> i] ELSE [m |-> Cost(Min(best)), s |-> Min(best)]
    IN  T
RECURSIVE printParen(_, _, _)
printParen(T, i, j) ==
    LET bound == T[<<i, j>>].s
        Side(k, l) == IF k = l THEN <<k>> ELSE printParen(T, k, l)
    IN  <<Side(i, bound), Side(bound + 1, j)>>

(* rod_cutting.c: p[i] the price of length i *)
CutRod(p, n) ==
    LET r[j \in 0 .. n] ==
            IF j = 0 THEN [r |-> 0, s |-> 0]
            ELSE LET Price(i) == p[i] + r[j - i].r
                     best == Min({i \in 1 .. j : \A k \in 1 .. j : Price(k) <= Price(i)})
                 IN  [r |-> Price(best), s |-> best]
    IN  r
RECURSIVE Cuts(_, _)
Cuts(r, n) == IF n = 0 THEN <<>> ELSE <<r[n].s>> \o Cuts(r, n - r[n].s)

(* Assembly_line.c: lines 0 and 1, e and x the times to enter and to leave,  *)
(* a the stations' times, t the times to change after a station.             *)
\* Mutant: the time to change is the other line's.
Station_own(a, t, f, i) ==
    LET stay(l) == f.s[l] + a[l][i]
        change(l) == f.s[1 - l] + t[l][i - 1] + a[l][i]
    IN  [s |-> [l \in {0, 1} |-> IF stay(l) <= change(l) THEN stay(l) ELSE change(l)],
         L |-> Append(f.L, [l \in {0, 1} |-> IF stay(l) <= change(l) THEN l ELSE 1 - l])]

Station(a, t, f, i) ==
    LET stay(l) == f.s[l] + a[l][i]
        change(l) == f.s[1 - l] + t[1 - l][i - 1] + a[l][i]
    IN  [s |-> [l \in {0, 1} |-> IF stay(l) <= change(l) THEN stay(l) ELSE change(l)],
         L |-> Append(f.L, [l \in {0, 1} |-> IF stay(l) <= change(l) THEN l ELSE 1 - l])]
AssemblyLine(e, x, a, t) ==
    LET n == Len(a[0])
        f == FoldLeft(LAMBDA g, i : Station(a, t, g, i),
                      [s |-> [l \in {0, 1} |-> e[l] + a[l][1]], L |-> <<>>], [i \in 1 .. n - 1 |-> i + 1])
        end == IF f.s[0] + x[0] < f.s[1] + x[1] THEN 0 ELSE 1
        path[i \in 1 .. n] == IF i = n THEN end ELSE f.L[i][path[i + 1]]
    IN  [time |-> f.s[end] + x[end], path |-> path]
-----------------------------------------------------------------------------
OpStart(i) == input = i /\ output = None
OpInit == \E i \in OpInputs : OpStart(i)
Main == /\ output = None
        /\ output' = [ok |-> TRUE, of |->
              CASE input.prog = "Connected" -> Components(input.g, input.n)
                [] input.prog = "Topological" -> TopologicalSort(input.g, input.n)
                [] input.prog = "Dijkstra" -> Dijkstra(input.w, input.n)
                [] input.prog = "LCS" -> LongestCommon(input.a, input.b)
                [] input.prog = "Matrixchain" ->
                     LET T == Chain(input.A, input.n)
                     IN  [cost |-> T[<<1, input.n>>].m, tree |-> printParen(T, 1, input.n)]
                [] input.prog = "Rod" ->
                     LET r == CutRod(input.p, input.n) IN [cost |-> r[input.n].r, cuts |-> Cuts(r, input.n)]
                [] input.prog = "Assembly" -> AssemblyLine(input.e, input.x, input.a, input.t)]
        /\ UNCHANGED input
OpSpec == OpInit /\ [][Main]_opVars
-----------------------------------------------------------------------------
(* Reference definitions, by trying everything *)
Reach(g, n) == LET R[k \in 0 .. n] ==
                       IF k = 0 THEN g
                       ELSE R[k - 1] \cup {<<i, j>> \in (1 .. n) \X (1 .. n) :
                                             <<i, k>> \in R[k - 1] /\ <<k, j>> \in R[k - 1]}
               IN  R[n]
\* Walks of at most n edges are enough, as no weight is negative.
Distances(w, n) ==
    LET d[k \in 0 .. n] ==
            IF k = 0 THEN [i \in 1 .. n |-> IF i = 1 THEN {0} ELSE {}]
            ELSE [i \in 1 .. n |-> d[k - 1][i] \cup UNION {{x + w[<<j, i>>] : x \in d[k - 1][j]} :
                                                          j \in {j \in 1 .. n : <<j, i>> \in DOMAIN w}}]
    IN  [i \in 1 .. n |-> IF d[n][i] = {} THEN Infinity ELSE Min(d[n][i])]
Subsequences(s) == {SelectSeq([i \in DOMAIN s |-> <<i, s[i]>>], LAMBDA x : x[1] \in I) : I \in SUBSET DOMAIN s}
Common(a, b) == {[i \in DOMAIN s |-> s[i][2]] : s \in Subsequences(a)}
                  \cap {[i \in DOMAIN s |-> s[i][2]] : s \in Subsequences(b)}
RECURSIVE Trees(_, _), TreeCost(_, _), Leaves(_), Ways(_)
Trees(i, j) == IF i = j THEN {<<i>>}
               ELSE UNION {{<<l, r>> : l \in Trees(i, k), r \in Trees(k + 1, j)} : k \in i .. j - 1}
Leaves(t) == IF Len(t) = 1 THEN t ELSE Leaves(t[1]) \o Leaves(t[2])
TreeCost(A, t) == IF Len(t) = 1 THEN 0
                  ELSE TreeCost(A, t[1]) + TreeCost(A, t[2])
                         + A[Leaves(t[1])[1] - 1] * A[Last(Leaves(t[1]))] * A[Last(Leaves(t[2]))]
Ways(n) == IF n = 0 THEN {<<>>} ELSE UNION {{<<i>> \o c : c \in Ways(n - i)} : i \in 1 .. n}
Revenue(p, cuts) == FoldLeft(LAMBDA x, i : x + p[i], 0, cuts)
LineTime(q, path) ==
    FoldLeft(LAMBDA x, i : x + q.a[path[i]][i] + (IF i = 1 \/ path[i - 1] = path[i] THEN 0 ELSE q.t[path[i - 1]][i - 1]),
             q.e[path[1]] + q.x[path[Len(q.a[0])]], [i \in 1 .. Len(q.a[0]) |-> i])

\* The graph programs label two vertices alike exactly if they are connected,
\* find a cycle exactly if there is one and otherwise print every vertex
\* before those it points to, and compute the least weight of a walk.
GraphsRight ==
    output.ok =>
        CASE input.prog = "Connected" ->
               /\ \A i, j \in 1 .. input.n : (output.of.vertice[i] = output.of.vertice[j])
                                               <=> (i = j \/ <<i, j>> \in Reach(input.g, input.n))
               /\ {output.of.vertice[i] : i \in 1 .. input.n} = 1 .. output.of.count
          [] input.prog = "Topological" ->
               /\ output.of.acyclic <=> \A i \in 1 .. input.n : <<i, i>> \notin Reach(input.g, input.n)
               /\ output.of.acyclic =>
                    /\ ToSet(output.of.order) = 1 .. input.n /\ IsInjective(output.of.order)
                    /\ \A i, j \in DOMAIN output.of.order :
                          <<output.of.order[i], output.of.order[j]>> \in input.g => i < j
          [] input.prog = "Dijkstra" -> output.of = Distances(input.w, input.n)
          [] OTHER -> TRUE

\* The tables give an optimum and the traces printed from them attain it: a
\* longest common subsequence, a cheapest order of multiplications, the best
\* price of a rod and its cuts, the fastest way through the stations.
TablesOptimal ==
    output.ok =>
        CASE input.prog = "LCS" ->
               /\ output.of \in Common(input.a, input.b)
               /\ \A s \in Common(input.a, input.b) : Len(s) <= Len(output.of)
          [] input.prog = "Matrixchain" ->
               /\ output.of.tree \in Trees(1, input.n) /\ TreeCost(input.A, output.of.tree) = output.of.cost
               /\ \A t \in Trees(1, input.n) : output.of.cost <= TreeCost(input.A, t)
          [] input.prog = "Rod" ->
               /\ output.of.cuts \in Ways(input.n) /\ Revenue(input.p, output.of.cuts) = output.of.cost
               /\ \A c \in Ways(input.n) : Revenue(input.p, c) <= output.of.cost
          [] input.prog = "Assembly" ->
               /\ LineTime(input, output.of.path) = output.of.time
               /\ \A p \in [1 .. Len(input.a[0]) -> {0, 1}] : output.of.time <= LineTime(input, p)
          [] OTHER -> TRUE
=============================================================================
