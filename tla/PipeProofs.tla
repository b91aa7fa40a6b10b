------------------------------ MODULE PipeProofs ------------------------------
(***************************************************************************)
(* Proofs about a pipe, for any number of processes, any messages, and any *)
(* PIPESIZE that divides the number of values of a uint.  First the        *)
(* arithmetic of the wrapping counters, then what one pipewrite and one    *)
(* piperead do to the bytes in the pipe (WriteFacts, ReadFacts), then the  *)
(* inductive invariant, then the refinement of the channel of Fifo.        *)
(***************************************************************************)
EXTENDS Pipe, Integers, TLAPS

\* Division with remainder.
LEMMA DivMod ==
    ASSUME NEW x \in Nat, NEW m \in Nat \ {0}
    PROVE  x \div m \in Nat /\ x % m \in 0 .. m - 1 /\ x = m * (x \div m) + (x % m)
  OBVIOUS

\* No wrap below the modulus.
LEMMA ModLess ==
    ASSUME NEW x \in Nat, NEW m \in Nat \ {0}, x < m
    PROVE  x % m = x
  OBVIOUS

\* One wrap below twice the modulus.
LEMMA ModOnce ==
    ASSUME NEW x \in Nat, NEW m \in Nat \ {0}, m <= x, x < 2 * m
    PROVE  x % m = x - m
  OBVIOUS

\* Quotient and remainder are unique.
LEMMA Unique ==
    ASSUME NEW m \in Nat \ {0}, NEW q \in Int, NEW s \in Int,
           NEW r \in 0 .. m - 1, NEW t \in 0 .. m - 1, m * q + r = m * s + t
    PROVE  q = s /\ r = t
  OBVIOUS

\* The remainder of what is written as quotient and remainder.
LEMMA ModIs ==
    ASSUME NEW m \in Nat \ {0}, NEW q \in Nat, NEW r \in 0 .. m - 1, NEW x \in Nat, x = m * q + r
    PROVE  x % m = r
  BY Unique, DivMod

\* Multiplication distributes over addition.
LEMMA Distribute ==
    ASSUME NEW m \in Int, NEW a \in Int, NEW b \in Int
    PROVE  m * (a + b) = m * a + m * b
  OBVIOUS

\* Adding a multiple of the modulus leaves the remainder.
LEMMA ModShift ==
    ASSUME NEW m \in Nat \ {0}, NEW c \in Nat, NEW x \in Nat
    PROVE  (x + m * c) % m = x % m
  <1> DEFINE q == x \div m  r == x % m  y == x + m * c  s == q + c
  <1>1. q \in Nat /\ r \in 0 .. m - 1 /\ x = m * q + r BY DivMod
  <1>2. y \in Nat /\ s \in Nat BY <1>1
  <1> HIDE DEF q, r
  <1>3. m * s = m * q + m * c BY <1>1, Distribute
  <1>4. y = m * s + r BY <1>1, <1>3
  <1> HIDE DEF y, s
  <1>5. y % m = r BY <1>1, <1>2, <1>4, ModIs
  <1> QED BY <1>5 DEF y, r

\* Numbers less than the modulus apart have different remainders.
LEMMA ModInj ==
    ASSUME NEW m \in Nat \ {0}, NEW a \in Nat, NEW i \in 0 .. m - 1,
           NEW j \in 0 .. m - 1, (a + i) % m = (a + j) % m
    PROVE  i = j
  <1> DEFINE x == a + i  y == a + j
  <1>0. x \in Nat /\ y \in Nat OBVIOUS
  <1> HIDE DEF x, y
  <1> DEFINE q == x \div m  s == y \div m  r == x % m
  <1>1. q \in Nat /\ r \in 0 .. m - 1 /\ x = m * q + r BY <1>0, DivMod
  <1>2. s \in Nat /\ y = m * s + r BY <1>0, DivMod DEF x, y
  <1> HIDE DEF q, s, r
  <1>3. CASE i >= j
    <2>1. m * q + 0 = m * s + (i - j) BY <1>1, <1>2 DEF x, y
    <2> QED BY <2>1, <1>3, <1>1, <1>2, Unique
  <1>4. CASE i < j
    <2>1. m * q + (j - i) = m * s + 0 BY <1>1, <1>2 DEF x, y
    <2> QED BY <2>1, <1>4, <1>1, <1>2, Unique
  <1> QED BY <1>3, <1>4

\* As many consecutive numbers as the modulus have every remainder.
LEMMA ModOnto ==
    ASSUME NEW m \in Nat \ {0}, NEW a \in Nat, NEW i \in 0 .. m - 1
    PROVE  \E j \in 0 .. m - 1 : (a + j) % m = i
  <1> DEFINE q == a \div m  r == a % m
             j == IF i >= r THEN i - r ELSE i + m - r
             s == IF i >= r THEN q ELSE q + 1
             x == a + j
  <1>1. q \in Nat /\ r \in 0 .. m - 1 /\ a = m * q + r  BY DivMod
  <1> HIDE DEF q, r
  <1>2. j \in 0 .. m - 1 /\ s \in Nat  BY <1>1
  <1>3. m * (q + 1) = m * q + m  BY <1>1, Distribute
  <1>4. x = m * s + i /\ x \in Nat  BY <1>1, <1>3
  <1> HIDE DEF j, s, x
  <1>5. x % m = i  BY <1>2, <1>4, ModIs
  <1> QED  BY <1>2, <1>5 DEF x

\* Min of two numbers.
LEMMA MinTwo ==
    ASSUME NEW a \in Int, NEW b \in Int
    PROVE  Min({a, b}) = IF a <= b THEN a ELSE b
  BY DEF Min
-----------------------------------------------------------------------------
\* Where in p->data the i-th unread byte is.
Slot(i) == ((nread + i - 1) % WIDTH) % PIPESIZE

\* nread and nwrite wrap once at most when a call adds to them.
LEMMA Advance ==
    ASSUME NEW a \in 0 .. WIDTH - 1, NEW k \in 0 .. WIDTH
    PROVE  (a + k) % WIDTH = IF a + k < WIDTH THEN a + k ELSE a + k - WIDTH
  <1> DEFINE s == a + k
  <1>1. WIDTH \in Nat \ {0} /\ s \in Nat /\ s < 2 * WIDTH  BY PipeConstants
  <1> HIDE DEF s
  <1>2. CASE s < WIDTH  BY <1>1, <1>2, ModLess DEF s
  <1>3. CASE s >= WIDTH
    <2>1. s % WIDTH = s - WIDTH  BY <1>1, <1>3, ModOnce
    <2> QED  BY <2>1, <1>1, <1>3 DEF s
  <1> QED  BY <1>1, <1>2, <1>3

\* nwrite - nread in unsigned arithmetic.
LEMMA Distance ==
    ASSUME NEW a \in 0 .. WIDTH - 1, NEW b \in 0 .. WIDTH - 1
    PROVE  (b + WIDTH - a) % WIDTH = IF a <= b THEN b - a ELSE b + WIDTH - a
  <1>1. WIDTH - a \in 0 .. WIDTH  BY PipeConstants
  <1> DEFINE d == WIDTH - a
  <1>2. b + WIDTH - a = b + d  BY PipeConstants
  <1>3. (b + d) % WIDTH = IF b + d < WIDTH THEN b + d ELSE b + d - WIDTH
    <2> HIDE DEF d
    <2> QED  BY <1>1, Advance DEF d
  <1> QED  BY <1>2, <1>3, PipeConstants

\* The pipe holds at most PIPESIZE bytes.
LEMMA UsedIs ==
    ASSUME TypeOK
    PROVE  /\ Used \in 0 .. PIPESIZE
           /\ Used = IF nread <= nwrite THEN nwrite - nread ELSE nwrite + WIDTH - nread
  <1>1. nread \in 0 .. WIDTH - 1 /\ nwrite \in 0 .. WIDTH - 1 /\ Used <= PIPESIZE  BY DEF TypeOK
  <1>2. Used = IF nread <= nwrite THEN nwrite - nread ELSE nwrite + WIDTH - nread
    BY <1>1, Distance DEF Used
  <1> QED  BY <1>1, <1>2, PipeConstants

\* pipewrite of k bytes makes the pipe k bytes fuller.
LEMMA WriteUsed ==
    ASSUME TypeOK, NEW k \in 0 .. Room, nwrite' = (nwrite + k) % WIDTH, nread' = nread
    PROVE  nwrite' \in 0 .. WIDTH - 1 /\ Used' = Used + k
  <1>1. Used \in 0 .. PIPESIZE /\ k \in 0 .. PIPESIZE - Used  BY UsedIs, PipeConstants DEF Room
  <1>2. k \in 0 .. WIDTH  BY <1>1, PipeConstants
  <1>3. nwrite' = IF nwrite + k < WIDTH THEN nwrite + k ELSE nwrite + k - WIDTH
    BY <1>2, Advance DEF TypeOK
  <1>4. nwrite' \in 0 .. WIDTH - 1  BY <1>3, <1>2, PipeConstants DEF TypeOK
  <1>5. Used' = IF nread <= nwrite' THEN nwrite' - nread ELSE nwrite' + WIDTH - nread
    BY <1>4, Distance DEF TypeOK, Used
  <1> QED  BY <1>1, <1>3, <1>4, <1>5, UsedIs, PipeConstants DEF TypeOK

\* piperead of k bytes makes the pipe k bytes emptier.
LEMMA ReadUsed ==
    ASSUME TypeOK, NEW k \in 0 .. Used, nread' = (nread + k) % WIDTH, nwrite' = nwrite
    PROVE  nread' \in 0 .. WIDTH - 1 /\ Used' = Used - k
  <1>1. Used \in 0 .. PIPESIZE /\ k \in 0 .. Used  BY UsedIs, PipeConstants
  <1>2. k \in 0 .. WIDTH  BY <1>1, PipeConstants
  <1>3. nread' = IF nread + k < WIDTH THEN nread + k ELSE nread + k - WIDTH
    BY <1>2, Advance DEF TypeOK
  <1>4. nread' \in 0 .. WIDTH - 1  BY <1>3, <1>2, PipeConstants DEF TypeOK
  <1>5. Used' = IF nread' <= nwrite THEN nwrite - nread' ELSE nwrite + WIDTH - nread'
    BY <1>4, Distance DEF TypeOK, Used
  <1> QED  BY <1>1, <1>3, <1>4, <1>5, UsedIs, PipeConstants DEF TypeOK

\* The place of the i-th byte: one of the old ones, or the byte that pipewrite
\* puts there, counted from nwrite.
LEMMA SlotOf ==
    ASSUME TypeOK, NEW i \in 1 .. PIPESIZE
    PROVE  LET j == IF i <= Used THEN PIPESIZE + i - 1 - Used ELSE i - 1 - Used
           IN  /\ Slot(i) \in 0 .. PIPESIZE - 1
               /\ j \in 0 .. PIPESIZE - 1
               /\ (CHOOSE h \in 0 .. PIPESIZE - 1 : (nwrite + h) % PIPESIZE = Slot(i)) = j
  <1> DEFINE x == nread + i - 1
             j == IF i <= Used THEN PIPESIZE + i - 1 - Used ELSE i - 1 - Used
  <1>1. PICK c \in Nat : WIDTH = PIPESIZE * c
    <2>1. WIDTH = PIPESIZE * (WIDTH \div PIPESIZE) + (WIDTH % PIPESIZE)
          /\ WIDTH \div PIPESIZE \in Nat
      BY DivMod, PipeConstants
    <2>2. WIDTH % PIPESIZE = 0  BY PipeConstants
    <2> DEFINE e == WIDTH \div PIPESIZE
    <2> HIDE DEF e
    <2>3. WIDTH = PIPESIZE * e /\ e \in Nat  BY <2>1, <2>2, PipeConstants DEF e
    <2> QED  BY <2>3
  <1>2. x \in Nat /\ x < 2 * WIDTH /\ Used \in 0 .. PIPESIZE /\ j \in 0 .. PIPESIZE - 1
    BY UsedIs, PipeConstants DEF TypeOK
  <1>3. Slot(i) = x % PIPESIZE
    <2>0. Slot(i) = (x % WIDTH) % PIPESIZE  BY DEF Slot
    <2> HIDE DEF x, j
    <2>1. CASE x < WIDTH  BY <2>0, <2>1, <1>2, ModLess, PipeConstants
    <2>2. CASE x >= WIDTH
      <3> DEFINE y == x - WIDTH
      <3>1. x % WIDTH = y /\ y \in Nat
        <4>1. WIDTH \in Nat \ {0} /\ WIDTH <= x  BY <2>2, <1>2, PipeConstants
        <4>2. x % WIDTH = x - WIDTH  BY <4>1, <1>2, ModOnce
        <4> QED  BY <4>1, <4>2, <1>2
      <3>2. x = y + PIPESIZE * c  BY <1>1, <1>2, PipeConstants
      <3> HIDE DEF y
      <3>3. (y + PIPESIZE * c) % PIPESIZE = y % PIPESIZE  BY <3>1, ModShift, PipeConstants
      <3> QED  BY <2>0, <3>1, <3>2, <3>3
    <2> QED  BY <2>1, <2>2, <1>2, PipeConstants
  <1>4. (nwrite + j) % PIPESIZE = x % PIPESIZE
    <2> DEFINE y == nwrite + j
    <2>0. y \in Nat  BY <1>2, PipeConstants DEF TypeOK
    <2>1. \/ y = x \/ y = x + PIPESIZE * 1
          \/ x = y + WIDTH \/ x + PIPESIZE * 1 = y + WIDTH
      BY UsedIs, <1>2, PipeConstants DEF TypeOK
    <2> HIDE DEF y, x, j
    <2>2. /\ (x + PIPESIZE * 1) % PIPESIZE = x % PIPESIZE
          /\ (y + PIPESIZE * c) % PIPESIZE = y % PIPESIZE
      BY <1>2, <2>0, <1>1, ModShift, PipeConstants
    <2>3. y % PIPESIZE = x % PIPESIZE  BY <2>1, <2>2, <1>1
    <2> QED  BY <2>3 DEF y
  <1>5. x % PIPESIZE \in 0 .. PIPESIZE - 1  BY <1>2, DivMod, PipeConstants
  <1> HIDE DEF j, x
  <1>6. \A h \in 0 .. PIPESIZE - 1 : (nwrite + h) % PIPESIZE = Slot(i) => h = j
    <2> TAKE h \in 0 .. PIPESIZE - 1
    <2> HAVE (nwrite + h) % PIPESIZE = Slot(i)
    <2>1. (nwrite + h) % PIPESIZE = (nwrite + j) % PIPESIZE  BY <1>3, <1>4
    <2>2. nwrite \in Nat /\ PIPESIZE \in Nat \ {0}  BY PipeConstants DEF TypeOK
    <2> QED  BY <2>1, <2>2, <1>2, ModInj
  <1>7. (CHOOSE h \in 0 .. PIPESIZE - 1 : (nwrite + h) % PIPESIZE = Slot(i)) = j
    BY <1>2, <1>3, <1>4, <1>6
  <1> QED  BY <1>2, <1>3, <1>5, <1>7 DEF j

\* pipewrite appends what it copies, across the wrap of ring and counters.
LEMMA WriteContents ==
    ASSUME TypeOK, NEW k \in 0 .. Room, NEW s \in Seq(Bytes), k <= Len(s),
           nwrite' = (nwrite + k) % WIDTH, nread' = nread,
           data' = [i \in 0 .. PIPESIZE - 1 |->
                      LET j == CHOOSE j \in 0 .. PIPESIZE - 1 :
                                  (nwrite + j) % PIPESIZE = i
                      IN IF j < k THEN s[j + 1] ELSE data[i]]
    PROVE  /\ data' \in [0 .. PIPESIZE - 1 -> Bytes \cup {Junk}]
           /\ Contents' = Contents \o SubSeq(s, 1, k)
  <1>1. Used' = Used + k /\ Used \in 0 .. PIPESIZE /\ k \in 0 .. PIPESIZE - Used
    BY WriteUsed, UsedIs, PipeConstants DEF Room
  <1>2. data' \in [0 .. PIPESIZE - 1 -> Bytes \cup {Junk}]
    <2> SUFFICES ASSUME NEW i \in 0 .. PIPESIZE - 1
                 PROVE  data'[i] \in Bytes \cup {Junk}
      OBVIOUS
    <2> DEFINE j == CHOOSE j \in 0 .. PIPESIZE - 1 : (nwrite + j) % PIPESIZE = i
    <2>1. nwrite \in Nat /\ PIPESIZE \in Nat \ {0}  BY PipeConstants DEF TypeOK
    <2>2. \E h \in 0 .. PIPESIZE - 1 : (nwrite + h) % PIPESIZE = i  BY <2>1, ModOnto
    <2>3. j \in 0 .. PIPESIZE - 1  BY <2>2
    <2> HIDE DEF j
    <2>4. j < k => s[j + 1] \in Bytes
      BY <2>3, <1>1
    <2>5. data'[i] = IF j < k THEN s[j + 1] ELSE data[i]  BY DEF j
    <2> QED  BY <2>4, <2>5 DEF TypeOK
  <1>3. Contents' = [i \in 1 .. Used + k |-> data'[Slot(i)]]
    BY <1>1 DEF Contents, Slot
  <1>4. ASSUME NEW i \in 1 .. Used + k
        PROVE  data'[Slot(i)] = IF i <= Used THEN data[Slot(i)] ELSE s[i - Used]
    <2>1. i \in 1 .. PIPESIZE  BY <1>1, PipeConstants
    <2> DEFINE j == CHOOSE j \in 0 .. PIPESIZE - 1 : (nwrite + j) % PIPESIZE = Slot(i)
    <2>2. /\ Slot(i) \in 0 .. PIPESIZE - 1
          /\ j = IF i <= Used THEN PIPESIZE + i - 1 - Used ELSE i - 1 - Used
      BY <2>1, SlotOf
    <2>3. data'[Slot(i)] = IF j < k THEN s[j + 1] ELSE data[Slot(i)]
      BY <2>2
    <2>4. i \in Nat /\ Used \in Nat /\ k \in Nat /\ i <= Used + k /\ 1 <= i
          /\ Used + k <= PIPESIZE /\ PIPESIZE \in Nat
      BY <1>1, <2>1, PipeConstants
    <2> HIDE DEF j
    <2>5. CASE i <= Used
      <3>1. ~(j < k)  BY <2>2, <2>4, <2>5
      <3> QED  BY <2>3, <2>5, <3>1
    <2>6. CASE ~(i <= Used)
      <3>1. j < k /\ j + 1 = i - Used  BY <2>2, <2>4, <2>6
      <3> QED  BY <2>3, <2>6, <3>1
    <2> QED  BY <2>5, <2>6
  <1>5. Contents = [i \in 1 .. Used |-> data[Slot(i)]]  BY DEF Contents, Slot
  <1>6. SubSeq(s, 1, k) = [i \in 1 .. k |-> s[i]]  BY <1>1
  <1>7. Contents \o SubSeq(s, 1, k)
          = [i \in 1 .. Used + k |-> IF i <= Used THEN data[Slot(i)] ELSE s[i - Used]]
    <2> DEFINE a == Contents  b == SubSeq(s, 1, k)
    <2>1. /\ Used \in Nat /\ k \in Nat
          /\ Len(a) = Used /\ \A i \in 1 .. Used : a[i] = data[Slot(i)]
          /\ Len(b) = k /\ \A i \in 1 .. k : b[i] = s[i]
      BY <1>1, <1>5, <1>6
    <2>2. a \o b = [i \in 1 .. Len(a) + Len(b) |->
                       IF i <= Len(a) THEN a[i] ELSE b[i - Len(a)]]
      OBVIOUS
    <2> HIDE DEF a, b
    <2>3. \A i \in 1 .. Used + k : (IF i <= Used THEN a[i] ELSE b[i - Used])
                                = IF i <= Used THEN data[Slot(i)] ELSE s[i - Used]
      BY <2>1
    <2> QED  BY <2>1, <2>2, <2>3 DEF a, b
  <1> QED  BY <1>2, <1>3, <1>4, <1>7

\* The i-th number from a counter on.
Nth(a, i, m) == (a + i - 1) % m

\* Counting from a counter moved on by j - i, which wraps at m at most once.
LEMMA Shifted ==
    ASSUME NEW m \in Nat \ {0}, NEW a \in 0 .. m - 1, NEW i \in Nat \ {0}, NEW j \in Nat, i <= j, j < m,
           NEW b \in Nat, b = IF a + (j - i) < m THEN a + (j - i) ELSE a + (j - i) - m
    PROVE  Nth(b, i, m) = Nth(a, j, m)
  <1> DEFINE x == b + i - 1  y == a + j - 1
  <1>1. x \in Nat /\ y \in Nat /\ y < 2 * m  OBVIOUS
  <1>2. x = y \/ (x = y - m /\ x < m)  OBVIOUS
  <1>3. x % m = y % m
    <2> HIDE DEF x, y
    <2>1. CASE x = y  BY <2>1
    <2>2. CASE x = y - m /\ x < m
      <3>1. m <= y  BY <1>1, <2>2
      <3>2. x % m = x  BY <1>1, <2>2, ModLess
      <3>3. y % m = y - m  BY <1>1, <3>1, ModOnce
      <3> QED  BY <3>2, <3>3, <2>2
    <2> QED  BY <1>2, <2>1, <2>2
  <1> QED  BY <1>3 DEF Nth

\* piperead returns the oldest bytes and leaves the others.
LEMMA ReadContents ==
    ASSUME TypeOK, NEW k \in 0 .. Used, nread' = (nread + k) % WIDTH,
           nwrite' = nwrite, data' = data,
           given' = [i \in 1 .. k |-> data[((nread + i - 1) % WIDTH) % PIPESIZE]]
    PROVE  /\ k <= Len(Contents) /\ given' = SubSeq(Contents, 1, k)
           /\ Contents' = SubSeq(Contents, k + 1, Len(Contents))
  <1>1. /\ nread' \in 0 .. WIDTH - 1 /\ Used' = Used - k /\ Used \in 0 .. PIPESIZE
        /\ k \in 0 .. Used
    BY ReadUsed, UsedIs
  <1>2. Contents = [i \in 1 .. Used |-> data[Slot(i)]]  BY DEF Contents, Slot
  <1>3. Len(Contents) = Used  BY <1>1, <1>2
  <1>4. given' = SubSeq(Contents, 1, k)
    <2>1. given' = [i \in 1 .. k |-> data[Slot(i)]]  BY DEF Slot
    <2> QED  BY <1>1, <1>2, <2>1
  <1>5. ASSUME NEW i \in 1 .. Used - k
        PROVE  (nread' + i - 1) % WIDTH = (nread + (i + k) - 1) % WIDTH
    <2>1. nread' = IF nread + k < WIDTH THEN nread + k ELSE nread + k - WIDTH
      BY <1>1, Advance, PipeConstants DEF TypeOK
    <2>2. /\ nread \in 0 .. WIDTH - 1 /\ WIDTH \in Nat \ {0} /\ i + k < WIDTH
          /\ i \in Nat \ {0} /\ k \in Nat /\ nread' \in Nat
      BY <1>1, PipeConstants DEF TypeOK
    <2>3. PICK j \in Nat : j = i + k  BY <2>2
    <2>4. /\ k = j - i /\ i <= j /\ j < WIDTH  BY <2>2, <2>3
    <2>5. Nth(nread', i, WIDTH) = Nth(nread, j, WIDTH)  BY <2>1, <2>2, <2>4, Shifted
    <2> QED  BY <2>3, <2>5 DEF Nth
  <1>6. Contents' = [i \in 1 .. Used - k |-> data[Slot(i + k)]]
    <2>1. Contents' = [i \in 1 .. Used - k |-> data[((nread' + i - 1) % WIDTH) % PIPESIZE]]
      BY <1>1 DEF Contents
    <2> QED  BY <2>1, <1>5 DEF Slot
  <1>7. SubSeq(Contents, k + 1, Used) = [i \in 1 .. Used - k |-> data[Slot(i + k)]]
    BY <1>1, <1>2
  <1>8. k <= Len(Contents)  BY <1>1, <1>3
  <1>9. Contents' = SubSeq(Contents, k + 1, Len(Contents))  BY <1>3, <1>6, <1>7, Zenon
  <1> QED  BY <1>4, <1>8, <1>9
-----------------------------------------------------------------------------
\* The bytes a process is about to write; none outside pipewrite.
Carried ==
    /\ buf \in [Procs -> Seq(Bytes)]
    /\ \A p \in Procs : pc[p] \notin {"write", "wsleep"} => buf[p] = <<>>

\* Who is inside a call holds a reference to that end.
Holders ==
    \A p \in Procs : /\ pc[p] \in {"write", "wsleep"} => p \in fd["w"]
                     /\ pc[p] \in {"read", "rsleep"} => p \in fd["r"]

\* The last reference of an end goes to pipeclose, once; an end is open until
\* then, and the page is freed with the second end.
Closing ==
    /\ \A p \in Procs : pc[p] = "wclose" => fd["w"] = {} /\ writeopen
    /\ \A p \in Procs : pc[p] = "rclose" => fd["r"] = {} /\ readopen
    /\ \A p, q \in Procs : pc[p] \in {"wclose", "rclose"} /\ pc[q] = pc[p] => p = q
    /\ writeopen /\ fd["w"] = {} => \E p \in Procs : pc[p] = "wclose"
    /\ readopen /\ fd["r"] = {} => \E p \in Procs : pc[p] = "rclose"
    /\ ~writeopen => fd["w"] = {}
    /\ ~readopen => fd["r"] = {}
    /\ freed = IF readopen \/ writeopen THEN 0 ELSE 1

\* A reader sleeps while there are writers, a writer on a full pipe that has
\* readers.
Asleep ==
    \A p \in Procs : /\ pc[p] = "rsleep" => writeopen
                     /\ pc[p] = "wsleep" => Used = PIPESIZE /\ readopen

\* Without kills a reader sleeps only on an empty pipe.
Unkilled == Kills \/ \A p \in Procs : ~killed[p] /\ (pc[p] = "rsleep" => nread = nwrite)

\* The inductive invariant.
PipeInv == /\ TypeOK /\ Carried /\ Holders /\ Closing
           /\ Asleep /\ NoStandoff /\ Unkilled

\* pipealloc() establishes the invariant.
LEMMA PipeInit == Init => PipeInv
  <1> SUFFICES ASSUME Init PROVE PipeInv  OBVIOUS
  <1>1. Used = 0
    BY Distance, PipeConstants DEF Init, Used
  <1>2. TypeOK  BY <1>1, PipeConstants DEF Init, TypeOK, Steps, Ends
  <1>3. fd["w"] # {} /\ fd["r"] # {}  BY DEF Init, Ends
  <1> QED  BY <1>1, <1>2, <1>3 
     DEF Init, PipeInv, Carried, Holders, Closing, Asleep, NoStandoff, Unkilled, Ends

\* All that pipewrite does in one critical section: it copies what fits, appends
\* it to the contents and ends, fails or sleeps on a full pipe.
LEMMA WriteFacts ==
    ASSUME PipeInv, NEW p \in Procs, PipeWrite(p)
    PROVE  \E k \in 0 .. Room :
              /\ k <= Len(buf[p]) /\ nwrite' = (nwrite + k) % WIDTH
              /\ nwrite' \in 0 .. WIDTH - 1 /\ Used' = Used + k /\ Used' <= PIPESIZE
              /\ data' \in [0 .. PIPESIZE - 1 -> Bytes \cup {Junk}]
              /\ Contents' = Contents \o SubSeq(buf[p], 1, k)
              /\ k = Len(buf[p]) \/ Used' = PIPESIZE
              /\ LET done == k = Len(buf[p])
                     fails == ~done /\ (~readopen \/ killed[p])
                     w == IF fails THEN pc ELSE Wake(pc, "rsleep", "read")
                 IN  /\ buf' = [buf EXCEPT ![p] = IF fails THEN <<>>
                                                  ELSE SubSeq(@, k + 1, Len(@))]
                     /\ pc' = [w EXCEPT ![p] = IF done \/ fails THEN "idle" ELSE "wsleep"]
  <1> DEFINE k == Min({Room, Len(buf[p])})
  <1>1. buf[p] \in Seq(Bytes) /\ TypeOK  BY DEF PipeInv, Carried
  <1>2. Used \in 0 .. PIPESIZE /\ Room \in 0 .. PIPESIZE /\ Room = PIPESIZE - Used
    BY <1>1, UsedIs, PipeConstants DEF Room
  <1>3. k = IF Room <= Len(buf[p]) THEN Room ELSE Len(buf[p])  BY <1>1, <1>2, MinTwo
  <1>4. k \in 0 .. Room /\ k <= Len(buf[p]) /\ (k = Len(buf[p]) \/ k = Room)
    BY <1>1, <1>2, <1>3
  <1>5. /\ nwrite' = (nwrite + k) % WIDTH /\ nread' = nread
        /\ data' = [i \in 0 .. PIPESIZE - 1 |->
                      LET j == CHOOSE j \in 0 .. PIPESIZE - 1 :
                                  (nwrite + j) % PIPESIZE = i
                      IN IF j < k THEN buf[p][j + 1] ELSE data[i]]
    BY DEF PipeWrite
  <1>6. LET done == k = Len(buf[p])
            fails == ~done /\ (~readopen \/ killed[p])
            w == IF fails THEN pc ELSE Wake(pc, "rsleep", "read")
        IN  /\ buf' = [buf EXCEPT ![p] = IF fails THEN <<>>
                                         ELSE SubSeq(@, k + 1, Len(@))]
            /\ pc' = [w EXCEPT ![p] = IF done \/ fails THEN "idle" ELSE "wsleep"]
    BY DEF PipeWrite
  <1> HIDE DEF k
  <1>7. nwrite' \in 0 .. WIDTH - 1 /\ Used' = Used + k  BY <1>1, <1>4, <1>5, WriteUsed
  <1>8. /\ data' \in [0 .. PIPESIZE - 1 -> Bytes \cup {Junk}]
        /\ Contents' = Contents \o SubSeq(buf[p], 1, k)
    BY <1>1, <1>4, <1>5, WriteContents
  <1>9. Used' <= PIPESIZE /\ (k = Len(buf[p]) \/ Used' = PIPESIZE)
    BY <1>2, <1>4, <1>7, PipeConstants
  <1> QED  BY <1>4, <1>5, <1>6, <1>7, <1>8, <1>9

\* What piperead does in one critical section, once there is something to read.
LEMMA ReadFacts ==
    ASSUME PipeInv, NEW p \in Procs, PipeRead(p)
    PROVE  \E k \in 0 .. Used :
              /\ nread' = (nread + k) % WIDTH
              /\ nread' \in 0 .. WIDTH - 1 /\ Used' = Used - k /\ Used' <= PIPESIZE
              /\ k <= Len(Contents) /\ given' = SubSeq(Contents, 1, k)
              /\ Contents' = SubSeq(Contents, k + 1, Len(Contents))
  <1> DEFINE k == Min({Used, n[p]})
  <1>1. TypeOK /\ n[p] \in 0 .. MaxRead  BY DEF PipeInv, TypeOK
  <1>2. Used \in 0 .. PIPESIZE  BY <1>1, UsedIs
  <1>3. k \in 0 .. Used
    <2>1. k = IF Used <= n[p] THEN Used ELSE n[p]  BY <1>1, <1>2, MinTwo, PipeConstants
    <2> QED  BY <2>1, <1>1, <1>2, PipeConstants
  <1>4. /\ nread' = (nread + k) % WIDTH /\ nwrite' = nwrite /\ data' = data
        /\ given' = [i \in 1 .. k |-> data[((nread + i - 1) % WIDTH) % PIPESIZE]]
    BY DEF PipeRead
  <1> HIDE DEF k
  <1>5. nread' \in 0 .. WIDTH - 1 /\ Used' = Used - k  BY <1>1, <1>3, <1>4, ReadUsed
  <1>6. /\ k <= Len(Contents) /\ given' = SubSeq(Contents, 1, k)
        /\ Contents' = SubSeq(Contents, k + 1, Len(Contents))
    BY <1>1, <1>3, <1>4, ReadContents
  <1> QED  BY <1>2, <1>3, <1>4, <1>5, <1>6, PipeConstants

\* The calls that only begin, and the actions on files and on killed processes,
\* keep the invariant.
LEMMA QuietStep ==
    ASSUME PipeInv, NEW p \in Procs,
           \/ WriteCall(p) \/ ReadCall(p) \/ PipeReadEmpty(p) \/ Kill(p)
           \/ \E end \in Ends : FileClose(p, end) \/ \E q \in Procs : FileDup(p, q, end)
    PROVE  PipeInv'
  <1> USE DEF PipeInv
  <1>1. CASE WriteCall(p)
    <2>1. TypeOK'  BY <1>1 DEF WriteCall, TypeOK, Steps, Ends, pipe, Used
    <2>2. Carried'  BY <1>1, PipeConstants DEF WriteCall, Carried, TypeOK, Idle
    <2>3. Holders' /\ Closing'
      BY <1>1 DEF WriteCall, Holders, Closing, TypeOK, Idle, pipe
    <2>4. (Asleep /\ NoStandoff /\ Unkilled)'
      BY <1>1 DEF WriteCall, Asleep, NoStandoff, Unkilled, TypeOK, Idle, pipe, Used
    <2> QED  BY <2>1, <2>2, <2>3, <2>4
  <1>2. CASE ReadCall(p)
    <2>1. TypeOK'  BY <1>2 , PipeConstants DEF ReadCall, TypeOK, Steps, Ends, pipe, Used
    <2>2. Carried'  BY <1>2 DEF ReadCall, Carried, TypeOK, Idle
    <2>3. Holders' /\ Closing'
      BY <1>2 DEF ReadCall, Holders, Closing, TypeOK, Idle, pipe
    <2>4. (Asleep /\ NoStandoff /\ Unkilled)'
      BY <1>2 DEF ReadCall, Asleep, NoStandoff, Unkilled, TypeOK, Idle, pipe, Used
    <2> QED  BY <2>1, <2>2, <2>3, <2>4
  <1>3. CASE PipeReadEmpty(p)
    <2>1. TypeOK'  BY <1>3, PipeConstants DEF PipeReadEmpty, TypeOK, Steps, Ends, pipe, Used
    <2>2. Carried'  BY <1>3 DEF PipeReadEmpty, Carried, TypeOK
    <2>3. Holders' /\ Closing'
      BY <1>3 DEF PipeReadEmpty, Holders, Closing, TypeOK, pipe
    <2>4. Used = 0  BY <1>3, UsedIs DEF PipeReadEmpty, TypeOK
    <2>5. (Asleep /\ Unkilled)'
      BY <1>3 DEF PipeReadEmpty, Asleep, Unkilled, TypeOK, pipe, Used
    <2>6. NoStandoff'
      BY <1>3, <2>4, PipeConstants DEF PipeReadEmpty, Asleep, NoStandoff, TypeOK
    <2> QED  BY <2>1, <2>2, <2>3, <2>5, <2>6
  <1>4. CASE Kill(p)
    <2>1. TypeOK'  BY <1>4 DEF Kill, TypeOK, Steps, Ends, pipe, Used
    <2>2. Carried' /\ Holders'  BY <1>4 DEF Kill, Carried, Holders, TypeOK
    <2>3. Closing'
      BY <1>4 DEF Kill, Closing, TypeOK, pipe
    <2>4. (Asleep /\ NoStandoff /\ Unkilled)'
      BY <1>4 DEF Kill, Asleep, NoStandoff, Unkilled, TypeOK, pipe, Used
    <2> QED  BY <2>1, <2>2, <2>3, <2>4
  <1>5. ASSUME NEW end \in Ends, FileClose(p, end)
        PROVE  PipeInv'
    <2>1. TypeOK'  BY <1>5 DEF FileClose, TypeOK, Steps, Ends, pipe, Used
    <2>2. Carried'  BY <1>5 DEF FileClose, Carried, TypeOK, Idle
    <2>3. Holders'  BY <1>5 DEF FileClose, Holders, TypeOK, Idle, Ends
    <2>4. Closing'
      BY <1>5 DEF FileClose, Closing, TypeOK, Idle, pipe, Ends
    <2>5. (Asleep /\ NoStandoff /\ Unkilled)'
      BY <1>5 DEF FileClose, Asleep, NoStandoff, Unkilled, TypeOK, Idle, pipe, Used
    <2> QED  BY <2>1, <2>2, <2>3, <2>4, <2>5
  <1>6. ASSUME NEW end \in Ends, NEW q \in Procs, FileDup(p, q, end)
        PROVE  PipeInv'
    <2>1. TypeOK'  BY <1>6 DEF FileDup, TypeOK, Steps, Ends, pipe, Used
    <2>2. Carried' /\ Holders'
      BY <1>6 DEF FileDup, Carried, Holders, TypeOK, Ends
    <2>3. Closing'
      BY <1>6 DEF FileDup, Closing, TypeOK, pipe, Ends
    <2>4. (Asleep /\ NoStandoff /\ Unkilled)'
      BY <1>6 DEF FileDup, Asleep, NoStandoff, Unkilled, pipe, Used
    <2> QED  BY <2>1, <2>2, <2>3, <2>4
  <1> QED  BY <1>1, <1>2, <1>3, <1>4, <1>5, <1>6

\* pipewrite keeps the invariant: whoever fills the pipe wakes the readers.
LEMMA WriteStep ==
    ASSUME PipeInv, NEW p \in Procs, PipeWrite(p)
    PROVE  PipeInv'
  <1> USE DEF PipeInv
  <1>1. /\ pc[p] = "write"
        /\ UNCHANGED <<nread, readopen, writeopen, freed, fd, n, killed, given>>
    BY DEF PipeWrite
  <1>2. PICK k \in 0 .. Room :
              /\ k <= Len(buf[p]) /\ nwrite' = (nwrite + k) % WIDTH
              /\ nwrite' \in 0 .. WIDTH - 1 /\ Used' = Used + k /\ Used' <= PIPESIZE
              /\ data' \in [0 .. PIPESIZE - 1 -> Bytes \cup {Junk}]
              /\ Contents' = Contents \o SubSeq(buf[p], 1, k)
              /\ k = Len(buf[p]) \/ Used' = PIPESIZE
              /\ LET done == k = Len(buf[p])
                     fails == ~done /\ (~readopen \/ killed[p])
                     w == IF fails THEN pc ELSE Wake(pc, "rsleep", "read")
                 IN  /\ buf' = [buf EXCEPT ![p] = IF fails THEN <<>>
                                                  ELSE SubSeq(@, k + 1, Len(@))]
                     /\ pc' = [w EXCEPT ![p] = IF done \/ fails THEN "idle" ELSE "wsleep"]
    BY WriteFacts
  <1> DEFINE done == k = Len(buf[p])
             fails == ~done /\ (~readopen \/ killed[p])
  <1>3. /\ pc' \in [Procs -> Steps]
        /\ pc'[p] = IF done \/ fails THEN "idle" ELSE "wsleep"
        /\ \A q \in Procs \ {p} : pc'[q] = IF pc[q] = "rsleep" /\ ~fails THEN "read" ELSE pc[q]
    BY <1>1, <1>2 DEF TypeOK, Steps, Wake
  <1>4. /\ buf'[p] \in Seq(Bytes) /\ (done \/ fails => buf'[p] = <<>>)
        /\ \A q \in Procs \ {p} : buf'[q] = buf[q]
        /\ buf' \in [Procs -> Seq(Bytes)]
    <2>1. buf[p] \in Seq(Bytes) /\ k \in Nat BY <1>2 DEF Carried
    <2>2. SubSeq(buf[p], k + 1, Len(buf[p])) \in Seq(Bytes)
          /\ (done => SubSeq(buf[p], k + 1, Len(buf[p])) = <<>>)
       BY <2>1
    <2> QED BY <1>2, <2>1, <2>2 DEF Carried
  <1> HIDE DEF done, fails
  <1>5. Used \in 0 .. PIPESIZE  BY UsedIs
  <1>6. TypeOK'  BY <1>1, <1>2, <1>3 DEF TypeOK, pipe
  <1>7. Carried' BY <1>3, <1>4 DEF Carried
  <1>8. Holders' /\ Closing'
    <2>1. \A q \in Procs : /\ pc'[q] = "wclose" <=> pc[q] = "wclose"
                           /\ pc'[q] = "rclose" <=> pc[q] = "rclose"
      BY <1>1, <1>3
    <2>2. Holders'  BY <1>1, <1>3 DEF Holders
    <2>3. Closing'  BY <1>1, <2>1 DEF Closing
    <2> QED  BY <2>2, <2>3
  <1>9. Asleep' BY <1>1, <1>2, <1>3, <1>5, PipeConstants DEF Asleep, Room, done, fails, TypeOK
  <1>10. NoStandoff' BY <1>1, <1>3 DEF NoStandoff
  <1>11. Unkilled' BY <1>1, <1>3, <1>8 DEF Unkilled, fails, Holders, Closing
  <1> QED BY <1>6, <1>7, <1>8, <1>9, <1>10, <1>11

\* piperead keeps the invariant: whoever takes bytes wakes the writers.
LEMMA ReadStep ==
    ASSUME PipeInv, NEW p \in Procs, PipeRead(p)
    PROVE  PipeInv'
  <1> USE DEF PipeInv
  <1>1. /\ pc[p] = "read" /\ ~(nread = nwrite /\ writeopen)
        /\ UNCHANGED <<nwrite, data, readopen, writeopen, freed, fd, buf, killed>>
        /\ n' = [n EXCEPT ![p] = 0]
        /\ pc' = [Wake(pc, "wsleep", "write") EXCEPT ![p] = "idle"]
    BY DEF PipeRead
  <1>2. nread' \in 0 .. WIDTH - 1 /\ Used' <= PIPESIZE  BY ReadFacts
  <1>3. /\ pc' \in [Procs -> Steps]
        /\ pc'[p] = "idle"
        /\ \A q \in Procs \ {p} : pc'[q] = IF pc[q] = "wsleep" THEN "write" ELSE pc[q]
    BY <1>1 DEF TypeOK, Steps, Wake
  <1>4. \A q \in Procs : pc'[q] # "wsleep" /\ (pc'[q] = "rsleep" => pc[q] = "rsleep")
    BY <1>3
  <1>5. TypeOK'  BY <1>1, <1>2, <1>3, PipeConstants DEF TypeOK
  <1>6. Carried'  BY <1>1, <1>3 DEF Carried
  <1>7. Holders'  BY <1>1, <1>3 DEF Holders
  <1>8. Closing'
    <2>1. \A q \in Procs : /\ pc'[q] = "wclose" <=> pc[q] = "wclose"
                           /\ pc'[q] = "rclose" <=> pc[q] = "rclose"
      BY <1>1, <1>3
    <2> QED  BY <1>1, <2>1 DEF Closing
  <1>9. Asleep' /\ NoStandoff'  BY <1>1, <1>4 DEF Asleep, NoStandoff
  <1>10. Unkilled'
    BY <1>1, <1>4 DEF Unkilled, Asleep
  <1> QED  BY <1>5, <1>6, <1>7, <1>8, <1>9, <1>10

\* pipeclose keeps the invariant: it wakes the sleepers of the other end.
LEMMA CloseStep ==
    ASSUME PipeInv, NEW p \in Procs, PipeClose(p)
    PROVE  PipeInv'
  <1> USE DEF PipeInv
  <1> DEFINE asleep == IF pc[p] = "wclose" THEN "rsleep" ELSE "wsleep"
             awake == IF pc[p] = "wclose" THEN "read" ELSE "write"
  <1>1. /\ pc[p] \in {"wclose", "rclose"}
        /\ writeopen' = (writeopen /\ pc[p] # "wclose")
        /\ readopen' = (readopen /\ pc[p] # "rclose")
        /\ freed' = IF readopen' \/ writeopen' THEN freed ELSE freed + 1
        /\ UNCHANGED <<nread, nwrite, data, fd, buf, n, killed, given>>
        /\ pc' = [Wake(pc, asleep, awake) EXCEPT ![p] = "idle"]
    BY DEF PipeClose
  <1>2. /\ pc' \in [Procs -> Steps] /\ pc'[p] = "idle"
        /\ \A q \in Procs \ {p} : pc'[q] = IF pc[q] = asleep THEN awake ELSE pc[q]
    BY <1>1 DEF TypeOK, Steps, Wake
  <1>3. Used' = Used  BY <1>1 DEF Used
  <1>4. (pc[p] = "wclose" => fd["w"] = {} /\ writeopen)
        /\ (pc[p] = "rclose" => fd["r"] = {} /\ readopen)
        /\ freed = 0
    BY <1>1 DEF Closing
  <1>5. freed' = IF readopen' \/ writeopen' THEN 0 ELSE 1  BY <1>1, <1>4
  <1>6. TypeOK'  BY <1>1, <1>2, <1>3, <1>5 DEF TypeOK
  <1>7. Carried' /\ Holders'  BY <1>1, <1>2 DEF Carried, Holders
  <1>8. Closing'
    <2>1. \A q \in Procs \ {p} : /\ pc'[q] = "wclose" <=> pc[q] = "wclose"
                                 /\ pc'[q] = "rclose" <=> pc[q] = "rclose"
      BY <1>1, <1>2
    <2>2. CASE pc[p] = "wclose"
      <3>1. ~writeopen' /\ readopen' = readopen /\ fd' = fd  BY <1>1, <2>2 DEF TypeOK
      <3> QED  BY <1>2, <1>4, <1>5, <2>1, <2>2, <3>1 DEF Closing
    <2>3. CASE pc[p] = "rclose"
      <3>1. ~readopen' /\ writeopen' = writeopen /\ fd' = fd  BY <1>1, <2>3 DEF TypeOK
      <3> QED  BY <1>2, <1>4, <1>5, <2>1, <2>3, <3>1 DEF Closing
    <2> QED  BY <1>1, <2>2, <2>3
  <1>9. \A q \in Procs : /\ pc'[q] = "wsleep" => pc[q] = "wsleep" /\ pc[p] = "wclose"
                         /\ pc'[q] = "rsleep" => pc[q] = "rsleep" /\ pc[p] = "rclose"
    BY <1>1, <1>2
  <1>10. (Asleep /\ NoStandoff /\ Unkilled)'
    BY <1>1, <1>3, <1>9 DEF Asleep, NoStandoff, Unkilled
  <1> QED  BY <1>6, <1>7, <1>8, <1>10

\* The inductive invariant holds in every reachable state.
THEOREM PipeInvariance == Spec => []PipeInv
  <1>1. PipeInv /\ [Next]_vars => PipeInv'
    <2> SUFFICES ASSUME PipeInv, [Next]_vars PROVE PipeInv'  OBVIOUS
    <2>1. CASE Next  BY <2>1, QuietStep, WriteStep, ReadStep, CloseStep DEF Next
    <2>2. CASE UNCHANGED vars
      <3> USE <2>2 DEF vars, pipe, PipeInv
      <3>1. TypeOK' /\ Carried'  BY DEF TypeOK, Used, Carried
      <3>2. Holders' /\ Closing'  BY DEF Holders, Closing
      <3>3. Asleep' /\ NoStandoff' /\ Unkilled'
        BY DEF Asleep, NoStandoff, Unkilled, Used
      <3> QED  BY <3>1, <3>2, <3>3
    <2> QED  BY <2>1, <2>2
  <1> QED  BY <1>1, PipeInit, PTL DEF Spec

\* The invariant says when the page is freed.
LEMMA InvFreedLast == PipeInv => FreedLast
  <1> SUFFICES ASSUME PipeInv PROVE FreedLast  OBVIOUS
  <1>1. freed = (IF readopen \/ writeopen THEN 0 ELSE 1)
        /\ readopen \in BOOLEAN /\ writeopen \in BOOLEAN
    BY DEF PipeInv, TypeOK, Closing
  <1>2. ASSUME ~readopen, ~writeopen
        PROVE  fd["r"] = {} /\ fd["w"] = {} /\ \A p \in Procs : Idle(p)
    <2>1. fd["r"] = {} /\ fd["w"] = {}  BY <1>2 DEF PipeInv, Closing
    <2>2. \A p \in Procs : pc[p] \in Steps /\ pc[p] \notin {"wclose", "rclose"}
      BY <1>2 DEF PipeInv, TypeOK, Closing
    <2>3. \A p \in Procs : pc[p] \notin {"write", "wsleep", "read", "rsleep"}
      BY <2>1 DEF PipeInv, Holders
    <2> QED  BY <2>1, <2>2, <2>3 DEF Steps, Idle
  <1>3. ASSUME fd["r"] = {}, fd["w"] = {}, \A p \in Procs : Idle(p)
        PROVE  ~readopen /\ ~writeopen
    BY <1>3 DEF PipeInv, Closing, Idle
  <1> QED  BY <1>1, <1>2, <1>3 DEF FreedLast

\* pipe.c with processes killed in the middle of a call: the counters stay at
\* most PIPESIZE apart, a reader and a writer never sleep at the same time, and
\* the page is freed once, after the last use.
THEOREM KilledPipe == Spec => []KilledPipeSound
  BY PipeInvariance, InvFreedLast, PTL DEF KilledPipeSound, PipeInv

\* pipe.c when nobody is killed: a reader sleeps only on an empty pipe and a
\* writer only on a full one.  With kills this fails: a killed writer returns
\* from a full pipe without waking the readers.
THEOREM SleepersWoken ==
    ASSUME Kills = FALSE
    PROVE  Spec => []PipeSound
  <1>1. PipeInv => PipeSound
    BY InvFreedLast DEF PipeSound, PipeInv, SleepJustified, Asleep, Unkilled
  <1> QED  BY <1>1, PipeInvariance, PTL
-----------------------------------------------------------------------------
\* The contents are the Used bytes from nread on.
LEMMA ContentsLen ==
    ASSUME TypeOK
    PROVE  Contents \in Seq(Bytes \cup {Junk}) /\ Len(Contents) = Used
  <1>1. Used \in 0 .. PIPESIZE  BY UsedIs
  <1>2. Contents = [i \in 1 .. Used |-> data[Slot(i)]]  BY DEF Contents, Slot
  <1>3. ASSUME NEW i \in 1 .. Used  PROVE data[Slot(i)] \in Bytes \cup {Junk}
    <2>1. i \in 1 .. PIPESIZE  BY <1>1, PipeConstants
    <2>2. Slot(i) \in 0 .. PIPESIZE - 1  BY <2>1, SlotOf
    <2> QED  BY <2>2 DEF TypeOK
  <1> QED  BY <1>1, <1>2, <1>3

\* A critical section of pipewrite is Put.
LEMMA ChannelWrite ==
    ASSUME PipeInv, NEW p \in Procs, PipeWrite(p)
    PROVE  Channel!Put(p)
  <1>1. PICK k \in 0 .. Room :
              /\ k <= Len(buf[p]) /\ Used' = Used + k /\ Used' <= PIPESIZE
              /\ Contents' = Contents \o SubSeq(buf[p], 1, k)
              /\ LET done == k = Len(buf[p])
                     fails == ~done /\ (~readopen \/ killed[p])
                 IN  buf' = [buf EXCEPT ![p] = IF fails THEN <<>>
                                               ELSE SubSeq(@, k + 1, Len(@))]
    BY WriteFacts
  <1>2. TypeOK /\ buf \in [Procs -> Seq(Bytes)]  BY DEF PipeInv, Carried
  <1>3. k \in 0 .. Len(buf[p])  BY <1>1, <1>2
  <1>4. Len(Contents) + k <= PIPESIZE  BY <1>1, <1>2, ContentsLen
  <1>5. \E rest \in {SubSeq(buf[p], k + 1, Len(buf[p])), <<>>} :
           buf' = [buf EXCEPT ![p] = rest]
    BY <1>1
  <1>6. UNCHANGED given  BY DEF PipeWrite
  <1> QED  BY <1>1, <1>3, <1>4, <1>5, <1>6 DEF Channel!Put

\* A critical section of piperead is Get.
LEMMA ChannelRead ==
    ASSUME PipeInv, NEW p \in Procs, PipeRead(p)
    PROVE  Channel!Get
  <1>1. PICK k \in 0 .. Used :
              /\ k <= Len(Contents) /\ given' = SubSeq(Contents, 1, k)
              /\ Contents' = SubSeq(Contents, k + 1, Len(Contents))
    BY ReadFacts
  <1>2. k \in 0 .. Len(Contents)  BY <1>1, ContentsLen DEF PipeInv
  <1>3. UNCHANGED buf  BY DEF PipeRead
  <1> QED  BY <1>1, <1>2, <1>3 DEF Channel!Get

\* Every step of the pipe is a step of the channel or a stutter.
LEMMA ChannelStep == PipeInv /\ [Next]_vars => [Channel!FifoNext]_Channel!fifoVars
  <1> SUFFICES ASSUME PipeInv, [Next]_vars
               PROVE  [Channel!FifoNext]_Channel!fifoVars
    OBVIOUS
  <1>1. ASSUME UNCHANGED <<pipe, buf, given>>
        PROVE  UNCHANGED Channel!fifoVars
    BY <1>1 DEF pipe, Contents, Used, Channel!fifoVars
  <1>2. CASE UNCHANGED vars  BY <1>1, <1>2 DEF vars
  <1>3. ASSUME NEW p \in Procs, WriteCall(p)
        PROVE  Channel!Ask(p)
    <2>1. buf[p] = <<>> /\ \E m \in Messages : buf' = [buf EXCEPT ![p] = m]
      BY <1>3 DEF PipeInv, Carried, WriteCall, Idle
    <2>2. UNCHANGED <<Contents, given>>
      BY <1>3 DEF WriteCall, pipe, Contents, Used
    <2> QED  BY <2>1, <2>2 DEF Channel!Ask
  <1>4. ASSUME NEW p \in Procs, PipeWrite(p)
        PROVE  Channel!FifoNext
    BY <1>4, ChannelWrite DEF Channel!FifoNext
  <1>5. ASSUME NEW p \in Procs, PipeRead(p)
        PROVE  Channel!FifoNext
    BY <1>5, ChannelRead DEF Channel!FifoNext
  <1>6. ASSUME NEW p \in Procs, PipeClose(p)
        PROVE  UNCHANGED Channel!fifoVars
    BY <1>6 DEF PipeClose, Contents, Used, Channel!fifoVars
  <1>7. ASSUME NEW p \in Procs,
               \/ ReadCall(p) \/ PipeReadEmpty(p) \/ Kill(p)
               \/ \E end \in Ends : \/ FileClose(p, end)
                                    \/ \E q \in Procs : FileDup(p, q, end)
        PROVE  UNCHANGED Channel!fifoVars
    BY <1>1, <1>7 DEF ReadCall, PipeReadEmpty, Kill, FileClose, FileDup
  <1> QED  BY <1>2, <1>3, <1>4, <1>5, <1>6, <1>7 DEF Next, Channel!FifoNext

\* pipewrite and piperead implement a first-in first-out channel, killed or not:
\* no byte is lost, doubled or reordered, also where the counters wrap at 2^32.
THEOREM FirstInFirstOut == Spec => FifoOrder
  <1>1. Init => Channel!FifoInit
    <2> SUFFICES ASSUME Init PROVE Channel!FifoInit  OBVIOUS
    <2>1. Used = 0  BY Distance, PipeConstants DEF Init, Used
    <2>2. Contents = <<>>  BY <2>1 DEF Contents
    <2> QED  BY <2>2 DEF Init, Channel!FifoInit
  <1> QED
    BY <1>1, ChannelStep, PipeInvariance, PTL DEF Spec, FifoOrder, Channel!FifoSpec
=============================================================================
