-------------------------------- MODULE Ulib --------------------------------
(***************************************************************************)
(* What a program of xv6 stands on: the string functions of the kernel     *)
(* (string.c) and of its programs (ulib.c), printf (printf.c), wc, grep,   *)
(* malloc and free (umalloc.c), the arguments of its system calls          *)
(* (syscall.c) and the image it is read from (mkfs.c).  Memory is a        *)
(* sequence of characters, numbers from 0 on, in which 0 ends a string;    *)
(* positions begin at 1.  A call changes the memory and returns a value,   *)
(* and its loop is a function of the number of turns it made.              *)
(***************************************************************************)
EXTENDS Integers, Sequences, SequencesExt, FiniteSetsExt, Functions

CONSTANTS UlMems,      \* memories before a call
          UlCounts,    \* the arguments n
          UlInputs,    \* what can be read: texts
          UlFormats,   \* formats of printf: sequences of strings
          UlInts,      \* integers that are printed
          UlBase,      \* %d's base, 10 in printf.c
          UlWidth,     \* bits of an int
          UlRead,      \* bound: characters that one read returns
          GrPatterns,  \* patterns
          GrLines,     \* texts to match one by one
          GrFiles,     \* files
          GrBuf,       \* size of grep's buffer
          UmSizes,     \* sizes asked for from malloc, in bytes
          UmHeader,    \* bytes of a header
          UmCore,      \* units morecore asks for, 4096 in the code
          UmTop,       \* addresses end here: sbrk fails
          UmHeap,      \* the address where the heap begins
          AWidth,      \* bits of an address
          AWord,       \* bytes of an int, 4 in the code
          ASizes,      \* sizes of the process, at most half the addresses (KERNBASE)
          AEsp,        \* stack pointers
          AArgs,       \* words found as arguments: ints in -2^(AWidth-1) .. 2^(AWidth-1)-1
          ALens,       \* the size argptr is asked for
          AZeros,      \* sets of addresses that hold a zero byte
          AVectors,    \* argument vectors of exec: the words found from uargv on
          MAXARG, DIRSIZ,
          APaths,      \* paths: sequences of characters
          MkArgs,      \* command lines: sequences of [name, data]
          BSIZE, NDIRECT,
          IPB, NINODES, LOGSIZE, FSSIZE,
          NBITS        \* bits of a bitmap block (BSIZE * 8)

VARIABLES ul,          \* the call, its memory before and after, its result, what it read and printed
          gr,          \* grep: the pattern, the rest of the file, the buffer, what was printed
          header,      \* malloc: address -> [ptr, size] of the blocks in the free list
          freep,       \* where the next search begins, -1 before the first malloc
          brk,         \* the end of the heap
          used,        \* blocks in use and pieces others got from sbrk: [at, size, bytes]
          ar,          \* the call, its arguments and its result
          mk           \* what is left to do, the image, the next free inode and block

ulVars == <<ul>>
grVars == <<gr>>
umVars == <<header, freep, brk, used>>

NUL == 0
At(m, a) == IF a \in DOMAIN m THEN m[a] ELSE NUL
Put(m, a, c) == IF a \in DOMAIN m THEN [m EXCEPT ![a] = c] ELSE m
Unsigned(x) == x % 2 ^ UlWidth
-----------------------------------------------------------------------------
(* string.c *)
memset(m, d, c, n) == [a \in DOMAIN m |-> IF a >= d /\ a < d + n THEN c ELSE m[a]]
\* The loops of memmove copy a byte per turn, from the first on or, when the
\* source runs into the destination, from the last on.
Forwards(m, d, s, n) ==
    LET copy[k \in 0 .. n] == IF k = 0 THEN m ELSE Put(copy[k - 1], d + k - 1, At(copy[k - 1], s + k - 1))
    IN  copy[n]
Backwards(m, d, s, n) ==
    LET copy[k \in 0 .. n] == IF k = 0 THEN m ELSE Put(copy[k - 1], d + n - k, At(copy[k - 1], s + n - k))
    IN  copy[n]
memmove_forwards(m, d, s, n) == Forwards(m, d, s, n)
memmove(m, d, s, n) == IF s < d /\ s + n > d THEN Backwards(m, d, s, n) ELSE Forwards(m, d, s, n)
\* The turn at which two strings differ, or the first ends, or n are compared.
Differ(m, p, q, n) == Min({k \in 0 .. n : k = n \/ At(m, p + k) = NUL \/ At(m, p + k) # At(m, q + k)})
strncmp(m, p, q, n) == LET k == Differ(m, p, q, n) IN IF k = n THEN 0 ELSE At(m, p + k) - At(m, q + k)
memcmp(m, p, q, n) == LET k == Min({j \in 0 .. n : j = n \/ At(m, p + j) # At(m, q + j)})
                      IN  IF k = n THEN 0 ELSE At(m, p + k) - At(m, q + k)
strlen(m, s) == Min({k \in 0 .. Len(m) : At(m, s + k) = NUL})
\* strncpy fills up with zeros; safestrcpy copies one less and ends the string.
strncpy(m, s, t, n) == [a \in DOMAIN m |-> IF a < s \/ a >= s + n THEN m[a]
                                           ELSE IF a - s < strlen(m, t) THEN At(m, t + a - s) ELSE NUL]
safestrcpy(m, s, t, n) == IF n <= 0 THEN m
                          ELSE LET k == Min({n - 1, strlen(m, t)})
                               IN  [a \in DOMAIN m |-> IF a >= s /\ a < s + k THEN At(m, t + a - s)
                                                       ELSE IF a = s + k THEN NUL ELSE m[a]]
-----------------------------------------------------------------------------
(* ulib.c *)
strcpy(m, s, t) == Forwards(m, s, t, strlen(m, t) + 1)
strcmp(m, p, q) == strncmp(m, p, q, Len(m))
strchr(m, s, c) == LET found == {a \in s .. s + strlen(m, s) - 1 : m[a] = c} IN IF found = {} THEN 0 ELSE Min(found)
\* A character is a digit when it is at most UlBase, 1 standing for zero.
IsDigit(c) == c \in 1 .. UlBase
atoi(m, s) ==
    LET last == Min({k \in 0 .. Len(m) : ~IsDigit(At(m, s + k))})
        value[k \in 0 .. last] == IF k = 0 THEN 0 ELSE Unsigned(value[k - 1] * UlBase + m[s + k - 1] - 1)
    IN  value[last]
newline == 9
\* gets: the characters up to max - 1, a line's end or the input's.
GetsEnd(in, max) == Min({k \in 0 .. Len(in) : k = Len(in) \/ k + 1 >= max \/ (k > 0 /\ in[k] = newline)})
gets(m, s, in, max) == [a \in DOMAIN m |-> IF a >= s /\ a < s + GetsEnd(in, max) THEN in[a - s + 1]
                                           ELSE IF a = s + GetsEnd(in, max) THEN NUL ELSE m[a]]
-----------------------------------------------------------------------------
(* printf.c *)
\* printint: the digits of x, the lowest first, turned round; an int's most
\* negative value is its own negation, and as an unsigned number it is right.
Digits(x, base) ==
    LET last == Min({k \in 0 .. UlWidth : x < base ^ (k + 1)})
    IN  [k \in 1 .. last + 1 |-> ToString((x \div base ^ (last + 1 - k)) % base)]
printint(xx, base, sgn) ==
    IF sgn /\ xx < 0 THEN <<"-">> \o Digits(Unsigned(-xx), base) ELSE Digits(Unsigned(xx), base)
\* One character of the format in the loop's state.
printf(st, c) ==
    LET next == [st EXCEPT !.state = ""]
        arg == IF st.args = <<>> THEN 0 ELSE Head(st.args)
        Used(out) == [next EXCEPT !.out = @ \o out, !.args = IF @ = <<>> THEN @ ELSE Tail(@)]
    IN  CASE st.state = "" /\ c = "%" -> [st EXCEPT !.state = "%"]
          [] st.state = "" /\ c # "%" -> [st EXCEPT !.out = Append(@, c)]
          [] st.state = "%" /\ c = "d" -> Used(printint(arg, UlBase, TRUE))
          [] st.state = "%" /\ c \in {"x", "p"} -> Used(printint(arg, 2 * UlBase, FALSE))
          [] st.state = "%" /\ c = "%" -> [next EXCEPT !.out = Append(@, c)]
          [] OTHER -> [next EXCEPT !.out = @ \o <<"%", c>>]
-----------------------------------------------------------------------------
NoCall == [call |-> "", d |-> 0, s |-> 0, n |-> 0, before |-> <<>>, after |-> <<>>, ret |-> 0, in |-> <<>>,
           state |-> "", args |-> <<>>, out |-> <<>>, l |-> 0, w |-> 0, inword |-> FALSE]
UlInit == ul = NoCall
Called(name, m, d, s, n, after, ret) ==
    ul' = [NoCall EXCEPT !.call = name, !.d = d, !.s = s, !.n = n, !.before = m, !.after = after, !.ret = ret]
CallMem == \E m \in UlMems, n \in UlCounts : \E d \in DOMAIN m, s \in DOMAIN m :
    \/ n >= 0 /\ d + n <= Len(m) + 1 /\ s + n <= Len(m) + 1 /\ Called("memmove", m, d, s, n, memmove(m, d, s, n), d)
    \/ n >= 0 /\ d + n <= Len(m) + 1 /\ Called("memset", m, d, s, n, memset(m, d, s, n), d)
    \/ n >= 0 /\ Called("memcmp", m, d, s, n, m, memcmp(m, d, s, n))
    \/ n >= 0 /\ Called("strncmp", m, d, s, n, m, strncmp(m, d, s, n))
    \/ n >= 0 /\ Called("strcmp", m, d, s, n, m, strcmp(m, d, s))
    \/ s > d + n /\ Called("strncpy", m, d, s, n, strncpy(m, d, s, n), d)
    \/ s > d + n /\ Called("safestrcpy", m, d, s, n, safestrcpy(m, d, s, n), d)
    \/ s + strlen(m, s) < d /\ Called("strcpy", m, d, s, n, strcpy(m, d, s), d)
    \/ Called("strchr", m, d, s, n, m, strchr(m, s, n))
    \/ Called("atoi", m, d, s, n, m, atoi(m, s))
CallGets == \E m \in UlMems, n \in UlCounts, in \in UlInputs :
               ul' = [NoCall EXCEPT !.call = "gets", !.d = 1, !.n = n, !.before = m, !.in = in, !.after = gets(m, 1, in, n)]
\* printf begins, takes a character of the format, ends.
CallPrintf == \E fmt \in UlFormats, x \in UlInts, y \in UlInts :
                 ul' = [NoCall EXCEPT !.call = "printf", !.before = fmt, !.in = fmt, !.args = <<x, y>>, !.after = <<x, y>>]
Print1 == /\ ul.call = "printf" /\ ul.in # <<>>
          /\ ul' = [printf(ul, Head(ul.in)) EXCEPT !.in = Tail(@)]
\* wc reads some characters at a time and keeps inword between reads.
isspace(c) == c \in {newline, newline - 1}
WcChar(r, c) == [r EXCEPT !.l = IF c = newline THEN @ + 1 ELSE @, !.n = @ + 1,
                          !.inword = ~isspace(c),
                          !.w = IF ~isspace(c) /\ ~r.inword THEN @ + 1 ELSE @]
CallWc == \E in \in UlInputs : ul' = [NoCall EXCEPT !.call = "wc", !.before = in, !.in = in]
wc == /\ ul.call = "wc" /\ ul.in # <<>>
      /\ \E k \in 1 .. Min({UlRead, Len(ul.in)}) :
            ul' = [FoldLeft(WcChar, ul, SubSeq(ul.in, 1, k)) EXCEPT !.in = SubSeq(@, k + 1, Len(@))]
UlNext == \/ ul.call = "" /\ (CallMem \/ CallGets \/ CallPrintf \/ CallWc)
          \/ Print1
          \/ wc
-----------------------------------------------------------------------------
\* The string at a, which ends at the first zero.
Str(m, a) == SubSeq(m, a, a + strlen(m, a) - 1)
Before(m, a, n) == SubSeq(m, a, a + n - 1)
Less(u, v) == \E k \in 0 .. Len(u) : /\ k <= Len(v) /\ \A j \in 1 .. k : u[j] = v[j]
                                     /\ At(u, k + 1) < At(v, k + 1)
Sign(x) == IF x < 0 THEN -1 ELSE IF x > 0 THEN 1 ELSE 0
Order(u, v) == IF Less(u, v) THEN -1 ELSE IF Less(v, u) THEN 1 ELSE 0
Cut(u, n) == SubSeq(u, 1, Min({n, Len(u)}))

\* Copies are of what the source held before the call, also when source and
\* destination overlap; bounded copies write inside their bound and end the
\* string there; comparisons order strings (string.c, ulib.c).
CopiesExact ==
    /\ ul.call = "memmove" =>
          /\ Before(ul.after, ul.d, ul.n) = Before(ul.before, ul.s, ul.n)
          /\ \A a \in DOMAIN ul.before \ (ul.d .. ul.d + ul.n - 1) : ul.after[a] = ul.before[a]
    /\ ul.call \in {"safestrcpy", "gets"} =>
          /\ \A a \in DOMAIN ul.before \ (ul.d .. ul.d + ul.n - 1) : (ul.call = "gets" /\ ul.n < 1) \/ ul.after[a] = ul.before[a]
          /\ ul.n > 0 => strlen(ul.after, ul.d) < ul.n
    /\ ul.call = "safestrcpy" /\ ul.n > 0 => Str(ul.after, ul.d) = Cut(Str(ul.before, ul.s), ul.n - 1)
    /\ ul.call = "strcpy" /\ ul.d + strlen(ul.before, ul.s) <= Len(ul.before) => Str(ul.after, ul.d) = Str(ul.before, ul.s)
    /\ ul.call = "strcmp" => Sign(ul.ret) = Order(Str(ul.before, ul.d), Str(ul.before, ul.s))
    /\ ul.call = "strncmp" => Sign(ul.ret) = Order(Cut(Str(ul.before, ul.d), ul.n), Cut(Str(ul.before, ul.s), ul.n))

\* printf prints every argument as the number it is, and wc counts the same
\* however the text is cut into reads (printf.c, wc.c).
RECURSIVE Expected(_, _)
Shown(x, base, signed) ==
    LET v == IF signed THEN x ELSE Unsigned(x)
        a == IF v < 0 THEN -v ELSE v
        n == Max({k \in 0 .. UlWidth : k = 0 \/ base ^ k <= a})
    IN  (IF v < 0 THEN <<"-">> ELSE <<>>) \o [k \in 1 .. n + 1 |-> ToString((a \div base ^ (n + 1 - k)) % base)]
Expected(fmt, args) ==
    CASE fmt = <<>> \/ fmt = <<"%">> -> <<>>
      [] fmt # <<>> /\ Head(fmt) # "%" -> <<Head(fmt)>> \o Expected(Tail(fmt), args)
      [] Len(fmt) > 1 /\ Head(fmt) = "%" ->
            LET rest == SubSeq(fmt, 3, Len(fmt))
            IN  CASE fmt[2] = "d" -> Shown(Head(args), UlBase, TRUE) \o Expected(rest, Tail(args))
                  [] fmt[2] = "x" -> Shown(Head(args), 2 * UlBase, FALSE) \o Expected(rest, Tail(args))
                  [] fmt[2] = "%" -> <<"%">> \o Expected(rest, args)
                  [] OTHER -> <<"%", fmt[2]>> \o Expected(rest, args)
PrintedRight == ul.call = "printf" /\ ul.in = <<>> => ul.out = Expected(ul.before, ul.after)
CountsRight ==
    ul.call = "wc" /\ ul.in = <<>> =>
        LET b == ul.before
        IN  /\ ul.n = Len(b)
            /\ ul.l = Cardinality({k \in DOMAIN b : b[k] = newline})
            /\ ul.w = Cardinality({k \in DOMAIN b : ~isspace(b[k]) /\ (k = 1 \/ isspace(b[k - 1]))})
-----------------------------------------------------------------------------
(* grep.c: the pattern matcher, and the loop that reads a file into a      *)
(* buffer and prints the lines that match.  Characters are strings, a      *)
(* pattern and a text are sequences of them.  A read fills the buffer as   *)
(* far as the file goes, as it does for a file (a pipe may give less).     *)
EOS == "0"
Char(s, i) == IF i \in DOMAIN s THEN s[i] ELSE EOS
-----------------------------------------------------------------------------
(* The matcher, on the pattern re from place i and the text from place j    *)
RECURSIVE matchhere(_, _, _, _), matchstar(_, _, _, _, _)
Single(c, t, j) == Char(t, j) # EOS /\ (c = "." \/ c = t[j])
matchhere(re, i, t, j) ==
    CASE Char(re, i) = EOS -> TRUE
      [] Char(re, i) # EOS /\ Char(re, i + 1) = "*" -> matchstar(re[i], re, i + 2, t, j)
      [] Char(re, i) = "$" /\ Char(re, i + 1) = EOS -> Char(t, j) = EOS
      [] OTHER -> Single(re[i], t, j) /\ matchhere(re, i + 1, t, j + 1)
\* matchstar_plus asks for one instance at least.
matchstar_plus(c, re, i, t, j) == Single(c, t, j) /\ (matchhere(re, i, t, j + 1) \/ matchstar(c, re, i, t, j + 1))
matchstar(c, re, i, t, j) == matchhere(re, i, t, j) \/ (Single(c, t, j) /\ matchstar(c, re, i, t, j + 1))
match(re, t) == IF Char(re, 1) = "^" THEN matchhere(re, 2, t, 1)
                ELSE \E j \in 1 .. Len(t) + 1 : matchhere(re, 1, t, j)
-----------------------------------------------------------------------------
GrInit == \E re \in GrPatterns :
             \/ \E t \in GrLines : gr = [re |-> re, file |-> t, rest |-> t, buf |-> <<>>, out |-> <<>>, hit |-> match(re, t), state |-> "line"]
             \/ \E f \in GrFiles : gr = [re |-> re, file |-> f, rest |-> f, buf |-> <<>>, out |-> <<>>, hit |-> FALSE, state |-> "read"]
\* The lines of a buffer that end in it, and what is left after them.
Newline(b) == {k \in DOMAIN b : b[k] = "\n"}
RECURSIVE Lines(_)
Lines(b) == IF Newline(b) = {} THEN <<>>
            ELSE <<SubSeq(b, 1, Min(Newline(b)) - 1)>> \o Lines(SubSeq(b, Min(Newline(b)) + 1, Len(b)))
Left(b) == IF Newline(b) = {} THEN b ELSE SubSeq(b, Max(Newline(b)) + 1, Len(b))
\* One turn of grep's loop.  A buffer without a newline is thrown away.
grep ==
    /\ gr.state = "read"
    /\ LET n == Min({GrBuf - Len(gr.buf) - 1, Len(gr.rest)})
           b == gr.buf \o SubSeq(gr.rest, 1, n)
       IN  IF n = 0 THEN gr' = [gr EXCEPT !.state = "done"]
           ELSE gr' = [gr EXCEPT !.rest = SubSeq(@, n + 1, Len(@)),
                                 !.out = @ \o SelectSeq(Lines(b), LAMBDA l : match(gr.re, l)),
                                 !.buf = IF Newline(b) = {} THEN <<>> ELSE Left(b)]
GrNext == grep
-----------------------------------------------------------------------------
\* What a pattern means: its items, each a character and whether a star
\* follows it, between two anchors; it matches when the text has a part that
\* is cut into instances of the items.
RECURSIVE Items(_)
Items(p) == IF p = <<>> THEN <<>>
            ELSE IF Char(p, 2) = "*" THEN <<<<p[1], TRUE>>>> \o Items(SubSeq(p, 3, Len(p)))
            ELSE <<<<p[1], FALSE>>>> \o Items(Tail(p))
RECURSIVE Reached(_, _, _)
\* The places one can be at after the items, from the places in from.
Fits(it, t, a, b) == /\ \A k \in a .. b - 1 : it[1] \in {".", t[k]}
                     /\ it[2] \/ b = a + 1
Reached(items, t, from) ==
    IF items = <<>> THEN from
    ELSE Reached(Tail(items), t, {b \in 1 .. Len(t) + 1 : \E a \in from : a <= b /\ Fits(Head(items), t, a, b)})
Means(re, t) ==
    LET start == Char(re, 1) = "^"
        body == IF start THEN Tail(re) ELSE re
        items == Items(body)
        end == items # <<>> /\ Last(items) = <<"$", FALSE>>
        ends == Reached(IF end THEN Front(items) ELSE items, t, IF start THEN {1} ELSE 1 .. Len(t) + 1)
    IN  IF end THEN Len(t) + 1 \in ends ELSE ends # {}
\* The matcher finds what the pattern means.
MatchRight == gr.state = "line" => (gr.hit <=> Means(gr.re, gr.file))

\* When every line has room in the buffer, grep prints the complete lines
\* that match, in their order, once.
LinesPrinted ==
    (gr.state = "done" /\ \A l \in Range(Lines(gr.file)) \cup {Left(gr.file)} : Len(l) + 1 < GrBuf)
        => gr.out = SelectSeq(Lines(gr.file), LAMBDA l : Means(gr.re, l))
-----------------------------------------------------------------------------
(* umalloc.c: memory is counted in headers; the heap begins above the      *)
(* address 0 of the header base and grows by sbrk, which other code may    *)
(* call too.  Threads that share a heap are left out: nothing in umalloc.c *)
(* keeps them apart.                                                       *)
base == 0
UmInit == header = [a \in {} |-> [ptr |-> 0, size |-> 0]] /\ freep = -1 /\ brk = UmHeap /\ used = {}
With(h, a, r) == [x \in DOMAIN h \cup {a} |-> IF x = a THEN r ELSE h[x]]
Drop(h, a) == [x \in DOMAIN h \ {a} |-> h[x]]
-----------------------------------------------------------------------------
\* free's loop: the first block p from freep on that bp goes after.
Between(h, p, bp) == bp > p /\ bp < h[p].ptr
AtEnd(h, p, bp) == p >= h[p].ptr /\ (bp > p \/ bp < h[p].ptr)
RECURSIVE Place(_, _, _)
Place(h, p, bp) == IF Between(h, p, bp) \/ AtEnd(h, p, bp) THEN p ELSE Place(h, h[p].ptr, bp)
\* The block of n units at bp is put after p and joined with both neighbours;
\* Rejoined_upper forgets the lower one.
Joined(h, p, bp, n) == IF bp + n = h[p].ptr
                       THEN With(Drop(h, h[p].ptr), bp, [ptr |-> h[h[p].ptr].ptr, size |-> n + h[h[p].ptr].size])
                       ELSE With(h, bp, [ptr |-> h[p].ptr, size |-> n])
Rejoined_upper(h, p, bp, n) == With(Joined(h, p, bp, n), p, [ptr |-> bp, size |-> h[p].size])
Rejoined(h, p, bp, n) ==
    LET j == Joined(h, p, bp, n)
    IN  IF p + h[p].size = bp
        THEN With(Drop(j, bp), p, [ptr |-> j[bp].ptr, size |-> h[p].size + j[bp].size])
        ELSE With(j, p, [ptr |-> bp, size |-> h[p].size])
\* The search of malloc: the first block from prevp's successor on that is
\* large enough, or -1 when it comes round to freep.
RECURSIVE Search(_, _, _, _)
Search(h, prevp, start, n) ==
    IF h[h[prevp].ptr].size >= n THEN prevp
    ELSE IF h[prevp].ptr = start THEN -1 ELSE Search(h, h[prevp].ptr, start, n)
\* The tail of a larger block is what is given out.
Taken(h, prevp, n) ==
    LET p == h[prevp].ptr
    IN  IF h[p].size = n THEN Drop(With(h, prevp, [h[prevp] EXCEPT !.ptr = h[p].ptr]), p)
        ELSE With(h, p, [h[p] EXCEPT !.size = @ - n])
Where(h, prevp, n) == h[prevp].ptr + h[h[prevp].ptr].size - n
nunits(nbytes) == (nbytes + UmHeader - 1) \div UmHeader + 1
morecore(n) == IF n < UmCore THEN UmCore ELSE n

\* The list malloc begins with, and the block it found in h.
Begun == IF freep = -1 THEN base :> [ptr |-> base, size |-> 0] ELSE header
Gives(h, prevp, nbytes) ==
    /\ header' = Taken(h, prevp, nunits(nbytes))
    /\ freep' = prevp
    /\ used' = used \cup {[at |-> Where(h, prevp, nunits(nbytes)), size |-> nunits(nbytes), bytes |-> nbytes]}
malloc(nbytes) ==
    LET h == Begun
        start == IF freep = -1 THEN base ELSE freep
        found == Search(h, start, start, nunits(nbytes))
        more == morecore(nunits(nbytes))
    IN  IF found # -1 THEN Gives(h, found, nbytes) /\ UNCHANGED brk
        ELSE IF brk + more > UmTop THEN header' = h /\ freep' = start /\ UNCHANGED <<brk, used>>
        ELSE LET p == Place(h, start, brk)
                 grown == Rejoined(h, p, brk, more)
             IN  Gives(grown, Search(grown, p, p, nunits(nbytes)), nbytes) /\ brk' = brk + more
free(b) == LET p == Place(header, freep, b.at)
           IN  /\ header' = Rejoined(header, p, b.at, b.size)
               /\ freep' = p
               /\ used' = used \ {b}
               /\ UNCHANGED brk
\* Other code of the program takes memory from sbrk.
sbrk == /\ brk < UmTop
        /\ \A b \in used : b.bytes # -1
        /\ brk' = brk + 1
        /\ used' = used \cup {[at |-> brk, size |-> 1, bytes |-> -1]}
        /\ UNCHANGED <<header, freep>>
UmNext == \/ \E n \in UmSizes : malloc(n)
          \/ \E b \in used : b.bytes # -1 /\ free(b)
          \/ sbrk
UmSpec == UmInit /\ [][UmNext]_umVars
-----------------------------------------------------------------------------
Units(a, n) == a .. a + n - 1
\* Every unit of the heap is in one block, free or in use, and a block has
\* room for its header and for the bytes that were asked for (malloc, free).
HeapExact ==
    /\ \A u \in UmHeap .. brk - 1 :
          Cardinality({b \in used : u \in Units(b.at, b.size)})
          + Cardinality({a \in DOMAIN header : u \in Units(a, header[a].size)}) = 1
    /\ \A b \in used : b.at >= UmHeap /\ b.at + b.size <= brk /\ b.bytes <= (b.size - 1) * UmHeader

\* The free list is one ring of blocks in the order of their addresses, none
\* of which touches the next: what is freed is joined with its neighbours.
ListSound ==
    freep # -1 =>
        /\ base \in DOMAIN header /\ freep \in DOMAIN header
        /\ \A a \in DOMAIN header :
              LET above == {x \in DOMAIN header : x > a}
              IN  /\ header[a].ptr = IF above = {} THEN base ELSE Min(above)
                  /\ a # base => header[a].size > 0 /\ a + header[a].size \notin DOMAIN header
-----------------------------------------------------------------------------
(* How the kernel takes the arguments of a system call from the memory of  *)
(* its process (syscall.c, sys_exec), and the elements of a path           *)
(* (skipelem, fs.c).  Addresses and ints have AWidth bits; a word has      *)
(* AWord bytes.  The calls themselves are in Files, Proc, Vm and Spin.     *)
arVars == <<ar>>

uint(x) == x % 2 ^ AWidth
-----------------------------------------------------------------------------
(* A result of -1 is a refusal. *)
fetchint(sz, addr) == IF addr >= sz \/ uint(addr + AWord) > sz THEN -1 ELSE 0
fetchstr(sz, zeros, addr) ==
    IF addr >= sz THEN -1
    ELSE LET ends == {s \in addr .. sz - 1 : s \in zeros} IN IF ends = {} THEN -1 ELSE Min(ends) - addr
argint(sz, esp, n) == fetchint(sz, uint(esp + AWord + AWord * n))
\* argptr_end looks at the end of the block only.
argptr_end(sz, esp, n, i, size) ==
    IF argint(sz, esp, n) < 0 \/ uint(uint(i) + size) > sz THEN -1 ELSE uint(i)
argptr(sz, esp, n, i, size) ==
    IF argint(sz, esp, n) < 0 \/ size < 0 \/ uint(i) >= sz \/ uint(uint(i) + size) > sz THEN -1 ELSE uint(i)
\* sys_exec: the argument strings up to the first zero word.
sys_exec(sz, zeros, uargv, words) ==
    LET Ok(k) == fetchint(sz, uint(uargv + AWord * (k - 1))) = 0
        stop == Min({k \in 1 .. Len(words) : k > MAXARG \/ ~Ok(k) \/ words[k] = 0
                                              \/ fetchstr(sz, zeros, words[k]) = -1})
    IN  IF stop > MAXARG \/ ~Ok(stop) \/ words[stop] # 0 THEN -1 ELSE stop - 1
-----------------------------------------------------------------------------
(* The next element of the path p, cut to DIRSIZ, and what is left *)
NoSlash(p) == IF \A k \in DOMAIN p : p[k] = "/" THEN <<>> ELSE SubSeq(p, Min({k \in DOMAIN p : p[k] # "/"}), Len(p))
Element(p) == SubSeq(p, 1, Min({k \in 0 .. Len(p) : k = Len(p) \/ p[k + 1] = "/"}))
skipelem(p) ==
    LET s == NoSlash(p)
        e == Element(s)
    IN  [found |-> s # <<>>, name |-> SubSeq(e, 1, Min({Len(e), DIRSIZ})), rest |-> NoSlash(SubSeq(s, Len(e) + 1, Len(s)))]
-----------------------------------------------------------------------------
Quiet == [call |-> "", sz |-> 0, esp |-> 0, n |-> 0, i |-> 0, size |-> 0, zeros |-> {}, words |-> <<>>,
          ret |-> 0, path |-> <<>>, rest |-> <<>>, names |-> <<>>]
ArInit == ar = Quiet
Pointer == \E sz \in ASizes, esp \in AEsp, n \in 0 .. 2, i \in AArgs, size \in ALens :
              ar' = [Quiet EXCEPT !.call = "argptr", !.sz = sz, !.esp = esp, !.n = n, !.i = i, !.size = size,
                                  !.ret = argptr(sz, esp, n, i, size)]
String == \E sz \in ASizes, zeros \in AZeros, esp \in AEsp, i \in AArgs :
              ar' = [Quiet EXCEPT !.call = "argstr", !.sz = sz, !.zeros = zeros, !.esp = esp, !.i = i,
                                  !.ret = IF argint(sz, esp, 0) < 0 THEN -1 ELSE fetchstr(sz, zeros, uint(i))]
Exec == \E sz \in ASizes, zeros \in AZeros, i \in AEsp, words \in AVectors :
              ar' = [Quiet EXCEPT !.call = "exec", !.sz = sz, !.zeros = zeros, !.i = i, !.words = words,
                                  !.ret = sys_exec(sz, zeros, i, words)]
Path == \E p \in APaths : ar' = [Quiet EXCEPT !.call = "namex", !.path = p, !.rest = p]
\* namex's loop, a turn of it.
namex == LET e == skipelem(ar.rest)
         IN  /\ ar.call = "namex"
             /\ e.found
             /\ ar' = [ar EXCEPT !.names = Append(@, e.name), !.rest = e.rest]
ArNext == \/ ar.call = "" /\ (Pointer \/ String \/ Exec \/ Path)
          \/ namex
ArSpec == ArInit /\ [][ArNext]_arVars
-----------------------------------------------------------------------------
\* What the kernel accepts lies in the process's memory, and what lies there
\* is accepted, whatever sums of addresses overflow; a string it accepts ends
\* in that memory, and so do exec's arguments (syscall.c, sysfile.c).
Inside(sz, a, n) == a + n <= sz
StringAt(sz, zeros, a) == \E s \in zeros : a <= s /\ s < sz
ArgumentsInside ==
    /\ ar.call = "argptr" =>
          (ar.ret # -1 <=> /\ Inside(ar.sz, uint(ar.esp + AWord + AWord * ar.n), AWord)
                           /\ ar.size >= 0 /\ uint(ar.i) < ar.sz /\ Inside(ar.sz, uint(ar.i), ar.size))
    /\ ar.call = "argstr" /\ ar.ret # -1 => /\ uint(ar.i) + ar.ret < ar.sz /\ uint(ar.i) + ar.ret \in ar.zeros
                                            /\ \A s \in uint(ar.i) .. uint(ar.i) + ar.ret - 1 : s \notin ar.zeros
    /\ ar.call = "exec" /\ ar.ret # -1 =>
          /\ ar.ret < MAXARG /\ ar.words[ar.ret + 1] = 0
          /\ \A k \in 1 .. ar.ret : ar.words[k] # 0 /\ StringAt(ar.sz, ar.zeros, ar.words[k])
          /\ \A k \in 1 .. ar.ret + 1 : Inside(ar.sz, uint(ar.i + AWord * (k - 1)), AWord)

\* The elements of a path are what stands between its slashes, in order, and
\* the last one is known by the empty rest (skipelem, namex).
Starts(p) == {k \in DOMAIN p : p[k] # "/" /\ (k = 1 \/ p[k - 1] = "/")}
Parts(p) == [j \in 1 .. Cardinality(Starts(p)) |->
                LET a == CHOOSE k \in Starts(p) : Cardinality({x \in Starts(p) : x <= k}) = j
                IN  SubSeq(p, a, Max({b \in a .. Len(p) : \A x \in a .. b : p[x] # "/"}))]
PathSplit ==
    ar.call = "namex" =>
        /\ IsPrefix(ar.names, [k \in DOMAIN Parts(ar.path) |-> SubSeq(Parts(ar.path)[k], 1, Min({DIRSIZ, Len(Parts(ar.path)[k])}))])
        /\ ar.rest = <<>> => Len(ar.names) = Len(Parts(ar.path))
-----------------------------------------------------------------------------
(* mkfs (mkfs.c): the image of a file system with the root directory and   *)
(* the files of the command line.  A block holds BSIZE units: a byte, a    *)
(* directory entry or a block number each, so that NINDIRECT = BSIZE; a    *)
(* unit is a sequence of numbers, and <<>> is zero.  Files come in the     *)
(* pieces that read returns.                                               *)
mkVars == <<mk>>

NINDIRECT == BSIZE
MAXFILE == NDIRECT + NINDIRECT + NINDIRECT * NINDIRECT
ROOTINO == 1
nbitmap == FSSIZE \div NBITS + 1
ninodeblocks == NINODES \div IPB + 1
nmeta == 2 + LOGSIZE + ninodeblocks + nbitmap
Zero == [i \in 0 .. BSIZE - 1 |-> <<>>]
Dot == 46
Underscore == 95
NoInode == [type |-> "", nlink |-> 0, size |-> 0, addrs |-> [i \in 0 .. NDIRECT |-> 0]]

\* wsect of every block; main asserts that a name has no "/".
MkInit == \E args \in MkArgs :
             mk = [args |-> args, at |-> "root", i |-> 1, read |-> 0, freeinode |-> 1, freeblock |-> nmeta,
                   ino |-> <<>>, blk |-> <<>>, bitmap |-> {}]
-----------------------------------------------------------------------------
(* x is the image on the way.                                               *)
ialloc(x, type) == [x EXCEPT !.ino = Append(@, [NoInode EXCEPT !.type = type, !.nlink = 1]), !.freeinode = @ + 1]
Alloc(x) == [x EXCEPT !.freeblock = @ + 1, !.blk = [b \in DOMAIN @ \cup {x.freeblock} |-> IF b = x.freeblock THEN Zero ELSE @[b]]]
\* The block that address i of the inode leads to, a new one if there was none.
Direct(x, inum, i) ==
    IF x.ino[inum].addrs[i] # 0 THEN x ELSE [Alloc(x) EXCEPT !.ino[inum].addrs[i] = x.freeblock]
Indirect(x, inum, i) ==
    LET y == Direct(x, inum, NDIRECT)
        b == y.ino[inum].addrs[NDIRECT]
    IN  IF y.blk[b][i] # <<>> THEN y ELSE [Alloc(y) EXCEPT !.blk[b][i] = <<y.freeblock>>]
\* Mutant: the place of a unit in its block is that in the file's first.
iappend_first(x, inum, u) ==
    LET off == x.ino[inum].size
        fbn == off \div BSIZE
        y == IF fbn < NDIRECT THEN Direct(x, inum, fbn) ELSE Indirect(x, inum, fbn - NDIRECT)
        b == IF fbn < NDIRECT THEN y.ino[inum].addrs[fbn] ELSE y.blk[y.ino[inum].addrs[NDIRECT]][0][1]
    IN  IF fbn >= NDIRECT + NINDIRECT THEN [x EXCEPT !.at = "broken"]
        ELSE [y EXCEPT !.blk[b][off % BSIZE] = u, !.ino[inum].size = off + 1]
\* iappend of one unit.  Double-indirect blocks are not written: beyond the
\* indirect block the code indexes an array out of its bounds.
iappend(x, inum, u) ==
    LET off == x.ino[inum].size
        fbn == off \div BSIZE
        y == IF fbn < NDIRECT THEN Direct(x, inum, fbn) ELSE Indirect(x, inum, fbn - NDIRECT)
        b == IF fbn < NDIRECT THEN y.ino[inum].addrs[fbn] ELSE y.blk[y.ino[inum].addrs[NDIRECT]][fbn - NDIRECT][1]
    IN  IF fbn >= NDIRECT + NINDIRECT THEN [x EXCEPT !.at = "broken"]
        ELSE [y EXCEPT !.blk[b][off % BSIZE] = u, !.ino[inum].size = off + 1]
Appended(x, inum, data) == FoldLeft(LAMBDA y, u : IF y.at = "broken" THEN y ELSE iappend(y, inum, u), x, data)
dirent(inum, name) == <<inum>> \o (IF Len(name) > DIRSIZ THEN SubSeq(name, 1, DIRSIZ) ELSE name)

Root == /\ mk.at = "root"
        /\ mk' = [Appended(ialloc(mk, "T_DIR"), ROOTINO, <<dirent(ROOTINO, <<Dot>>), dirent(ROOTINO, <<Dot, Dot>>)>>)
                    EXCEPT !.at = "file"]
Arg == mk.args[mk.i]
Skipped(name) == IF name[1] = Underscore THEN Tail(name) ELSE name
\* open fails, or the file gets an inode and an entry of the root.
OpenFile == /\ mk.at = "file" /\ mk.i <= Len(mk.args)
            /\ mk' = IF Arg.missing THEN [mk EXCEPT !.at = "exit 1"]
                     ELSE [Appended(ialloc(mk, "T_FILE"), ROOTINO, <<dirent(mk.freeinode, Skipped(Arg.name))>>)
                             EXCEPT !.at = IF @ = "broken" THEN @ ELSE "read", !.read = 0]
\* read returns some of what is left.
ReadFile == /\ mk.at = "read" /\ mk.read < Len(Arg.data)
            /\ \E n \in 1 .. BSIZE :
                  /\ mk.read + n <= Len(Arg.data)
                  /\ mk' = [Appended(mk, mk.freeinode - 1, SubSeq(Arg.data, mk.read + 1, mk.read + n)) EXCEPT !.read = @ + n]
CloseFile == /\ mk.at = "read" /\ mk.read = Len(Arg.data)
             /\ mk' = [mk EXCEPT !.at = "file", !.i = @ + 1]
\* The directory's size becomes a whole number of blocks, one more than needed
\* when it was one.  balloc asserts that one block is enough for the map.
Finish == /\ mk.at = "file" /\ mk.i > Len(mk.args)
          /\ mk' = [mk EXCEPT !.ino[ROOTINO].size = (@ \div BSIZE + 1) * BSIZE,
                              !.bitmap = IF mk.freeblock < NBITS THEN 0 .. mk.freeblock - 1 ELSE @,
                              !.at = IF mk.freeblock < NBITS THEN "exit 0" ELSE "abort"]
MkNext == Root \/ OpenFile \/ ReadFile \/ CloseFile \/ Finish
-----------------------------------------------------------------------------
(* The image as the kernel reads it (bmap and readi of fs.c).               *)
BlockOf(inum, n) ==
    LET a == mk.ino[inum].addrs
    IN  IF n < NDIRECT THEN a[n] ELSE IF a[NDIRECT] = 0 \/ mk.blk[a[NDIRECT]][n - NDIRECT] = <<>> THEN 0
        ELSE mk.blk[a[NDIRECT]][n - NDIRECT][1]
Unit(inum, off) == LET b == BlockOf(inum, off \div BSIZE) IN IF b = 0 THEN <<>> ELSE mk.blk[b][off % BSIZE]
InUse(inum) ==
    LET ind == mk.ino[inum].addrs[NDIRECT]
    IN  (Range(mk.ino[inum].addrs) \cup (IF ind = 0 THEN {} ELSE UNION {ToSet(u) : u \in Range(mk.blk[ind])})) \ {0}

\* When mkfs succeeds, the kernel finds in the root directory an entry for
\* each file, under its name, and in the entry's inode the file; every block
\* in use is the metadata's or belongs to one inode, the bitmap marks them
\* and no other; and only when the entries fill blocks exactly does the
\* directory's size reach beyond its blocks (mkfs.c).
ImageSound ==
    mk.at = "exit 0" =>
        LET entries == 2 + Len(mk.args)
            blocks == UNION {InUse(i) : i \in DOMAIN mk.ino}
        IN  /\ \A i \in DOMAIN mk.args :
                  LET e == Unit(ROOTINO, i + 1)
                  IN  /\ e = dirent(i + 1, Skipped(mk.args[i].name))
                      /\ mk.ino[e[1]].size = Len(mk.args[i].data)
                      /\ \A n \in DOMAIN mk.args[i].data : Unit(e[1], n - 1) = mk.args[i].data[n]
            /\ \A n \in entries .. mk.ino[ROOTINO].size - 1 : Unit(ROOTINO, n) = <<>>
            /\ \A i, j \in DOMAIN mk.ino : i # j => InUse(i) \cap InUse(j) = {}
            /\ blocks = nmeta .. mk.freeblock - 1 /\ mk.bitmap = 0 .. mk.freeblock - 1
            /\ BlockOf(ROOTINO, mk.ino[ROOTINO].size \div BSIZE - 1) = 0 <=> entries % BSIZE = 0
=============================================================================
