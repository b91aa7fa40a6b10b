----------------------------- MODULE MC_Programs -----------------------------
(***************************************************************************)
(* The programs of the repository that stand alone, in one run.  A         *)
(* behaviour is that of one of them on one of its inputs; the others keep  *)
(* one fixed initial state.                                                *)
(***************************************************************************)
EXTENDS DbProject, Analyze, Tiny, Algorithms

CONSTANTS Subjects,                                                      \* the parts of this run
          CmTrees, CmSpaces, CmTexts,                                    \* Cminus
          CbLedger, CbBook, CbMany, CbRecords, CbPages, PF_BUFFER_SIZE,  \* Contacts
          ShTrees, ShLines, ShReads, ShWrites, ShMissing, ShFails, MAXARGS, NBUF, ShFiles,
          BaInputs, BaGood, BaFails, BaShells,                           \* Sh
          MkArgs, BSIZE, NDIRECT, IPB, NINODES, LOGSIZE, FSSIZE, NBITS,  \* Ulib, mkfs
          UlMems, UlCounts, UlInputs, UlFormats, UlInts, UlBase, UlWidth, UlRead,
          GrPatterns, GrLines, GrFiles, GrBuf,                           \* Ulib
          UmSizes, UmHeader, UmCore, UmTop, UmHeap,                      \* Ulib, malloc
          AWidth, AWord, ASizes, AEsp, AArgs, ALens, AZeros, AVectors, MAXARG, APaths,
          DIRSIZ                                                         \* Ulib, system calls

VARIABLES part, cmn, cm, bk, sh, ba, mk, ul, gr, header, freep, brk, used, ar

Cmp == INSTANCE Cminus
Book == INSTANCE Contacts
Shell == INSTANCE Sh
Utils == INSTANCE Ulib

\* musicapp.java: the menus that two instances use.
MC_Loads == {{"insert music", "delete music"}, {"users", "playlists", "info"},
             {"insert music", "charts"}, {"insert music", "playlists", "songs"}}

\* bptree.java: keys inserted from the largest down and a run of them deleted;
\* and a dozen keys in other orders, which one index node has room for.
Keys(d, n, c) == [degree |-> d, ins |-> [i \in 1 .. n |-> n + 1 - i], starts |-> 1 .. n - c, count |-> c]
Mixed(m) == [degree |-> 4, ins |-> [i \in 1 .. 12 |-> (m * i) % 13], starts |-> 1 .. 13, count |-> 1]
\* Keys in ascending order, more than the first two index nodes have room for.
MC_BUpwards == {[degree |-> 4, ins |-> [i \in 1 .. 20 |-> i], starts |-> {}, count |-> 0]}
MC_BLoads == {Keys(4, 40, 7), Keys(6, 45, 12), Keys(10, 80, 20)} \cup {Mixed(m) : m \in 1 .. 12}

\* scan.c: short texts of one line, comments, and texts of two lines.
Strings(alpha, n) == UNION {[1 .. k -> alpha] : k \in 1 .. n}
NoStars(s) == \A i \in 1 .. Len(s) - 1 : ~(s[i] = "*" /\ s[i + 1] = "*")
MC_ScTexts == {<<s>> : s \in Strings({"a", "1", "=", "!", "/", " "}, 3)}
              \cup {<<<<"/", "*">> \o s>> : s \in {t \in Strings({"/", "*", "a", " "}, 4) : NoStars(t)}}
              \cup {<<<<"a">>, <<"1">>>>, <<<<"/", "*", "a">>, <<"*", "/", "=">>>>}

\* Texts with the four relational operators.
MC_ScRelations == {<<s>> : s \in Strings({"a", "<", ">", "="}, 2)}

\* TINY programs: expressions over two variables, a factorial, conditions, a
\* loop; and sequences of tokens, most of them not programs.
Num(n) == [k |-> "const", v |-> n]
Id(n) == [k |-> "id", v |-> n]
Read(n) == [k |-> "read", v |-> n]
Write(e) == [k |-> "write", e |-> e]
Assign(n, e) == [k |-> "assign", v |-> n, e |-> e]
If(t, y, n) == [k |-> "if", test |-> t, yes |-> y, no |-> n]
Repeat(b, t) == [k |-> "repeat", body |-> b, test |-> t]
Simple == {Op(o, Id(1), r) : o \in {"+", "-", "*", "/"}, r \in {Id(2), Num(2)}}
Double == {Op(o, l, Id(2)) : o \in {"+", "-", "*", "/"}, l \in Simple}
          \cup {Op(o, Id(2), r) : o \in {"+", "-", "*", "/"}, r \in Simple}
          \cup {Op(o, Op("-", Id(2), Id(1)), Op(q, Id(1), Id(2))) : o \in {"-", "/"}, q \in {"-", "*"}}
Factorial ==
    <<Read(1), If(Op("<", Num(0), Id(1)),
        <<Assign(2, Num(1)),
          Repeat(<<Assign(2, Op("*", Id(2), Id(1))), Assign(1, Op("-", Id(1), Num(1)))>>, Op("=", Id(1), Num(0))),
          Write(Id(2))>>, <<>>)>>
Order == <<Read(1), Read(2),
           If(Op("<", Id(1), Id(2)), <<Write(Num(1))>>,
              <<If(Op("=", Id(1), Id(2)), <<Write(Num(2))>>, <<Write(Num(3)), Assign(2, Id(1))>>)>>),
           Write(Id(2))>>
Negatives == <<Repeat(<<Read(1), If(Op("<", Id(1), Num(0)), <<Write(Id(1))>>, <<>>)>>, Op("<", Num(0), Id(1))),
               Write(Op("-", Id(1), Op("-", Num(1), Id(3))))>>
MC_TnPrograms == {<<Read(1), Read(2), Write(e)>> : e \in Double}
                 \cup {Factorial, Order, Negatives, <<Write(Op("<", Num(1), Num(2)))>>}
MC_TnInputs == {-2, 0, 1, 3}
Tokens == {T(t) : t \in {"if", "then", "end", "write", ":=", ";", "-", "(", ")", "<"}}
          \cup {[t |-> "ID", v |-> 1], [t |-> "NUM", v |-> 2]}
MC_TnTexts ==
    Strings(Tokens, 3)
    \cup {<<T("write")>> \o s : s \in [1 .. 4 -> Tokens \ {T(t) : t \in {"if", "then", "end", ":=", "write"}}]}

\* Graphs, strings, matrices, prices and assembly lines.
Arcs(n) == (1 .. n) \X (1 .. n)
Undirected(g) == g \cup {<<p[2], p[1]>> : p \in g}
Words(k, alpha) == UNION {[1 .. n -> alpha] : n \in 1 .. k}
Roads == {{<<1, 2>>, <<1, 3>>, <<2, 3>>, <<3, 2>>, <<3, 4>>, <<2, 4>>},
          {<<1, 3>>, <<3, 2>>, <<2, 1>>, <<3, 3>>, <<2, 3>>}, {}}
MC_OpInputs ==
    {[prog |-> "Connected", n |-> 5, g |-> Undirected(g)] : g \in SUBSET {p \in Arcs(5) : p[1] < p[2]}}
    \cup {[prog |-> "Topological", n |-> 3, g |-> g] : g \in SUBSET Arcs(3)}
    \cup {[prog |-> "Topological", n |-> 4, g |-> g] : g \in SUBSET {p \in Arcs(4) : p[1] # p[2]}}
    \cup UNION {{[prog |-> "Dijkstra", n |-> 4, w |-> w] : w \in [g -> {0, 1, 3}]} : g \in Roads}
    \cup [prog : {"LCS"}, a : Words(4, {"a", "b"}), b : Words(3, {"a", "b", "c"})]
    \cup [prog : {"Matrixchain"}, n : {4}, A : [0 .. 4 -> {1, 2, 5}]]
    \cup [prog : {"Matrixchain"}, n : {2}, A : [0 .. 2 -> {1, 2, 5}]]
    \cup [prog : {"Rod"}, n : {5}, p : [1 .. 5 -> {0, 1, 3}]]
    \cup [prog : {"Assembly"}, e : [{0, 1} -> {0, 2}], x : [{0, 1} -> {0, 2}],
          a : [{0, 1} -> [1 .. 3 -> {1, 2}]], t : [{0, 1} -> [1 .. 2 -> {0, 1}]]]

\* C-minus: expressions of two operators, nested calls and subscripts, nested
\* statements, declarations of every kind; and texts, most of them wrong.
MC_CmTrees ==
    LET V(a) == Cmp!Node("IdK", <<a>>, <<>>)
        C(d) == Cmp!Node("ConstK", <<d>>, <<>>)
        O(k, l, r) == Cmp!Node("OpK", <<k>>, <<<<l>>, <<r>>>>)
        Set(l, r) == Cmp!Node("AssignK", <<>>, <<<<l>>, <<r>>>>)
        Elem(a, e) == Cmp!Node("ArrIdK", <<a>>, <<<<e>>>>)
        CallOf(f, as) == Cmp!Node("CallK", <<f>>, <<as>>)
        Cond(e, y, n) == Cmp!Node("IfK", <<>>, <<<<e>>, y, n>>)
        While(e, b) == Cmp!Node("IterK", <<>>, <<<<e>>, b>>)
        Ret(e) == Cmp!Node("RetK", <<>>, <<e>>)
        Comp(d, b) == Cmp!Node("CompK", <<>>, <<d, b>>)
        Var(a) == Cmp!Node("VarK", <<a>>, <<<<Cmp!Type("int")>>>>)
        IntArr(a, n) == Cmp!Node("ArrVarK", <<a, n>>, <<<<Cmp!Type("int")>>>>)
        Fun(ty, f, ps, body) == Cmp!Node("FuncK", <<f>>, <<<<Cmp!Type(ty)>>, ps, <<Comp(<<>>, body)>>>>)
        Par(a) == Cmp!Node("NonArrParamK", <<a>>, <<<<Cmp!Type("int")>>>>)
        ParArr(a) == Cmp!Node("ArrParamK", <<a>>, <<<<Cmp!Type("int")>>>>)
        Body(body) == <<Fun("void", "g", <<Cmp!Type("void")>>, body)>>
        ops == {"+", "-", "*", "/", "<", "<=", "=="}
        Flat == {O(o, V("a"), C("1")) : o \in ops}
        Wide == {O(o, l, V("d")) : o \in ops, l \in Flat} \cup {O(o, V("d"), r) : o \in ops, r \in Flat}
               \cup {O(o, l, r) : o \in {"+", "/", "=="}, l \in Flat,
                                  r \in {O("-", C("0"), V("t")), O(">=", V("t"), V("t"))}}
        Nested == {Set(V("a"), Set(Elem("d", C("7")), O("+", V("a"), Set(V("t"), C("0"))))), CallOf("f", <<>>),
                   CallOf("f", <<V("a"), CallOf("g", <<O("*", V("t"), Elem("a", CallOf("h", <<V("s"), Set(V("a"), V("d"))>>))),
                                                       C("1")>>)>>),
                   Elem("a", Elem("d", Elem("t", V("s")))), O("!=", CallOf("f", <<V("a")>>), Elem("a", V("d")))}
        s1 == Set(V("a"), C("1"))
        Bodies == {<<Cond(V("a"), <<Cond(V("d"), <<s1>>, <<V("t")>>)>>, <<>>)>>,
                   <<Cond(V("a"), <<Comp(<<>>, <<Cond(V("d"), <<s1>>, <<>>)>>)>>, <<s1>>)>>,
                   <<Cond(V("a"), <<>>, <<Cond(V("d"), <<While(C("1"), <<>>)>>, <<Ret(<<V("a")>>)>>)>>), Ret(<<>>)>>,
                   <<While(O("<", V("a"), C("7")), <<Comp(<<Var("a"), IntArr("d", "1")>>, <<s1, Ret(<<>>)>>)>>)>>,
                   <<>>,
                   <<Comp(<<Var("a")>>, <<>>), s1, V("d"), Cond(V("a"), <<While(C("0"), <<s1>>)>>, <<Comp(<<>>, <<>>)>>)>>,
                   <<Cond(V("a"), <<While(V("d"), <<Cond(V("a"), <<s1>>, <<V("d")>>)>>)>>, <<>>)>>}
    IN  {Body(<<e>>) : e \in Wide \cup Nested} \cup {Body(b) : b \in Bodies}
        \cup {<<Var("a"), IntArr("d", "7"), Fun("int", "f", <<Par("a"), ParArr("d"), Par("t")>>, <<Ret(<<V("a")>>)>>),
                Var("s"), Fun("void", "g", <<ParArr("u")>>, <<CallOf("f", <<V("a")>>)>>)>>}
MC_CmSpaces == {<<" ">>, <<>>, <<"\n", "\t">>, <<"/", "*", "\n", "*", "*", "/">>, <<"/", "*", "/", "a", "*", "/">>}
MC_CmTexts ==
    LET B(x) == <<"v", "o", "i", "d", " ", "g", "(", "v", "o", "i", "d", ")", "{">> \o x \o <<"}">>
    IN  {B(x) : x \in Strings({"a", "(", ")", "=", ";", "<", "-"}, 4)}
        \cup {B(<<"a", "1", ";">>), B(<<"a", "!", ";">>), <<>>, <<"i", "n", "t", " ", "a">>,
              B(<<"t", "h", "e", "n", ";">>), B(<<"a", "=", "/", "*", "f">>), <<"i", "n", "t", " ", "a", "[", "a", "]", ";">>,
              B(<<"i", "f", "a", ";", ";">>), B(<<"i", "f", "(", "a", ")", "e", "l", "s", "e", ";">>),
              B(<<"a", "<", "=", "=", "d", ";">>), B(<<"v", "o", "i", "d", " ", "a", ";">>),
              <<"v", "o", "i", "d", " ", "g", "(", ")", ";">>}

\* Contacts that share a name or an affiliation, and one inserted many times.
Person(a, x, n) == <<<<a>>, x, <<n>>, <<"m">>>>
MC_CbLedger == {<<"a", "x", "1", "m">>, <<"b", "x", "2", "m">>, <<"a", "y", "2", "n">>}
MC_CbBook == {Person("a", <<"x">>, "1"), Person("b", <<"x", "y">>, "2")}
MC_CbMany == <<Person("a", <<"x">>, "1"), Person("a", <<"x">>, "1")>>

\* Command lines of the xv6 shell: pipes, lists, redirections and background
\* commands, one inside the other; and lines that are not well formed, cd.
MC_ShTrees ==
    LET A == [type |-> "EXEC", argv |-> <<<<"w">>, <<"x">>>>]
        B == [type |-> "EXEC", argv |-> <<<<"r">>>>]
        C == [type |-> "EXEC", argv |-> <<<<"b", "o">>>>]
        M == [type |-> "EXEC", argv |-> <<<<"m">>>>]
        N == Shell!execcmd
        From(c) == Shell!redircmd(c, <<"f">>, "read", 0)
        Out(c, f) == Shell!redircmd(c, <<f>>, "write", 1)
        Pipe(l, r) == Shell!pipecmd(l, r)
        List(l, r) == Shell!listcmd(l, r)
        Back(c) == Shell!backcmd(c)
    IN  {A, B, C, From(B), Out(A, "f"), Out(Out(C, "f"), "g"), From(Out(C, "f")), M, Out(C, "m")}
        \cup {Pipe(l, r) : l \in {A, C, From(C), M, Out(A, "f")}, r \in {B, C, A, Out(B, "g"), M}}
        \cup {List(l, r) : l \in {A, C, Back(A), M}, r \in {B, N, Out(C, "f"), Back(B)}}
        \cup {Back(A), Back(Back(B))}
        \cup {Pipe(A, Pipe(c, B)) : c \in {C, A, B}} \cup {Pipe(Pipe(A, C), c) : c \in {B, A}}
        \cup {List(Pipe(A, C), Pipe(C, B)), List(Back(Pipe(C, C)), Pipe(A, B)), Out(List(A, Pipe(A, B)), "g"),
              Pipe(List(A, B), C), Pipe(A, List(A, C)), Pipe(A, List(Back(B), C)), Pipe(Back(A), From(List(B, B))),
              List(List(A, Back(C)), List(B, A))}
MC_ShLines ==
    LET L(l) == Append(l, "\n")
    IN  {L(<<>>), L(<<"w", " ", "&", " ", "r">>), L(<<"w", ">", ">", "f", "x", "|", "r">>), L(<<"(", "w">>), L(<<"w", ">">>),
         L(<<"w", "(", "r", ")">>), L(<<"w", ")">>), L(<<"w", " ", "x", " ", "x", " ", "x">>),
         L(<<"w", " ", "x", ">", "x", " ", "x">>), L(<<";", "r">>), L(<<"(", ")", "|", "(", "w", ")", "<", "f">>),
         L(<<"w", "&", "|", "r">>), L(<<"c", "d", " ", "f">>) \o L(<<"w", "&">>) \o L(<<"r">>),
         <<"c", "d", " ", "f", "g">>, L(<<"c", "d", " ", "m">>),
         L(<<"w", " ", "|", " ", "b", "o", " ", "|", " ", "r", " ", "<", "f", "&", "&", ";", "w">>),
         L(<<">", "f", "(", "w", ")">>), L(<<"(", "w", ")", "(", "r", ")">>), <<"w", "|", "r">>,
         L(<<"w", "|", ">", "f", " ", "r", "<", "f", "|", "|">>)}
MC_ShReads == {<<"r">>, <<"b", "o">>}
MC_ShWrites == {<<"w">>, <<"b", "o">>}
MC_ShMissing == {<<"m">>}

\* Lines of the homework's shell; "x" cannot be started.
MC_BaInputs == {<<<<"a">>, <<"b", "c">>>>, <<<<"x">>, <<"a">>>>, <<<<"a", "x", "b">>, <<"c", "x">>, <<"a">>>>,
                <<<<"a", "", "b">>, <<"">>, <<"quit">>, <<"c">>>>, <<<<"x", "x", "a">>, <<"quit">>, <<"b">>, <<"quit">>>>,
                <<<<"a">>, <<"quit">>, <<"b">>>>, <<<<"a", " ">>, <<"b">>, <<"c", "a">>>>}

\* Files of mkfs, up to the largest and on the edges of blocks; one missing.
MC_MkArgs ==
    LET File(n, l) == [name |-> n, data |-> [i \in 1 .. l |-> <<100 * l + i>>], missing |-> FALSE]
        A(l) == File(<<95, 1>>, l)
        B(l) == File(<<2, 3, 4>>, l)
        No == [File(<<5>>, 3) EXCEPT !.missing = TRUE]
    IN  {<<>>} \cup {<<A(k), B(l)>> : k \in {0, 3, 7}, l \in 0 .. 9}
        \cup {<<A(2)>>, <<A(1), B(10)>>, <<B(11)>>, <<A(9), B(9), A(5)>>, <<A(5), B(4), A(3), B(2)>>, <<A(2), No, B(3)>>,
              <<A(1), A(1), A(1), A(1), B(2), B(1)>>, <<A(9), B(9), A(9), B(9)>>}

\* Strings for the library of xv6's programs, and patterns and files for grep.
UpTo(alpha, n) == {<<>>} \cup Strings(alpha, n)
MC_UlMems == {Append(m, 0) : m \in [1 .. 4 -> {0, 1, 2}]}
MC_UlCounts == {-1, 0, 1, 3}
MC_UlInputs == UpTo({3, 8, 9}, 5)
MC_UlFormats == Strings({"a", "%", "d", "x"}, 4)
MC_UlInts == {-8, -1, 0, 3, 7}
MC_GrPatterns == UpTo({"a", "^", "$", "*", "."}, 3)
                 \cup {<<"a", "*", "b", "*">>, <<"^", "a", "*", "$">>, <<".", "*", "a", "b">>, <<"a", "*", "a", "b">>}
MC_GrLines == UpTo({"a", "b", "$"}, 3)
MC_GrFiles == UpTo({"a", "\n"}, 5)

\* Arguments of system calls in an address space of 32 bytes, and paths.
MC_AArgs == -16 .. 15
MC_ALens == {-16, -1, 0, 1, 5, 15}
MC_AZeros == {{}, {0, 5}, {7, 9, 15}, {31}}
MC_AVectors == [1 .. 4 -> {0, 3, 7}]
MC_APaths == UpTo({"/", "a", "b"}, 6)
-----------------------------------------------------------------------------
programVars == <<part, musVars, bpVars, scVars, anVars, tnVars, soVars, opVars>>
userVars == <<cmn, cm, bk, sh, ba, mk, ul, gr, header, freep, brk, used, ar>>
heapVars == <<header, freep, brk, used>>

MC_Subjects == {"music", "tree", "scan", "analyze", "tiny", "sorts", "optima",
             "cminus", "ledger", "book", "shell", "batch", "mkfs", "utils", "grep", "heap", "args"}

MC_Init ==
    /\ part \in Subjects
    /\ IF part = "music" THEN MusInit ELSE MusStart({})
    /\ IF part = "tree" THEN BpInit ELSE BpStart(Keys(4, 1, 0))
    /\ IF part = "scan" THEN ScInit ELSE ScStart(<<>>)
    /\ AnInit
    /\ IF part = "tiny" THEN TnInit ELSE TnStart(<<>>)
    /\ IF part = "sorts" THEN SoInit ELSE SoStart(Queue)
    /\ IF part = "optima" THEN OpInit ELSE OpStart([prog |-> "Rod", n |-> 1, p |-> <<1>>])
    /\ Book!CbInit /\ Utils!UmInit /\ Utils!UlInit /\ Utils!ArInit
    /\ IF part = "cminus" THEN Cmp!CmInit ELSE cmn = <<>>
    /\ IF part = "shell" THEN Shell!ShInit ELSE sh = <<>>
    /\ IF part = "batch" THEN Shell!BaInit ELSE ba = <<>>
    /\ IF part = "mkfs" THEN Utils!MkInit ELSE mk = <<>>
    /\ IF part = "grep" THEN Utils!GrInit ELSE gr = <<>>
Stands ==
    \/ part = "music" /\ MusNext /\ UNCHANGED <<part, bpVars, scVars, anVars, tnVars, soVars, opVars>>
    \/ part = "tree" /\ BpNext /\ UNCHANGED <<part, musVars, scVars, anVars, tnVars, soVars, opVars>>
    \/ part = "scan" /\ getToken /\ UNCHANGED <<part, musVars, bpVars, anVars, tnVars, soVars, opVars>>
    \/ part = "analyze" /\ AnNext /\ UNCHANGED <<part, musVars, bpVars, scVars, tnVars, soVars, opVars>>
    \/ part = "tiny" /\ TnNext /\ UNCHANGED <<part, musVars, bpVars, scVars, anVars, soVars, opVars>>
    \/ part = "sorts" /\ SoNext /\ UNCHANGED <<part, musVars, bpVars, scVars, anVars, tnVars, opVars>>
    \/ part = "optima" /\ Main /\ UNCHANGED <<part, musVars, bpVars, scVars, anVars, tnVars, soVars>>
Uses ==
    \/ part = "cminus" /\ Cmp!CmNext /\ UNCHANGED <<cm, bk, sh, ba, mk, ul, gr, heapVars, ar>>
    \/ part = "ledger" /\ Book!CmNext /\ UNCHANGED <<cmn, sh, ba, mk, ul, gr, heapVars, ar>>
    \/ part = "book" /\ Book!BkNext /\ UNCHANGED <<cmn, sh, ba, mk, ul, gr, heapVars, ar>>
    \/ part = "shell" /\ Shell!ShNext /\ UNCHANGED <<cmn, cm, bk, ba, mk, ul, gr, heapVars, ar>>
    \/ part = "batch" /\ Shell!BaNext /\ UNCHANGED <<cmn, cm, bk, sh, mk, ul, gr, heapVars, ar>>
    \/ part = "mkfs" /\ Utils!MkNext /\ UNCHANGED <<cmn, cm, bk, sh, ba, ul, gr, heapVars, ar>>
    \/ part = "utils" /\ Utils!UlNext /\ UNCHANGED <<cmn, cm, bk, sh, ba, mk, gr, heapVars, ar>>
    \/ part = "grep" /\ Utils!GrNext /\ UNCHANGED <<cmn, cm, bk, sh, ba, mk, ul, heapVars, ar>>
    \/ part = "heap" /\ Utils!UmNext /\ UNCHANGED <<cmn, cm, bk, sh, ba, mk, ul, gr, ar>>
    \/ part = "args" /\ Utils!ArNext /\ UNCHANGED <<cmn, cm, bk, sh, ba, mk, ul, gr, heapVars>>
MC_Next == \/ Stands /\ UNCHANGED userVars
           \/ Uses /\ UNCHANGED programVars
MC_Spec == MC_Init /\ [][MC_Next]_<<programVars, userVars>>
-----------------------------------------------------------------------------
\* The rows of songs, credits and playlists belong together while two
\* instances of the program change them (musicapp.java).
MusicSound == []MusicCredited /\ PlaylistsOwned

\* The tree holds what was inserted and not deleted, its nodes are well
\* formed, and single and range searches find it (bptree.java); the files of
\* the two address books hold the people that were added and not deleted
\* (hw1, homework2 and homework3 of the file structure course).
StoresExact == /\ part = "tree" => TreeExact /\ NodesSound /\ RangeExact
               /\ part = "ledger" => Book!LedgerExact
               /\ part = "book" => Book!BookExact


\* Sorting programs sort, the queue gives out its largest key, and the
\* programs for graphs and tables find optimal answers (algorithm/).
AlgorithmsRight == /\ part = "sorts" => SortedRight /\ QueueExact
                   /\ part = "optima" => GraphsRight /\ TablesOptimal

\* What a user's program and the kernel make of each other: the shells run
\* what was typed and leave nobody waiting for ever (sh.c, shell.c); mkfs
\* writes an image that is a file system (mkfs.c); the heap's blocks are
\* where nobody else's are (umalloc.c); strings, numbers and patterns come
\* out right at their limits (string.c, ulib.c, printf.c, wc.c, grep.c); and a
\* system call takes no argument from outside its process (syscall.c).
UserlandRight == /\ part = "shell" => Shell!ParsedAsTyped /\ Shell!RunsAsTyped /\ Shell!NoneStuck
                 /\ part = "batch" => Shell!EachOnce
                 /\ part = "mkfs" => Utils!ImageSound
                 /\ part = "heap" => Utils!HeapExact /\ Utils!ListSound
                 /\ part = "utils" => Utils!CopiesExact /\ Utils!PrintedRight /\ Utils!CountsRight
                 /\ part = "grep" => Utils!MatchRight /\ Utils!LinesPrinted
                 /\ part = "args" => Utils!ArgumentsInside /\ Utils!PathSplit
=============================================================================
