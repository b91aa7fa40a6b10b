------------------------------ MODULE MC_RedBase ------------------------------
(***************************************************************************)
(* The layers of RedBase in one run.  A behaviour is that of the paged     *)
(* files, of the record files, of an index, of the catalog, of the parser  *)
(* or of the printer with dbcreate; the others keep one fixed initial      *)
(* state.                                                                  *)
(***************************************************************************)
EXTENDS Pf, Rm, Ix, Sm

CONSTANTS InLoads, InFormats, MAXATTRS, MAXNAME, MAXSTRINGLEN, MAXNODE, MAXCHAR, PrTables, PrLens, PrName
VARIABLES part, text, ps, rb, dbdir, shown

Parser == INSTANCE Interp WITH db <- dbdir

Clients(policy, pages, ops) == [policy |-> policy, pages |-> pages, ops |-> ops]
MC_PLoads == {Clients("lru", 2, {"dispose"}), Clients("lru", 3, {"modify"}),
              Clients("mru", 2, {"modify", "block", "resize"})}

R(size, pages, ops, conds) == [size |-> size, pages |-> pages, ops |-> ops, conds |-> conds]
MC_RLoads == {R(2040, 2, {"insert", "delete"}, {<<"NE_OP", 1>>}),
              R(1360, 1, {"insert", "update"}, CompOps \X RVals),
              R(4087, 3, {"insert", "delete"}, {<<"EQ_OP", 1>>, <<"NO_OP", 1>>})}
             \cup {R(n, 1, {}, {}) : n \in 1 .. 4087}

I(ops, inserts, distinct) == [ops |-> ops, inserts |-> inserts, distinct |-> distinct]
MC_ILoads == {I({"delete", "close", "refill"}, 6, TRUE), I({"scan"}, 5, TRUE)}

MC_Schemas == {<<1, 2>>, <<2, 2>>}
MC_Files == {<<<<0, 1>>, <<1, 1>>>>, <<<<0, 1>>, BadLine, <<1, 1>>>>}
MC_Wheres == {<<>>} \cup {<<<<a, v>>>> : a \in {1, 2}, v \in {0, 1}}
             \cup {<<<<1, 0>>, <<2, 1>>>>, <<<<2, 0>>, <<1, 1>>>>}

\* Statements of every kind, right ones over several lines too, and the same
\* with a token removed or replaced, each with another statement behind it.
MC_InLoads ==
    LET Stmt(k) == [Parser!Empty EXCEPT !.k = k, !.rel = "r"]
        A(r, a) == Parser!RelAttr(r, a)
        V(k, v) == [k |-> k, rel |-> Parser!NULL, attr |-> v]
        Cond(l, o, r) == [l |-> l, op |-> o, r |-> r]
        Attr(n, t) == [name |-> n, type |-> t]
        Where == {<<>>, <<Cond(A(Parser!NULL, "a"), "=", V("INT", "1"))>>,
                  <<Cond(A("r", "a"), "<", A("s", "b")), Cond(A(Parser!NULL, "b"), "=", V("QSTR", "x"))>>}
        Trees ==
            {[Stmt("createtable") EXCEPT !.attrs = x] :
                x \in {<<Attr("a", "i")>>, <<Attr("a", "c3"), Attr("long", "i4")>>, <<Attr("a", "c")>>,
                       <<Attr("a", "i"), Attr("b", "f4"), Attr("c", "i")>>, <<Attr("a", "f8"), Attr("b", "q")>>}}
            \cup {[Stmt("createtable") EXCEPT !.rel = "long", !.attrs = <<Attr("a", "i")>>]}
            \cup {[Stmt(k) EXCEPT !.name = "a"] : k \in {"createindex", "dropindex", "load", "set"}}
            \cup {Stmt("droptable"), Stmt("print"), Stmt("help"), [Parser!Empty EXCEPT !.k = "help"]}
            \cup {[Stmt("query") EXCEPT !.rel = Parser!NULL, !.sel = s, !.from = f, !.conds = w] :
                     s \in {<<A(Parser!NULL, "*")>>, <<A("r", "a"), A(Parser!NULL, "b")>>},
                     f \in {<<"r">>, <<"r", "s">>}, w \in Where}
            \cup {[Stmt("insert") EXCEPT !.vals = v] :
                     v \in {<<V("INT", "1")>>, <<V("QSTR", "x"), V("REAL", "2")>>,
                            <<V("INT", "1"), V("INT", "2"), V("INT", "3")>>}}
            \cup {[Stmt("delete") EXCEPT !.conds = w] : w \in Where}
            \cup {[Stmt("update") EXCEPT !.lhs = <<A("r", "a")>>, !.rhs = <<x>>, !.conds = w] :
                     x \in {V("INT", "1"), A("s", "b")}, w \in Where}
        Says(t) == Parser!Sentence(t)
        Behind == Says(Stmt("print"))
        Words == {"print", "buffer", "on", "queryplans", "exit", "abcdefghijkl", "from"}
        Others == {Parser!Word(w) : w \in Words} \cup {Parser!Sign(c) : c \in {".", ",", ")", ";"}}
                  \cup {[t |-> "SHELL", v |-> "ls"], [t |-> "INT", v |-> "7"]}
        Damaged(w) == {RemoveAt(w, i) : i \in DOMAIN w} \cup {ReplaceAt(w, i, x) : i \in DOMAIN w, x \in Others}
        Utility(x, y) == <<<<Parser!Word(x), Parser!Word("buffer"), Parser!Word("io")>>,
                           <<Parser!Word("queryplans"), Parser!Word(y), Parser!Sign(";")>>,
                           <<Parser!Word("exit"), Parser!Sign(";")>>>>
    IN  {[pieces |-> <<Says(t) \o Behind>>, trees |-> <<t, Stmt("print")>>] : t \in Trees}
        \cup {[pieces |-> <<SubSeq(Says(t), 1, 3), SubSeq(Says(t), 4, Len(Says(t))), Behind>>,
               trees |-> <<t, Stmt("print")>>] : t \in {u \in Trees : Len(Says(u)) > 3}}
        \cup UNION {{[pieces |-> <<w \o Behind, Behind>>, trees |-> <<>>] : w \in Damaged(Says(t))} : t \in Trees}
        \cup {[pieces |-> Utility(x, y), trees |-> <<>>] : x \in {"reset", "print", "resize"}, y \in {"on", "off"}}
MC_InFormats == [w \in {"i", "i4", "f4", "f8", "c", "c3", "q", "r", "s", "a", "b", "buffer", "on", "print", "from"} |->
    [c |-> CASE w \in {"i", "i4"} -> "i" [] w \in {"f4", "f8"} -> "f" [] w \in {"c", "c3"} -> "c" [] OTHER -> w,
     n |-> CASE w \in {"i4", "f4"} -> 4 [] w = "f8" -> 8 [] w = "c3" -> 3 [] OTHER -> -1]]

\* Tables whose names and values are shorter and longer than their columns.
MC_PrTables ==
    LET A(n, t, l) == [name |-> n, type |-> t, len |-> l]
    IN  [r |-> <<A("a", "INT", 4), A("bbb", "STRING", 2), A("c", "STRING", 60)>>,
         soaps |-> <<A("a", "FLOAT", 4), A("averylongnameof", "INT", 4),
                     A("abcdefghijklm", "STRING", 13), A("bbb", "STRING", 9)>>]

frontVars == <<text, ps, rb, dbdir, shown>>
redbaseVars == <<part, pfVars, rmVars, ixVars, smVars, frontVars>>

MC_Init == /\ part \in {"pages", "records", "index", "catalog", "parser", "printer"}
           /\ PfInit /\ (part # "pages" => pf.load = Clients("lru", 3, {"modify"}))
           /\ IxInit /\ (part # "index" => ix.load = I({"scan"}, 5, TRUE))
           /\ SmInit
           /\ Parser!PrInit
           /\ RmInit /\ (part # "records" => rm.load = R(4087, 1, {}, {}))
           /\ IF part = "parser" THEN Parser!InInit ELSE Parser!InStart([pieces |-> <<>>, trees |-> <<>>])
MC_Next ==
    \/ part = "pages" /\ PfNext /\ UNCHANGED <<part, rmVars, ixVars, smVars, frontVars>>
    \/ part = "records" /\ RmNext /\ UNCHANGED <<part, pfVars, ixVars, smVars, frontVars>>
    \/ part = "index" /\ IxNext /\ UNCHANGED <<part, pfVars, rmVars, smVars, frontVars>>
    \/ part = "catalog" /\ SmNext /\ UNCHANGED <<part, pfVars, rmVars, ixVars, frontVars>>
    \/ part = "parser" /\ Parser!InNext /\ UNCHANGED <<part, pfVars, rmVars, ixVars, smVars, dbdir, shown>>
    \/ part = "printer" /\ Parser!PrNext /\ UNCHANGED <<part, pfVars, rmVars, ixVars, smVars, text, ps, rb>>
MC_Spec == MC_Init /\ [][MC_Next]_redbaseVars
-----------------------------------------------------------------------------
\* The pool of buffers, what its clients have pinned, and the chain of free
\* pages of every file fit together (pf_buffermgr.cc, pf_filehandle.cc).
PagesSound == part = "pages" => PoolSound /\ PinsExact /\ FreePagesChained

\* A record file keeps its records, its scans return what they should whatever
\* happens in between, its pages have room for what the layout promises, and
\* its list of pages with room is right until a page in the middle is emptied
\* (rm_filehandle.cc, rm_filescan.cc, rm_manager.cc).
RecordsSound == [](ScanExact /\ RecordsFit /\ FreeChained) /\ RecordsKept

\* An index holds the entries it was given, finds them from the root and
\* scans them (ix_indexhandle.cc, ix_indexscan.cc).
IndexSound == part = "index" => IndexExact /\ EntriesFound /\ EntriesScanned

\* The catalogs describe the files there are, indexes mirror their relations,
\* and statements mean what they say (sm_manager.cc, ql_manager.cc); what is
\* executed is what was typed, in that order, and never a damaged statement
\* (parse.y, interp.c, nodes.c); dbcreate leaves catalogs that describe
\* themselves or an error (dbcreate.cc), and a printed table stays in its
\* columns (printer.cc).
CatalogSound == /\ part = "catalog" => CatalogExact /\ IndexesMirror /\ StatementMeans
                /\ part = "parser" => Parser!StatementsTyped /\ Parser!StatementsInOrder
                /\ part = "printer" => Parser!CatalogsDescribe /\ Parser!ColumnsAlign
=============================================================================
