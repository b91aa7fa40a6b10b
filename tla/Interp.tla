------------------------------- MODULE Interp -------------------------------
(***************************************************************************)
(* The front end of FS_project/edubase: the scanner's words (scanhelp.c),  *)
(* the grammar (parse.y), the pool of tree nodes (nodes.c), the commands   *)
(* (interp.c) and the loop around them (RBparse).  The input comes in the  *)
(* pieces the scanner's buffer holds, a line from a terminal and a block   *)
(* from a file; a token is [t, v].  A list of nodes is a sequence.  The    *)
(* case of letters and the wording of messages are left out.  The second   *)
(* part is dbcreate and the tables that are printed.                       *)
(***************************************************************************)
EXTENDS Integers, Sequences, SequencesExt, FiniteSetsExt

CONSTANTS InLoads,       \* inputs: [pieces, trees]: tokens by pieces, and the
                         \* statements they were made from, or {} when damaged
          InFormats,     \* words for types -> [c, n]: what sscanf finds, n = NoLen: no length
          MAXATTRS, MAXNAME, MAXSTRINGLEN,
          MAXNODE, MAXCHAR,
          PrTables,      \* relations that may be created: <<[name, type, len], ...>> by name
          PrLens,        \* the lengths of printed values
          PrName         \* bytes of a name, MAXNAME in the code

VARIABLES text,          \* the pieces not read yet, and the load
          ps,            \* the parser: its state, the tree so far, nodes and characters in use
          rb,            \* what was executed, bExit, bQueryPlans, and whether the program died
          db,            \* where dbcreate is, its directory, the two catalogs, how it ended
          shown          \* the last table shown: where its columns start, in the head and in a row

inVars == <<text, ps, rb>>

NoLen == -1
NULL == "NULL"
RESERVED == {"create", "drop", "table", "index", "load", "set", "help", "print", "exit",
             "select", "from", "where", "insert", "delete", "update", "and", "into", "values",
             "reset", "io", "buffer", "resize", "queryplans", "on", "off"}
VALUES == {"QSTR", "INT", "REAL"}
RelAttr(r, a) == [k |-> "attr", rel |-> r, attr |-> a]
Value(tok) == [k |-> tok.t, rel |-> NULL, attr |-> tok.v]
Empty == [k |-> NULL, rel |-> NULL, name |-> NULL, attrs |-> <<>>, sel |-> <<>>, from |-> <<>>,
          vals |-> <<>>, lhs |-> <<>>, rhs |-> <<>>, conds |-> <<>>]

new_query == [s |-> "start", tree |-> Empty, nodes |-> 0, chars |-> 0, read |-> <<>>]
InStart(load) == /\ text = [pieces |-> load.pieces, trees |-> load.trees]
                 /\ ps = new_query
                 /\ rb = [done |-> <<>>, bExit |-> FALSE, bQueryPlans |-> FALSE, died |-> FALSE]
InInit == \E load \in InLoads : InStart(load)
-----------------------------------------------------------------------------
(* scanhelp.c *)
get_id(w) == IF Len(w) >= MAXSTRINGLEN THEN "NOTOKEN" ELSE IF w \in RESERVED THEN w ELSE "ID"
Token(x) == IF x.t = "word" THEN [t |-> get_id(x.v), v |-> x.v] ELSE x
\* string_alloc for names and quoted strings.
Chars(tok) == IF tok.t \in {"ID", "QSTR"} THEN Len(tok.v) + 1 ELSE 0
-----------------------------------------------------------------------------
(* parse.y: the states of the parser, named for what comes next.  A row is *)
(* [from, tok, to, verb, at]: what the parser does with the token's value. *)
Rows(from, toks, to, verb, at) ==
    {[from |-> s, tok |-> t, to |-> to, verb |-> verb, at |-> at] : s \in from, t \in toks}
Kind(from, tok, kind) == Rows({from}, {tok}, kind, "kind", NULL)
Go(from, toks, to) == Rows(from, toks, to, "go", NULL)
Named(from, to, at) == Rows(from, {"ID"}, to, "put", at)
Does(from, tok, what) == Rows({from}, {tok}, "end", "do", what)

Ddl == UNION {
    Go({"start"}, {"create"}, "create"), Go({"start"}, {"drop"}, "drop"),
    Kind("create", "table", "createtable"), Kind("create", "index", "createindex"),
    Kind("drop", "table", "droptable"), Kind("drop", "index", "dropindex"),
    Named({"createtable"}, "attr(", "rel"), Go({"attr("}, {"("}, "attr"),
    Rows({"attr"}, {"ID"}, "type", "add", "attrs"), Rows({"type"}, {"ID"}, "attr,", "type", "attrs"),
    Go({"attr,"}, {","}, "attr"), Go({"attr,"}, {")"}, "end"),
    Named({"droptable"}, "end", "rel"), Named({"createindex", "dropindex"}, "name(", "rel"),
    Go({"name("}, {"("}, "name"), Named({"name"}, "name)", "name"), Go({"name)"}, {")"}, "end")}
Utility == UNION {
    Kind("start", "load", "load"), Kind("start", "set", "set"), Kind("start", "help", "help"),
    Kind("start", "print", "print"), Go({"start"}, {"reset"}, "reset"),
    Go({"start"}, {"resize"}, "resize"), Go({"start"}, {"queryplans"}, "queryplans"),
    Named({"load"}, "file(", "rel"), Go({"file("}, {"("}, "file"),
    Rows({"file"}, {"QSTR"}, "name)", "put", "name"),
    Named({"set"}, "set=", "rel"), Go({"set="}, {"="}, "to"), Rows({"to"}, {"QSTR"}, "end", "put", "name"),
    Named({"help", "print"}, "end", "rel"),
    Does("print", "buffer", "print buffer"), Does("print", "io", "print io"),
    Does("reset", "buffer", "reset buffer"), Does("reset", "io", "reset io"),
    Go({"resize"}, {"buffer"}, "pages"), Does("pages", "INT", "resize buffer"),
    Does("queryplans", "on", "on"), Does("queryplans", "off", "off"), Does("start", "exit", "exit")}
Dml == UNION {
    Kind("start", "select", "query"), Kind("start", "insert", "insert"),
    Kind("start", "delete", "delete"), Kind("start", "update", "update"),
    Rows({"query"}, {"*"}, "from", "add", "sel"), Go({"from", "sel", "sel,"}, {"from"}, "rel"),
    Rows({"query", "more"}, {"ID"}, "sel", "add", "sel"), Go({"sel", "sel,"}, {","}, "more"),
    Rows({"rel"}, {"ID"}, "rel,", "add", "from"), Go({"rel,"}, {","}, "rel"),
    Go({"insert"}, {"into"}, "into"), Named({"into"}, "values", "rel"),
    Go({"values"}, {"values"}, "val("), Go({"val("}, {"("}, "val"),
    Rows({"val"}, VALUES, "val,", "add", "vals"), Go({"val,"}, {","}, "val"), Go({"val,"}, {")"}, "end"),
    Go({"delete"}, {"from"}, "in"), Named({"in"}, "where", "rel"),
    Named({"update"}, "upset", "rel"), Go({"upset"}, {"set"}, "left"),
    Rows({"left"}, {"ID"}, "lhs", "add", "lhs"), Go({"lhs", "lhs."}, {"="}, "right"),
    Rows({"right"}, {"ID"}, "rhs", "add", "rhs"), Rows({"right"}, VALUES, "where", "add", "rhs"),
    Go({"rel,", "where", "rhs"}, {"where"}, "cond"),
    Rows({"cond"}, {"ID"}, "l", "cond", "conds"), Rows({"l", "l."}, {"=", "cmp"}, "r", "op", "conds"),
    Rows({"r"}, {"ID"}, "r,", "right", "conds"), Rows({"r"}, VALUES, "r.", "right", "conds"),
    Go({"r,", "r."}, {"and"}, "cond")}
Dots == UNION {Go({"sel"}, {"."}, "sel2"), Go({"lhs"}, {"."}, "lhs2"), Go({"rhs"}, {"."}, "rhs2"),
               Rows({"sel2"}, {"ID"}, "sel,", "dot", "sel"), Rows({"lhs2"}, {"ID"}, "lhs.", "dot", "lhs"),
               Rows({"rhs2"}, {"ID"}, "where", "dot", "rhs"),
               Go({"l"}, {"."}, "l2"), Rows({"l2"}, {"ID"}, "l.", "ldot", "conds"),
               Go({"r,"}, {"."}, "r2"), Rows({"r2"}, {"ID"}, "r.", "rdot", "conds")}
Grammar == Ddl \cup Utility \cup Dml \cup Dots
\* The states in which a statement may end.
Ends == {"start", "end", "help", "rel,", "where", "rhs", "r,", "r."}

\* Mutant: the name of the relation is lost.
Dot_plain(x, v) == RelAttr(NULL, v)

Dot(x, v) == RelAttr(x.attr, v)
OfToken(at, tok) == CASE at = "from" -> tok.v
                      [] at = "attrs" -> [name |-> tok.v, type |-> NULL]
                      [] OTHER -> IF tok.t \in VALUES THEN Value(tok) ELSE RelAttr(NULL, tok.v)
OnLast(seq, f) == [seq EXCEPT ![Len(seq)] = f]

Built(row, tree, tok) ==
    CASE row.verb = "do" -> Empty
      [] row.verb = "kind" -> [tree EXCEPT !.k = row.to]
      [] row.verb = "put" -> [tree EXCEPT ![row.at] = tok.v]
      [] row.verb = "add" -> [tree EXCEPT ![row.at] = Append(@, OfToken(row.at, tok))]
      [] row.verb = "type" -> [tree EXCEPT !.attrs = OnLast(@, [Last(@) EXCEPT !.type = tok.v])]
      [] row.verb = "dot" -> [tree EXCEPT ![row.at] = OnLast(@, Dot(Last(@), tok.v))]
      [] row.verb = "cond" -> [tree EXCEPT !.conds = Append(@, [l |-> RelAttr(NULL, tok.v), op |-> NULL, r |-> NULL])]
      [] row.verb = "ldot" -> [tree EXCEPT !.conds = OnLast(@, [Last(@) EXCEPT !.l = Dot(@, tok.v)])]
      [] row.verb = "op" -> [tree EXCEPT !.conds = OnLast(@, [Last(@) EXCEPT !.op = tok.v])]
      [] row.verb = "right" -> [tree EXCEPT !.conds = OnLast(@, [Last(@) EXCEPT !.r = OfToken("r", tok)])]
      [] row.verb = "rdot" -> [tree EXCEPT !.conds = OnLast(@, [Last(@) EXCEPT !.r = Dot(@, tok.v)])]
      [] OTHER -> tree

(* nodes.c: newnode, called for the parts of a list as they are read and for *)
(* the list itself, last element first, when it ends.                       *)
Parts(row) == CASE row.verb = "add" -> IF row.at = "rhs" THEN 2 ELSE IF row.at = "attrs" THEN 0 ELSE 1
                [] row.verb \in {"type", "cond"} -> 1
                [] row.verb = "right" -> 3
                [] OTHER -> 0
ListIn == [attrs |-> {"attr,"}, sel |-> {"sel", "sel,", "from"}, from |-> {"rel,"}, vals |-> {"val,"},
           conds |-> {"r,", "r."}]
Continues(s, t) == \/ t = "," /\ s \in ListIn.attrs \cup {"sel", "sel,", "rel,", "val,"}
                   \/ t = "and" /\ s \in ListIn.conds
                   \/ t = "." /\ s \in {"sel", "r,"}
Listed(s, t) == IF Continues(s, t) THEN 0
                ELSE MapThenSumSet(LAMBDA f : Len(ps.tree[f]), {f \in DOMAIN ListIn : s \in ListIn[f]})
-----------------------------------------------------------------------------
(* RBparse and yyparse *)
Reading == ~rb.bExit /\ ~rb.died /\ ps.s # "accept"
Here == IF text.pieces = <<>> THEN [t |-> "EOF", v |-> NULL] ELSE Token(Head(Head(text.pieces)))
Rest == LET p == text.pieces IN IF p = <<>> THEN p ELSE IF Len(Head(p)) = 1 THEN Tail(p) ELSE <<Tail(Head(p))>> \o Tail(p)
Took(tok) == Listed(ps.s, tok.t) + IF ps.s \in Ends /\ ps.tree.k # NULL /\ ~Continues(ps.s, tok.t) THEN 1 ELSE 0
Matching(tok) == {row \in Grammar : row.from = ps.s /\ row.tok = tok.t}
Fits(n, c) == n <= MAXNODE /\ c <= MAXCHAR
Record(what, tree, read) == [what |-> what, tree |-> tree, read |-> read]

\* A token that the grammar takes.  What a command of the second kind does
\* happens before the semicolon is seen.
Shift == /\ Reading /\ text.pieces # <<>>
         /\ \E row \in Matching(Here) :
               LET n == ps.nodes + Took(Here) + Parts(row)
                   c == ps.chars + Chars(Here)
                   r == Append(ps.read, Head(Head(text.pieces)))
               IN  IF Fits(n, c)
                   THEN /\ ps' = [s |-> row.to, tree |-> Built(row, ps.tree, Here), nodes |-> n, chars |-> c, read |-> r]
                        /\ rb' = IF row.verb # "do" THEN rb
                                 ELSE [rb EXCEPT !.done = Append(@, Record(row.at, Empty, r)),
                                                 !.bExit = @ \/ row.at = "exit",
                                                 !.bQueryPlans = (@ \/ row.at = "on") /\ row.at # "off"]
                   ELSE rb' = [rb EXCEPT !.died = TRUE] /\ UNCHANGED ps
         /\ text' = [text EXCEPT !.pieces = Rest]

\* command ';'
Semicolon == /\ Reading /\ Here.t = ";" /\ ps.s \in Ends
             /\ LET n == ps.nodes + Took(Here)
                IN  IF Fits(n, ps.chars)
                    THEN /\ ps' = IF ps.tree.k = NULL THEN new_query
                                  ELSE [ps EXCEPT !.s = "accept", !.nodes = n, !.read = Append(@, Here)]
                         /\ UNCHANGED rb
                    ELSE rb' = [rb EXCEPT !.died = TRUE] /\ UNCHANGED ps
             /\ text' = [text EXCEPT !.pieces = Rest]
ShellCmd == /\ Reading /\ Here.t = "SHELL" /\ ps.s = "start"
            /\ rb' = [rb EXCEPT !.done = Append(@, Record("system", Empty, <<Here>>))]
            /\ text' = [text EXCEPT !.pieces = Rest] /\ UNCHANGED ps
Eof == /\ Reading /\ Here.t = "EOF" /\ ps.s = "start"
       /\ rb' = [rb EXCEPT !.bExit = TRUE] /\ UNCHANGED <<text, ps>>
\* start: error.  reset_scanner throws away what is left of the buffer.
Error == /\ Reading /\ Matching(Here) = {} /\ ~(Here.t = ";" /\ ps.s \in Ends)
         /\ ~(Here.t \in {"SHELL", "EOF"} /\ ps.s = "start")
         /\ rb' = [rb EXCEPT !.died = ~Fits(ps.nodes + Took(Here), ps.chars + Chars(Here))]
         /\ ps' = new_query
         /\ text' = [text EXCEPT !.pieces = IF @ = <<>> THEN @ ELSE Tail(@)]
-----------------------------------------------------------------------------
(* interp.c *)
parse_format_string(w) ==
    LET f == InFormats[w]
    IN  CASE f.c \notin {"i", "f", "r", "s", "c"} -> "E_INVFORMATSTRING"
          [] f.c = "i" /\ f.n \notin {NoLen, 4} -> "E_INVINTSIZE"
          [] f.c \in {"f", "r"} /\ f.n \notin {NoLen, 4} -> "E_INVREALSIZE"
          [] f.c \in {"s", "c"} /\ f.n = NoLen -> "E_NOLENGTH"
          [] f.c \in {"s", "c"} /\ (f.n < 1 \/ f.n > MAXSTRINGLEN) -> "E_INVSTRLEN"
          [] OTHER -> "E_OK"
AttrError(i, a) == IF i > MAXATTRS THEN "E_TOOMANY" ELSE IF Len(a.name) > MAXNAME THEN "E_TOOLONG"
                   ELSE parse_format_string(a.type)
mk_attr_infos(list) ==
    LET bad == {i \in DOMAIN list : AttrError(i, list[i]) # "E_OK"}
    IN  IF bad = {} THEN "E_OK" ELSE AttrError(Min(bad), list[Min(bad)])
TooMany(tree) == \E n \in {Len(tree.sel), Len(tree.from), Len(tree.vals), Len(tree.conds)} : n > MAXATTRS
Error_of(tree) ==
    CASE tree.k = "createtable" /\ Len(tree.rel) > MAXNAME -> "E_TOOLONG"
      [] tree.k = "createtable" -> mk_attr_infos(tree.attrs)
      [] OTHER -> IF TooMany(tree) THEN "E_TOOMANY" ELSE "E_OK"

\* A command that is refused ends with 0; the managers answer with 0, a
\* positive warning or a negative error, after which the program ends.
interp == /\ ps.s = "accept"
          /\ LET refused == Error_of(ps.tree) # "E_OK"
             IN  \E rc \in IF refused THEN {0} ELSE {0, 1, -1} :
                    rb' = [rb EXCEPT !.done = Append(@, Record(IF refused THEN "refused" ELSE "call", ps.tree, ps.read)),
                                     !.bExit = @ \/ rc < 0]
          /\ ps' = new_query /\ UNCHANGED text

InNext == Shift \/ Semicolon \/ ShellCmd \/ Eof \/ Error \/ interp
InSpec == InInit /\ [][InNext]_inVars
-----------------------------------------------------------------------------
(* echo_query: the statement in words. *)
Word(v) == [t |-> "word", v |-> v]
Sign(t) == [t |-> t, v |-> t]
Words(vs) == [i \in DOMAIN vs |-> Word(vs[i])]
Joined(parts, sep) == IF parts = <<>> THEN <<>>
                      ELSE FoldLeft(LAMBDA acc, part : acc \o <<sep>> \o part, Head(parts), Tail(parts))
print_attrtypes(list) == Joined([i \in DOMAIN list |-> <<Word(list[i].name), Sign("="), Word(list[i].type)>>], Sign(","))
print_relattr(x) == IF x.attr = "*" THEN <<Sign("*")>>
                    ELSE (IF x.rel = NULL THEN <<>> ELSE <<Word(x.rel), Sign(".")>>) \o <<Word(x.attr)>>
print_value(x) == <<[t |-> x.k, v |-> x.attr]>>
print_op(o) == IF o = "=" THEN <<Sign("=")>> ELSE <<[t |-> "cmp", v |-> o]>>
print_side(x) == IF x.k = "attr" THEN print_relattr(x) ELSE print_value(x)
print_condition(c) == print_relattr(c.l) \o print_op(c.op) \o print_side(c.r)
print_conditions(list) == Joined([i \in DOMAIN list |-> print_condition(list[i])], Word("and"))
print_where(list) == IF list = <<>> THEN <<>> ELSE <<Word("where")>> \o print_conditions(list)
Quoted(v) == [t |-> "QSTR", v |-> v]
Parenthesised(seq) == <<Sign("(")>> \o seq \o <<Sign(")")>>
\* No blank stands between the right side of an update and its condition: a
\* name there runs into the word where.
print_set(x, conds) == IF x.k = "attr" /\ conds # <<>>
                       THEN LET w == print_relattr(x)
                            IN  OnLast(w, Word(Last(w).v \o "where")) \o print_conditions(conds)
                       ELSE print_side(x) \o print_where(conds)
echo_query(n) ==
    CASE n.k = "createtable" -> Words(<<"create", "table", n.rel>>) \o Parenthesised(print_attrtypes(n.attrs))
      [] n.k = "createindex" -> Words(<<"create", "index", n.rel>>) \o Parenthesised(<<Word(n.name)>>)
      [] n.k = "dropindex" -> Words(<<"drop", "index", n.rel>>) \o Parenthesised(<<Word(n.name)>>)
      [] n.k = "droptable" -> Words(<<"drop", "table", n.rel>>)
      [] n.k = "load" -> Words(<<"load", n.rel>>) \o Parenthesised(<<Quoted(n.name)>>)
      [] n.k = "help" -> Words(IF n.rel = NULL THEN <<"help">> ELSE <<"help", n.rel>>)
      [] n.k = "print" -> Words(<<"print", n.rel>>)
      [] n.k = "set" -> Words(<<"set", n.rel>>) \o <<Sign("="), Quoted(n.name)>>
      [] n.k = "query" -> Words(<<"select">>) \o Joined([i \in DOMAIN n.sel |-> print_relattr(n.sel[i])], Sign(","))
                          \o Words(<<"from">>) \o Joined([i \in DOMAIN n.from |-> Words(<<n.from[i]>>)], Sign(","))
                          \o print_where(n.conds)
      [] n.k = "insert" -> Words(<<"insert", "into", n.rel, "values">>)
                           \o Parenthesised(Joined([i \in DOMAIN n.vals |-> print_value(n.vals[i])], Sign(",")))
      [] n.k = "delete" -> Words(<<"delete", n.rel>>) \o print_where(n.conds)
      [] n.k = "update" -> Words(<<"update", n.rel, "set">>) \o print_relattr(n.lhs[1]) \o <<Sign("=")>>
                           \o print_set(n.rhs[1], n.conds)
-----------------------------------------------------------------------------
\* A statement in the language.  The echo is one, but for create table (it
\* has a sign between an attribute and its type), for delete (it has no
\* "from") and for an update whose right side is a name.
Sentence(n) ==
    (CASE n.k = "createtable" -> Words(<<"create", "table", n.rel>>)
                                \o Parenthesised(Joined([i \in DOMAIN n.attrs |->
                                       Words(<<n.attrs[i].name, n.attrs[i].type>>)], Sign(",")))
       [] n.k = "delete" -> Words(<<"delete", "from", n.rel>>) \o print_where(n.conds)
       [] n.k = "update" -> Words(<<"update", n.rel, "set">>) \o print_relattr(n.lhs[1]) \o <<Sign("=")>>
                            \o print_side(n.rhs[1]) \o print_where(n.conds)
       [] OTHER -> echo_query(n)) \o <<Sign(";")>>
Statements == SelectSeq(rb.done, LAMBDA d : d.what \in {"call", "refused"})
StatementsOf(done) == [i \in DOMAIN done |-> done[i].tree]

\* A manager is given exactly what was typed between two statements: whatever
\* else the input holds, no command is made of the pieces of a wrong one, and
\* lists, conditions and names arrive whole and in order (parse.y, interp.c).
StatementsTyped == \A i \in DOMAIN Statements : Statements[i].read = Sentence(Statements[i].tree)

\* Of an input without errors every statement is executed or refused, once
\* and in order, unless the program ends before (RBparse).
StatementsInOrder ==
    text.trees # <<>> =>
        /\ IsPrefix(StatementsOf(Statements), text.trees)
        /\ text.pieces = <<>> /\ ps = new_query /\ ~rb.died => StatementsOf(Statements) = text.trees
-----------------------------------------------------------------------------
(* The catalogs from their creation (dbcreate.cc) to the tables that help  *)
(* and print show (sm_manager.cc, printer.cc).  What is shown is           *)
(* abstracted to where each column starts; a value is as long as it        *)
(* prints.  Any call on the way to a new database may fail.                *)
prVars == <<db, shown>>

INT == 4                 \* sizeof(int)
RELCAT == "relcat"
ATTRCAT == "attrcat"
MAXPRINTSTRING == 2 * PrName + 5
SM_RelcatRec == <<"relName", "tupleLength", "attrCount", "indexCount">>
SM_AttrcatRec == <<"relName", "attrName", "offset", "attrType", "attrLength", "indexNo">>
SizeOf(field) == IF field \in {"relName", "attrName"} THEN PrName ELSE INT
\* OFFSET and sizeof: the bytes of a structure before its i-th member.
OFFSET(struct, i) == FoldLeft(LAMBDA n, field : n + SizeOf(field), 0, SubSeq(struct, 1, i - 1))
sizeof(struct) == OFFSET(struct, Len(struct) + 1)

RelcatRow(name, bytes, n) == [relName |-> name, tupleLength |-> bytes, attrCount |-> n, indexCount |-> 0]
AttrcatRow(rel, name, offset, type, len) ==
    [relName |-> rel, attrName |-> name, offset |-> offset, attrType |-> type, attrLength |-> len, indexNo |-> -1]
MemberRow(rel, struct, i) ==
    AttrcatRow(rel, struct[i], OFFSET(struct, i), IF SizeOf(struct[i]) = INT THEN "INT" ELSE "STRING", SizeOf(struct[i]))
Members(rel, struct) == [i \in DOMAIN struct |-> MemberRow(rel, struct, i)]
\* Mutant: the second catalog forgets its first row.
createAttrcat_short == Members(RELCAT, SM_RelcatRec) \o Tail(Members(ATTRCAT, SM_AttrcatRec))
createRelcat == <<RelcatRow(RELCAT, sizeof(SM_RelcatRec), 4), RelcatRow(ATTRCAT, sizeof(SM_AttrcatRec), 6)>>
createAttrcat == Members(RELCAT, SM_RelcatRec) \o Members(ATTRCAT, SM_AttrcatRec)

NoTable == [head |-> <<>>, row |-> <<>>, wide |-> FALSE]
PrInit == /\ db = [at |-> "mkdir", dir |-> FALSE, rel |-> <<>>, attr |-> <<>>, ok |-> FALSE]
          /\ shown = NoTable
-----------------------------------------------------------------------------
(* dbcreate.cc and dbdestroy.cc *)
Fail == db' = [db EXCEPT !.at = "failed"]
Mkdir == /\ db.at = "mkdir"
         /\ \/ db' = [db EXCEPT !.at = "relcat", !.dir = TRUE]
            \/ Fail
\* The rows are inserted one by one; the first failure ends the program.  The
\* rm of the error path is then told to remove the directory from inside it.
CreateRelcat == /\ db.at = "relcat"
                /\ \E n \in 0 .. Len(createRelcat), ok \in BOOLEAN :
                      /\ ok => n = Len(createRelcat)
                      /\ db' = [db EXCEPT !.rel = SubSeq(createRelcat, 1, n), !.at = IF ok THEN "attrcat" ELSE "failed"]
CreateAttrcat == /\ db.at = "attrcat"
                 /\ \E n \in 0 .. Len(createAttrcat), ok \in BOOLEAN :
                       /\ ok => n = Len(createAttrcat)
                       /\ db' = [db EXCEPT !.attr = SubSeq(createAttrcat, 1, n),
                                           !.at = IF ok THEN "open" ELSE "failed", !.ok = ok]
\* err_rm when the directory could not be entered.
ChdirFails == /\ db.at = "relcat" /\ db' = [db EXCEPT !.at = "failed", !.dir = FALSE]
Destroy == /\ db.at \in {"open", "failed"} /\ db.dir
           /\ db' = [at |-> "mkdir", dir |-> FALSE, rel |-> <<>>, attr |-> <<>>, ok |-> FALSE]
-----------------------------------------------------------------------------
(* sm_manager.cc *)
AttrsOf(name) == SelectSeq(db.attr, LAMBDA a : a.relName = name)
Exists(name) == \E i \in DOMAIN db.rel : db.rel[i].relName = name
CreateTable(name) ==
    /\ db.at = "open" /\ ~Exists(name)
    /\ LET t == PrTables[name]
           Before(i) == FoldLeft(LAMBDA n, a : n + a.len, 0, SubSeq(t, 1, i - 1))
       IN  db' = [db EXCEPT !.rel = Append(@, RelcatRow(name, Before(Len(t) + 1), Len(t))),
                            !.attr = @ \o [i \in DOMAIN t |-> AttrcatRow(name, t[i].name, Before(i), t[i].type, t[i].len)]]

(* printer.cc: a column is headed by the attribute, with the relation's name *)
(* when two columns bear the attribute's name.                              *)
Title(attrs, i) == IF \E j \in DOMAIN attrs : j # i /\ attrs[j].attrName = attrs[i].attrName
                   THEN Len(attrs[i].relName) + 1 + Len(attrs[i].attrName) ELSE Len(attrs[i].attrName)
Least(m, n) == IF m < n THEN m ELSE n
Most(m, n) == IF m < n THEN n ELSE m
Wanted(attrs, i) == IF attrs[i].attrType = "STRING" THEN Least(attrs[i].attrLength, MAXPRINTSTRING)
                    ELSE Most(12, Title(attrs, i))
psHeader(attrs, i) == IF Wanted(attrs, i) - Title(attrs, i) < 1 THEN Title(attrs, i) + 1 ELSE Title(attrs, i)
spaces(attrs, i) == IF Wanted(attrs, i) - Title(attrs, i) < 1 THEN 0 ELSE Wanted(attrs, i) - Title(attrs, i)
HeadWidth(attrs, i) == psHeader(attrs, i) + spaces(attrs, i)
\* Spaces prints nothing when the value is as long as the column or longer.
Padded(len, width) == Most(len, width)
\* Mutant: strings are padded to their own length only.
Printed_short(attrs, i, len) ==
    LET a == attrs[i]
    IN  IF a.attrType # "STRING" THEN Padded(len, Most(12, psHeader(attrs, i)))
        ELSE Padded(Least(len, a.attrLength), Least(a.attrLength, MAXPRINTSTRING))
Printed(attrs, i, len) ==
    LET a == attrs[i]
    IN  IF a.attrType # "STRING" THEN Padded(len, Most(12, psHeader(attrs, i)))
        ELSE IF a.attrLength > MAXPRINTSTRING THEN Padded(Least(len, MAXPRINTSTRING - 1), MAXPRINTSTRING)
        ELSE Padded(Least(len, a.attrLength), Most(a.attrLength, psHeader(attrs, i)))
Starts(widths) == [i \in DOMAIN widths |-> FoldLeft(LAMBDA n, w : n + w, 0, SubSeq(widths, 1, i - 1))]
\* Lengths for n values: the same for all of them but one.
Lengths(n) == {[[i \in 1 .. n |-> p[1]] EXCEPT ![j] = p[2]] : p \in PrLens \X PrLens, j \in 1 .. n}
Table(attrs, lens) == [head |-> Starts([i \in DOMAIN attrs |-> HeadWidth(attrs, i)]),
                       row |-> Starts([i \in DOMAIN attrs |-> Printed(attrs, i, lens[i])]),
                       wide |-> \E i \in DOMAIN attrs : attrs[i].attrType # "STRING" /\ lens[i] > 12]
\* Help lists a catalog under titles of its own, Print a relation in the order
\* of offsets, and a query several relations side by side.
Help(rel, struct) == /\ db.at = "open"
                     /\ \E lens \in Lengths(Len(struct)) : shown' = Table(Members(rel, struct), lens)
                     /\ UNCHANGED db
PrintTable(name) == /\ db.at = "open" /\ Exists(name)
                    /\ \E lens \in Lengths(Len(AttrsOf(name))) : shown' = Table(AttrsOf(name), lens)
                    /\ UNCHANGED db
PrintJoin(m, n) == /\ db.at = "open" /\ Exists(m) /\ Exists(n)
                   /\ LET attrs == AttrsOf(m) \o AttrsOf(n)
                      IN  \E lens \in Lengths(Len(attrs)) : shown' = Table(attrs, lens)
                   /\ UNCHANGED db

PrNext == \/ (Mkdir \/ CreateRelcat \/ CreateAttrcat \/ ChdirFails \/ Destroy) /\ UNCHANGED shown
          \/ \E n \in DOMAIN PrTables : CreateTable(n) /\ UNCHANGED shown
          \/ Help(RELCAT, SM_RelcatRec) \/ Help(ATTRCAT, SM_AttrcatRec)
          \/ \E n \in DOMAIN PrTables : PrintTable(n)
          \/ \E m, n \in DOMAIN PrTables : PrintJoin(m, n)
PrSpec == PrInit /\ [][PrNext]_prVars
-----------------------------------------------------------------------------
Covers(attrs, bytes) ==
    /\ Head(attrs).offset = 0
    /\ \A i \in 1 .. Len(attrs) - 1 : attrs[i + 1].offset = attrs[i].offset + attrs[i].attrLength
    /\ Last(attrs).offset + Last(attrs).attrLength = bytes

\* The catalogs of a database that can be opened describe every relation,
\* themselves included: as many attributes as are counted, in one row each,
\* that fill the tuple without gap or overlap (dbcreate.cc, CreateTable).
CatalogsDescribe ==
    db.at = "open" => \A i \in DOMAIN db.rel :
        LET attrs == AttrsOf(db.rel[i].relName)
        IN  Len(attrs) = db.rel[i].attrCount /\ Covers(attrs, db.rel[i].tupleLength)

\* The columns of a row start where the head's do, whatever the names and the
\* lengths of the attributes, as long as no number takes more than twelve
\* places (printer.cc).
ColumnsAlign == shown.wide \/ shown.row = shown.head
=============================================================================
