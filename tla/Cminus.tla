------------------------------- MODULE Cminus -------------------------------
(***************************************************************************)
(* The front end of the C-minus compiler: its scanner (cminus.l) and its   *)
(* parser (cminus.y), which makes the tree that Analyze's passes walk.     *)
(* The scanner takes one token per step from a text of characters; the     *)
(* yacc parser is given by the functions of its nonterminals, each of      *)
(* which returns the tree, the place after it and the global savedName.    *)
(* A sibling list is a sequence of nodes.  Line numbers of nodes are left  *)
(* out.                                                                    *)
(***************************************************************************)
EXTENDS Integers, Sequences, SequencesExt, FiniteSetsExt

CONSTANTS CmTrees,     \* syntax trees of programs, as typed
          CmSpaces,    \* what may be typed between two tokens: texts
          CmTexts      \* other texts

VARIABLE cmn           \* the text, the place in it, lineno, the tokens, the tree
cmnVars == <<cmn>>

letter == {"i", "f", "e", "l", "s", "w", "h", "r", "t", "u", "n", "v", "o", "d", "a", "g"}
digit == {"0", "1", "7"}
whitespace == {" ", "\t"}
Keyword == [if |-> <<"i", "f">>, else |-> <<"e", "l", "s", "e">>, while |-> <<"w", "h", "i", "l", "e">>,
            return |-> <<"r", "e", "t", "u", "r", "n">>, int |-> <<"i", "n", "t">>, void |-> <<"v", "o", "i", "d">>,
            then |-> <<"t", "h", "e", "n">>]
Symbol == {"=", "==", "!=", "<", "<=", ">", ">=", "+", "-", "*", "/", "(", ")", "[", "]", "{", "}", ";", ","}
Double == [eq |-> "==", ne |-> "!=", le |-> "<=", ge |-> ">="]
Bind(x, F(_)) == CHOOSE v \in {F(u) : u \in {x}} : TRUE
Tok(k, v) == [t |-> k, v |-> v]
-----------------------------------------------------------------------------
(* Scanner: the longest lexeme at i and, among those, the first rule.      *)
CharAt(b, i) == IF i <= Len(b) THEN b[i] ELSE "EOF"
RunOf(b, i, S) == Min({j \in i .. Len(b) + 1 : j = Len(b) + 1 \/ b[j] \notin S})
\* The rule for comments reads characters with input() to the first */ or to
\* the end of the text.
Closes(b, i, j) == j > i + 2 /\ b[j - 1] = "*" /\ b[j] = "/"
CommentEnd(b, i) == Min({j \in i + 2 .. Len(b) : Closes(b, i, j)} \cup {Len(b)}) + 1
Newlines(b, i, j) == Cardinality({k \in i .. j - 1 : b[k] = "\n"})
Word(w) == IF \E k \in DOMAIN Keyword : Keyword[k] = w
           THEN Tok(CHOOSE k \in DOMAIN Keyword : Keyword[k] = w, w) ELSE Tok("ID", w)
TwoChars(c, d) == CASE c = "=" /\ d = "=" -> "==" [] c = "!" /\ d = "=" -> "!="
                    [] c = "<" /\ d = "=" -> "<=" [] c = ">" /\ d = "=" -> ">=" [] OTHER -> ""
\* One rule applied at i: the place after its lexeme, and the token it
\* returns, if it returns one.
yylex(b, i) ==
    LET c == CharAt(b, i)
        d == CharAt(b, i + 1)
        none == [i |-> i + 1, tok |-> <<>>]
    IN  CASE c \in letter -> [i |-> RunOf(b, i, letter), tok |-> <<Word(SubSeq(b, i, RunOf(b, i, letter) - 1))>>]
          [] c \in digit -> [i |-> RunOf(b, i, digit), tok |-> <<Tok("NUM", SubSeq(b, i, RunOf(b, i, digit) - 1))>>]
          [] c = "\n" -> none
          [] c \in whitespace -> [none EXCEPT !.i = RunOf(b, i, whitespace)]
          [] c = "/" /\ d = "*" -> [none EXCEPT !.i = CommentEnd(b, i)]
          [] TwoChars(c, d) # "" -> [i |-> i + 2, tok |-> <<Tok(TwoChars(c, d), <<c, d>>)>>]
          [] c \in Symbol /\ TwoChars(c, d) = "" /\ ~(c = "/" /\ d = "*") -> [i |-> i + 1, tok |-> <<Tok(c, <<c>>)>>]
          [] OTHER -> [i |-> i + 1, tok |-> <<Tok("ERROR", <<c>>)>>]
-----------------------------------------------------------------------------
(* Parser.  A place s has the next token's number, the tree of what was    *)
(* parsed last and savedName; a syntax error has place 0.                  *)
Fail == [i |-> 0, tree |-> <<>>, saved |-> <<>>]
Then(r, F(_)) == Bind(r, LAMBDA u : IF u.i = 0 THEN Fail ELSE F(u))
Peek(t, s) == IF s.i <= Len(t) THEN t[s.i].t ELSE "EOF"
Shift(s) == [s EXCEPT !.i = @ + 1]
Want(t, s, k) == IF Peek(t, s) = k THEN Shift(s) ELSE Fail
With(s, tree) == [s EXCEPT !.tree = tree]
\* newExpNode, newStmtNode, newDeclNode, newParamNode and newTypeNode.
Node(kind, attr, child) == [kind |-> kind, attr |-> attr, child |-> child]
Type(k) == Node("TypeNameK", <<k>>, <<>>)

saveName(t, s) == IF Peek(t, s) = "ID" THEN [Shift(s) EXCEPT !.saved = t[s.i].v] ELSE Fail
type_spec(t, s) == IF Peek(t, s) \in {"int", "void"} THEN With(Shift(s), <<Type(Peek(t, s))>>) ELSE Fail

RECURSIVE exp(_, _), arg_list(_, _), add_rest(_, _), term_rest(_, _), stmt(_, _), stmt_list(_, _), local_decls(_, _)
var(t, s) ==
    Then(saveName(t, s), LAMBDA u :
        IF Peek(t, u) # "[" THEN With(u, <<Node("IdK", u.saved, <<>>)>>)
        ELSE Then(exp(t, Shift(u)), LAMBDA e : Then(Want(t, e, "]"), LAMBDA w :
                 With(w, <<Node("ArrIdK", u.saved, <<e.tree>>)>>))))
arg_list(t, s) ==
    Then(exp(t, s), LAMBDA e :
        IF Peek(t, e) # "," THEN e
        ELSE Then(arg_list(t, Shift(e)), LAMBDA r : With(r, e.tree \o r.tree)))
args(t, s) == IF Peek(t, s) = ")" THEN With(s, <<>>) ELSE arg_list(t, s)
\* call makes its node before the arguments are parsed; call_late makes it
\* after them, when savedName may be the name of another.
call_late(t, s) ==
    Then(saveName(t, s), LAMBDA u : Then(Want(t, u, "("), LAMBDA o : Then(args(t, o), LAMBDA a :
        Then(Want(t, a, ")"), LAMBDA w : With(w, <<Node("CallK", w.saved, <<a.tree>>)>>)))))
call(t, s) ==
    Then(saveName(t, s), LAMBDA u : Then(Want(t, u, "("), LAMBDA o : Then(args(t, o), LAMBDA a :
        Then(Want(t, a, ")"), LAMBDA w : With(w, <<Node("CallK", u.saved, <<a.tree>>)>>)))))
factor(t, s) ==
    CASE Peek(t, s) = "(" -> Then(exp(t, Shift(s)), LAMBDA e : Then(Want(t, e, ")"), LAMBDA w : With(w, e.tree)))
      [] Peek(t, s) = "NUM" -> With(Shift(s), <<Node("ConstK", t[s.i].v, <<>>)>>)
      [] Peek(t, s) = "ID" /\ Peek(t, Shift(s)) = "(" -> call(t, s)
      [] OTHER -> var(t, s)
\* Left recursion: what was parsed so far is the left operand.
Operand(t, s, l, R(_, _)) ==
    Then(R(t, Shift(s)), LAMBDA r : With(r, <<Node("OpK", <<Peek(t, s)>>, <<l, r.tree>>)>>))
term_rest(t, s) == IF Peek(t, s) \notin {"*", "/"} THEN s
                   ELSE Then(Operand(t, s, s.tree, factor), LAMBDA r : term_rest(t, r))
term(t, s) == Then(factor(t, s), LAMBDA f : term_rest(t, f))
add_rest(t, s) == IF Peek(t, s) \notin {"+", "-"} THEN s
                  ELSE Then(Operand(t, s, s.tree, term), LAMBDA r : add_rest(t, r))
add_exp(t, s) == Then(term(t, s), LAMBDA f : add_rest(t, f))
simple_exp(t, s) == Then(add_exp(t, s), LAMBDA l :
                        IF Peek(t, l) \notin {"<=", "<", ">", ">=", "==", "!="} THEN l
                        ELSE Operand(t, l, l.tree, add_exp))
\* An assignment begins with a variable that = follows.
exp(t, s) ==
    Then(simple_exp(t, s), LAMBDA l :
        IF Peek(t, l) = "=" /\ Peek(t, s) = "ID" /\ l.tree[1].kind \in {"IdK", "ArrIdK"}
        THEN Then(exp(t, Shift(l)), LAMBDA r : With(r, <<Node("AssignK", <<>>, <<l.tree, r.tree>>)>>))
        ELSE l)

var_decl(t, s) ==
    Then(type_spec(t, s), LAMBDA y : Then(saveName(t, y), LAMBDA n :
        IF Peek(t, n) = ";" THEN With(Shift(n), <<Node("VarK", n.saved, <<y.tree>>)>>)
        ELSE Then(Want(t, n, "["), LAMBDA o : Then(Want(t, o, "NUM"), LAMBDA u :
             Then(Want(t, u, "]"), LAMBDA c : Then(Want(t, c, ";"), LAMBDA e :
                 With(e, <<Node("ArrVarK", n.saved \o t[o.i].v, <<y.tree>>)>>)))))))
local_decls(t, s) == IF Peek(t, s) \notin {"int", "void"} THEN With(s, <<>>)
                     ELSE Then(var_decl(t, s), LAMBDA d : Then(local_decls(t, d), LAMBDA r : With(r, d.tree \o r.tree)))
comp_stmt(t, s) ==
    Then(Want(t, s, "{"), LAMBDA o : Then(local_decls(t, o), LAMBDA d : Then(stmt_list(t, d), LAMBDA b :
        Then(Want(t, b, "}"), LAMBDA w : With(w, <<Node("CompK", <<>>, <<d.tree, b.tree>>)>>)))))
\* The statement list ends where no statement can begin.
stmt_list(t, s) == IF Peek(t, s) \in {"}", "EOF"} THEN With(s, <<>>)
                   ELSE Then(stmt(t, s), LAMBDA b : Then(stmt_list(t, b), LAMBDA r : With(r, b.tree \o r.tree)))
exp_stmt(t, s) == IF Peek(t, s) = ";" THEN With(Shift(s), <<>>) ELSE Then(exp(t, s), LAMBDA e : Want(t, e, ";"))
InParens(t, s) == Then(Want(t, s, "("), LAMBDA o : Then(exp(t, o), LAMBDA e : Want(t, e, ")")))
\* sel_stmt: yacc shifts else, to the nearest if.
sel_stmt(t, s) ==
    Then(InParens(t, Shift(s)), LAMBDA e : Then(stmt(t, e), LAMBDA y :
        IF Peek(t, y) # "else" THEN With(y, <<Node("IfK", <<>>, <<e.tree, y.tree, <<>>>>)>>)
        ELSE Then(stmt(t, Shift(y)), LAMBDA n : With(n, <<Node("IfK", <<>>, <<e.tree, y.tree, n.tree>>)>>))))
iter_stmt(t, s) == Then(InParens(t, Shift(s)), LAMBDA e : Then(stmt(t, e), LAMBDA y :
                       With(y, <<Node("IterK", <<>>, <<e.tree, y.tree>>)>>)))
ret_stmt(t, s) == IF Peek(t, Shift(s)) = ";" THEN With(Shift(Shift(s)), <<Node("RetK", <<>>, <<<<>>>>)>>)
                  ELSE Then(exp(t, Shift(s)), LAMBDA e : Then(Want(t, e, ";"), LAMBDA w :
                           With(w, <<Node("RetK", <<>>, <<e.tree>>)>>)))
stmt(t, s) == CASE Peek(t, s) = "{" -> comp_stmt(t, s)
                [] Peek(t, s) = "if" -> sel_stmt(t, s)
                [] Peek(t, s) = "while" -> iter_stmt(t, s)
                [] Peek(t, s) = "return" -> ret_stmt(t, s)
                [] OTHER -> exp_stmt(t, s)

RECURSIVE param_list(_, _), decl_list(_, _)
param(t, s) ==
    Then(type_spec(t, s), LAMBDA y : Then(saveName(t, y), LAMBDA n :
        IF Peek(t, n) # "[" THEN With(n, <<Node("NonArrParamK", n.saved, <<y.tree>>)>>)
        ELSE Then(Want(t, Shift(n), "]"), LAMBDA w : With(w, <<Node("ArrParamK", n.saved, <<y.tree>>)>>))))
param_list(t, s) ==
    Then(param(t, s), LAMBDA p :
        IF Peek(t, p) # "," THEN p
        ELSE Then(param_list(t, Shift(p)), LAMBDA r : With(r, p.tree \o r.tree)))
params(t, s) == IF Peek(t, s) = "void" /\ Peek(t, Shift(s)) = ")" THEN type_spec(t, s) ELSE param_list(t, s)
fun_decl(t, s) ==
    Then(type_spec(t, s), LAMBDA y : Then(saveName(t, y), LAMBDA n : Then(Want(t, n, "("), LAMBDA o :
        Then(params(t, o), LAMBDA p : Then(Want(t, p, ")"), LAMBDA c : Then(comp_stmt(t, c), LAMBDA b :
            With(b, <<Node("FuncK", n.saved, <<y.tree, p.tree, b.tree>>)>>)))))))
decl(t, s) == IF s.i + 2 <= Len(t) /\ t[s.i + 2].t = "(" THEN fun_decl(t, s) ELSE var_decl(t, s)
decl_list(t, s) ==
    Then(decl(t, s), LAMBDA d :
        IF Peek(t, d) = "EOF" THEN d
        ELSE Then(decl_list(t, d), LAMBDA r : With(r, d.tree \o r.tree)))
parse(t) == decl_list(t, [Fail EXCEPT !.i = 1])
-----------------------------------------------------------------------------
(* The text of a tree, with parentheses only where the grammar needs them: *)
(* an expression of level 1 is a simple_exp's operand, of level 2 a term's *)
(* left operand, of level 3 a factor.                                      *)
Sym(k) == <<Tok(k, IF k \in DOMAIN Keyword THEN Keyword[k] ELSE IF k \in {"==", "!=", "<=", ">="} THEN
                   (CASE k = "==" -> <<"=", "=">> [] k = "!=" -> <<"!", "=">>
                      [] k = "<=" -> <<"<", "=">> [] k = ">=" -> <<">", "=">>) ELSE <<k>>)>>
Name(v) == <<Tok("ID", v)>>
Level(n) == CASE n.kind = "AssignK" -> 0
              [] n.kind = "OpK" -> (IF n.attr[1] \in {"*", "/"} THEN 3 ELSE IF n.attr[1] \in {"+", "-"} THEN 2 ELSE 1)
              [] OTHER -> 4
IsExp(n) == n.kind \in {"IdK", "ConstK", "ArrIdK", "CallK", "AssignK", "OpK"}
RECURSIVE Unparse(_, _)
\* The expression or the declarations in a child, and a comma between members.
UnparseAll(list) == FlattenSeq([k \in DOMAIN list |-> Unparse(list[k], 0)])
Listed(list) == FlattenSeq([k \in DOMAIN list |-> (IF k = 1 THEN <<>> ELSE Sym(",")) \o Unparse(list[k], 0)])
\* Statements: an expression is one with its semicolon.
Stmts(list) == FlattenSeq([k \in DOMAIN list |-> Unparse(list[k], 0) \o (IF IsExp(list[k]) THEN Sym(";") ELSE <<>>)])
Branch(list) == IF list = <<>> THEN Sym(";") ELSE Stmts(list)
Unparse(n, level) ==
    IF Level(n) < level /\ level > 0 THEN Sym("(") \o Unparse(n, 0) \o Sym(")")
    ELSE CASE n.kind = "IdK" -> Name(n.attr)
           [] n.kind = "ConstK" -> <<Tok("NUM", n.attr)>>
           [] n.kind = "ArrIdK" -> Name(n.attr) \o Sym("[") \o UnparseAll(n.child[1]) \o Sym("]")
           [] n.kind = "CallK" -> Name(n.attr) \o Sym("(") \o Listed(n.child[1]) \o Sym(")")
           [] n.kind = "AssignK" -> UnparseAll(n.child[1]) \o Sym("=") \o UnparseAll(n.child[2])
           [] n.kind = "OpK" -> Unparse(n.child[1][1], IF Level(n) = 1 THEN 2 ELSE Level(n)) \o Sym(n.attr[1])
                                \o Unparse(n.child[2][1], Level(n) + 1)
           [] n.kind = "TypeNameK" -> Sym(n.attr[1])
           [] n.kind = "VarK" -> UnparseAll(n.child[1]) \o Name(n.attr) \o Sym(";")
           [] n.kind = "ArrVarK" -> UnparseAll(n.child[1]) \o Name(Front(n.attr)) \o Sym("[")
                                    \o <<Tok("NUM", <<Last(n.attr)>>)>> \o Sym("]") \o Sym(";")
           [] n.kind = "NonArrParamK" -> UnparseAll(n.child[1]) \o Name(n.attr)
           [] n.kind = "ArrParamK" -> UnparseAll(n.child[1]) \o Name(n.attr) \o Sym("[") \o Sym("]")
           [] n.kind = "FuncK" -> UnparseAll(n.child[1]) \o Name(n.attr) \o Sym("(") \o Listed(n.child[2]) \o Sym(")")
                                  \o UnparseAll(n.child[3])
           [] n.kind = "CompK" -> Sym("{") \o UnparseAll(n.child[1]) \o Stmts(n.child[2]) \o Sym("}")
           [] n.kind = "IfK" -> Sym("if") \o Sym("(") \o UnparseAll(n.child[1]) \o Sym(")") \o Branch(n.child[2])
                                \o (IF n.child[3] = <<>> THEN <<>> ELSE Sym("else") \o Branch(n.child[3]))
           [] n.kind = "IterK" -> Sym("while") \o Sym("(") \o UnparseAll(n.child[1]) \o Sym(")") \o Branch(n.child[2])
           [] n.kind = "RetK" -> Sym("return") \o UnparseAll(n.child[1]) \o Sym(";")
WordLike(k) == k.t \in {"ID", "NUM"} \cup DOMAIN Keyword
MayTouch(j, k) == ~(WordLike(j) /\ WordLike(k)) /\ ~(Head(k.v) = "=" /\ j.t \in {"=", "!", "<", ">"}) /\ ~(j.t = "/" /\ k.t = "*")
\* Tokens with sp, or a blank where they may not touch, between them.
Typed(toks, sp) ==
    FlattenSeq([k \in DOMAIN toks |->
        toks[k].v \o (IF k = Len(toks) THEN <<>> ELSE IF sp = <<>> /\ ~MayTouch(toks[k], toks[k + 1]) THEN <<" ">> ELSE sp)])
-----------------------------------------------------------------------------
Start(text, want) == [text |-> text, want |-> want, i |-> 1, lineno |-> 1, toks |-> <<>>, tree |-> <<>>, state |-> "scan"]
CmInit == \/ \E want \in CmTrees, sp \in CmSpaces : cmn = Start(Typed(UnparseAll(want), sp), want)
          \/ \E text \in CmTexts : cmn = Start(text, <<>>)
\* getToken, once per rule applied.
getToken ==
    /\ cmn.state = "scan" /\ cmn.i <= Len(cmn.text)
    /\ \E r \in {yylex(cmn.text, cmn.i)} :
          cmn' = [cmn EXCEPT !.i = r.i, !.toks = @ \o r.tok, !.lineno = @ + Newlines(cmn.text, cmn.i, r.i)]
\* yyparse: the tree, if every token was used; else a syntax error.
Parse ==
    /\ cmn.state = "scan" /\ cmn.i > Len(cmn.text)
    /\ \E r \in {parse(cmn.toks)} : cmn' = [cmn EXCEPT !.tree = r.tree, !.state = IF r.i = 0 THEN "error" ELSE "parsed"]
CmNext == getToken \/ Parse
CmSpec == CmInit /\ [][CmNext]_cmnVars
-----------------------------------------------------------------------------
\* The text of a program gives its tokens and its tree back, however it is
\* spaced: operators bind and associate as in the grammar, else goes to the
\* nearest if, and every name is that of its own node although the parser
\* keeps names in one variable (cminus.l, cminus.y).
TreeAsTyped ==
    cmn.want # <<>> =>
        /\ IsPrefix(cmn.toks, UnparseAll(cmn.want))
        /\ cmn.state # "scan" => cmn.state = "parsed" /\ cmn.tree = cmn.want

\* Lines are counted in comments too, and a text that is accepted holds what
\* its tree says (cminus.l, cminus.y).
Bare(toks) == SelectSeq(toks, LAMBDA k : k.t \notin {"(", ")", ";"})
AcceptedMeans == /\ cmn.lineno = 1 + Newlines(cmn.text, 1, cmn.i)
                 /\ cmn.state = "parsed" => Bare(UnparseAll(cmn.tree)) = Bare(cmn.toks)
=============================================================================
