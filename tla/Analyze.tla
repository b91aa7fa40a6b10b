------------------------------ MODULE Analyze ------------------------------
(***************************************************************************)
(* The C-minus compiler.  Its semantic analysis, compiler/compiler         *)
(* analyze.c and symtab.c: buildSymtab and typeCheck walk the syntax tree  *)
(* with a stack of scopes.  The tree is represented by the nodes in the    *)
(* order in which traverse reaches them, a compound statement by its       *)
(* "open" and "close"; buildSymtab's walk chooses the program and          *)
(* typeCheck's walks it again.                                             *)
(* Every expression is an atom, an operator on an atom and a constant, an  *)
(* indexed array or a call with at most one argument, and a program has    *)
(* one statement.  The hand-written scanner is at the end.                 *)
(***************************************************************************)
EXTENDS Integers, Sequences, SequencesExt, FiniteSetsExt

CONSTANTS AFuncs,      \* names of functions
          AVars,       \* names of variables
          AParams,     \* names of parameters
          AnMax,       \* bound on the nodes of a program
          ScTexts,     \* the files: sequences of lines, sequences of characters
          MAXTOKENLEN  \* tokenString has MAXTOKENLEN + 1 bytes

VARIABLES scopes,      \* the scopes: [parent, names: declared name -> its node and type]
          stack,       \* scopeStack
          an,          \* keepLastScope, funcName, Error and the pass
          prog,        \* the nodes
          at,          \* typeCheck: the next node
          bound,       \* declarations that the uses of names were bound to, in each pass
          src,         \* the file: its lines, and how many have been read
          lineBuf,     \* the current line
          linepos,     \* characters of it that have been taken
          tok,         \* getToken: the state of the automaton and tokenString
          toks         \* the tokens returned

anVars == <<scopes, stack, an, prog, at, bound>>

Global == 1
NoDecl == [node |-> 0, t |-> "Void"]

\* globalScope, with the built-in function input (output is alike).
AnInit == /\ scopes = <<[parent |-> 0, names |-> {[n |-> "input", node |-> -1, t |-> "Integer"]}]>>
          /\ stack = <<Global>>
          /\ an = [keepLastScope |-> FALSE, funcName |-> "", Error |-> FALSE, pass |-> "top"]
          /\ prog = <<>> /\ at = 1 /\ bound = <<{}, {}>>
-----------------------------------------------------------------------------
(* The symbol table *)
sc_top == Last(stack)
Within(s, n) == {d \in scopes[s].names : d.n = n}
\* st_lookup: the declaration of n in the innermost scope that has one.
st_lookup(n) ==
    LET chain[k \in 0 .. Len(scopes)] ==
            IF k = 0 THEN sc_top ELSE IF chain[k - 1] = 0 THEN 0 ELSE scopes[chain[k - 1]].parent
        hits == {k \in 0 .. Len(scopes) : chain[k] # 0 /\ Within(chain[k], n) # {}}
    IN  IF hits = {} THEN NoDecl ELSE CHOOSE d \in Within(chain[Min(hits)], n) : TRUE
\* Mutant: the enclosing scopes are searched too.
st_lookup_excluding_parent_all(n) == st_lookup(n) # NoDecl

st_lookup_excluding_parent(n) == Within(sc_top, n) # {}
st_insert(scs, s, n, node, t) == [scs EXCEPT ![s].names = @ \cup {[n |-> n, node |-> node, t |-> t]}]
sc_create == Append(scopes, [parent |-> sc_top, names |-> {}])

Node == Len(prog) + 1
InPass(p) == an.pass \in p /\ Len(prog) < AnMax
Walks(node) == prog' = Append(prog, node) /\ UNCHANGED at
-----------------------------------------------------------------------------
(* buildSymtab: insertNode and afterInsertNode, a node per action *)
InsertFunc(f, t) ==
    /\ InPass({"top"})
    /\ IF st_lookup_excluding_parent(f)
       THEN /\ an' = [an EXCEPT !.funcName = f, !.Error = TRUE, !.pass = "params"]
            /\ UNCHANGED <<scopes, stack>>
       ELSE /\ scopes' = st_insert(sc_create, sc_top, f, Node, t)
            /\ stack' = Append(stack, Len(scopes) + 1)
            /\ an' = [an EXCEPT !.funcName = f, !.keepLastScope = TRUE, !.pass = "params"]
    /\ Walks([op |-> "func", n |-> f, t |-> t])
    /\ UNCHANGED bound

InsertParam(n, t) ==
    /\ InPass({"params"})
    /\ IF st_lookup(n) = NoDecl
       THEN /\ scopes' = st_insert(scopes, sc_top, n, Node, IF t = "Void" THEN "Integer" ELSE t)
            /\ an' = [an EXCEPT !.Error = @ \/ t = "Void"]
       ELSE an' = [an EXCEPT !.Error = TRUE] /\ UNCHANGED scopes
    /\ Walks([op |-> "param", n |-> n, t |-> t])
    /\ UNCHANGED <<stack, bound>>

InsertVar(n, t) ==
    /\ InPass({"top", "decls"})
    /\ IF t = "Void" \/ st_lookup_excluding_parent(n)
       THEN an' = [an EXCEPT !.Error = TRUE] /\ UNCHANGED scopes
       ELSE scopes' = st_insert(scopes, sc_top, n, Node, t) /\ UNCHANGED an
    /\ Walks([op |-> "var", n |-> n, t |-> t])
    /\ UNCHANGED <<stack, bound>>

\* Mutant: the flag is not reset, and inner blocks share the function's scope.
InsertComp_kept ==
    /\ InPass({"params", "decls", "stmts"})
    /\ IF an.keepLastScope THEN UNCHANGED <<scopes, stack>>
       ELSE scopes' = sc_create /\ stack' = Append(stack, Len(scopes) + 1)
    /\ an' = [an EXCEPT !.pass = "decls"]
    /\ Walks([op |-> "open", scope |-> Last(stack')])
    /\ UNCHANGED bound

InsertComp ==
    /\ InPass({"params", "decls", "stmts"})
    /\ IF an.keepLastScope THEN UNCHANGED <<scopes, stack>>
       ELSE scopes' = sc_create /\ stack' = Append(stack, Len(scopes) + 1)
    /\ an' = [an EXCEPT !.keepLastScope = FALSE, !.pass = "decls"]
    /\ Walks([op |-> "open", scope |-> Last(stack')])
    /\ UNCHANGED bound

AfterComp ==
    /\ an.pass \in {"decls", "stmts"}
    /\ stack' = Front(stack)
    /\ an' = [an EXCEPT !.pass = IF Len(stack) = 2 THEN "top" ELSE "stmts"]
    /\ Walks([op |-> "close"])
    /\ UNCHANGED <<scopes, bound>>

\* A statement: an assignment, a test of an if or while, or a return.
Const == [k |-> "const"]
NoExp == [k |-> "none"]
Atoms == {Const} \cup [k : {"id"}, n : AVars \cup AParams] \cup [k : {"call"}, n : AFuncs]
Exps == Atoms \cup [k : {"op"}, l : Atoms, r : {Const}]
              \cup [k : {"index"}, n : AVars, i : Atoms] \cup [k : {"call1"}, n : AFuncs, arg : Atoms]
Names(e) == CASE e.k \in {"id", "call"} -> {e.n} [] e.k \in {"const", "none"} -> {}
AllNames(e) == CASE e.k = "op" -> Names(e.l) \cup Names(e.r) [] e.k = "index" -> {e.n} \cup Names(e.i)
                 [] e.k = "call1" -> {e.n} \cup Names(e.arg) [] OTHER -> Names(e)
Stmts == [op : {"assign"}, n : AVars, e : Exps] \cup [op : {"test"}, e : Exps]
            \cup [op : {"return"}, e : Atoms \cup {NoExp}]
Used(s) == AllNames(s.e) \cup (IF s.op = "assign" THEN {s.n} ELSE {})
Bind(pass, node, s) ==
    bound' = [bound EXCEPT ![pass] = @ \cup {<<node, n, st_lookup(n).node>> : n \in Used(s)}]

InsertStmt(s) ==
    /\ InPass({"decls", "stmts"}) /\ ~\E i \in DOMAIN prog : prog[i].op \in {"assign", "test", "return"}
    /\ an' = [an EXCEPT !.pass = "stmts", !.Error = @ \/ \E n \in Used(s) : st_lookup(n) = NoDecl]
    /\ Walks(s) /\ Bind(1, Node, s)
    /\ UNCHANGED <<scopes, stack>>

\* The end of buildSymtab and the beginning of typeCheck.
TypeCheck == /\ an.pass = "top" /\ prog # <<>>
             /\ stack' = <<Global>> /\ an' = [an EXCEPT !.pass = "check"]
             /\ UNCHANGED <<scopes, prog, at, bound>>
-----------------------------------------------------------------------------
(* typeCheck: beforeCheckNode and checkNode *)
\* The type of an expression, and whether checking it finds an error.  An
\* expression with an error keeps the type Void of newExpNode.
AtomType(look(_), e) == IF e.k \in {"id", "call"} THEN look(e.n) ELSE IF e.k = "const" THEN "Integer" ELSE "Void"
ExpError(look(_), e) ==
    CASE e.k = "op" -> AtomType(look, e.l) # "Integer" \/ AtomType(look, e.r) # "Integer"
      [] e.k = "index" -> AtomType(look, e.i) # "Integer"
      [] e.k = "call1" -> AtomType(look, e.arg) = "Void"
      [] OTHER -> FALSE
ExpType(look(_), e) ==
    CASE e.k \in {"op", "index"} -> IF ExpError(look, e) THEN "Void" ELSE "Integer"
      [] e.k = "call1" -> look(e.n)
      [] OTHER -> AtomType(look, e)
StmtError(look(_), s, f) ==
    \/ ExpError(look, s.e)
    \/ s.op = "assign" /\ (look(s.n) = "IntegerArray" \/ ExpType(look, s.e) = "Void")
    \/ s.op = "test" /\ ExpType(look, s.e) = "Void"
    \/ s.op = "return" /\ f = "Void" /\ ExpType(look, s.e) # "Void"
    \/ s.op = "return" /\ f = "Integer" /\ ExpType(look, s.e) = "Void"

Look(n) == st_lookup(n).t
CheckNode ==
    LET d == prog[at]
    IN  /\ an.pass = "check" /\ at <= Len(prog)
        /\ at' = at + 1
        /\ stack' = CASE d.op = "open" -> Append(stack, d.scope)
                      [] d.op = "close" -> Front(stack)
                      [] OTHER -> stack
        /\ an' = CASE d.op = "func" -> [an EXCEPT !.funcName = d.n]
                   [] d.op \in {"assign", "test", "return"} ->
                        [an EXCEPT !.Error = @ \/ StmtError(Look, d, Look(an.funcName))]
                   [] OTHER -> an
        /\ IF d.op \in {"assign", "test", "return"} THEN Bind(2, at, d) ELSE UNCHANGED bound
        /\ UNCHANGED <<scopes, prog>>

Analyzed == an.pass = "check" /\ at > Len(prog)

AnNext == \/ \E f \in AFuncs, t \in {"Integer", "Void"} : InsertFunc(f, t)
          \/ \E n \in AParams, t \in {"Integer", "IntegerArray", "Void"} : InsertParam(n, t)
          \/ \E n \in AVars, t \in {"Integer", "IntegerArray", "Void"} : InsertVar(n, t)
          \/ InsertComp \/ AfterComp
          \/ \E s \in Stmts : InsertStmt(s)
          \/ TypeCheck \/ CheckNode

AnSpec == AnInit /\ [][AnNext]_anVars
-----------------------------------------------------------------------------
(* What a program means, from the order and the nesting of its nodes *)
Depth(i) == Quantify(1 .. i, LAMBDA j : prog[j].op = "open") - Quantify(1 .. i, LAMBDA j : prog[j].op = "close")
\* The block that a declaration belongs to ends where the nesting falls
\* below the one it needs: the body's for a parameter.
Needs(i) == IF prog[i].op = "param" THEN 1 ELSE Depth(i)
Ends(i) == \* the first node outside the block of declaration i
    LET body == IF prog[i].op = "param" THEN Min({j \in i .. Len(prog) : prog[j].op = "open"}) ELSE i
        out == {j \in body .. Len(prog) : Depth(j) < Needs(i)}
    IN  IF out = {} THEN Len(prog) + 1 ELSE Min(out)
IsDecl(i) == prog[i].op \in {"var", "param", "func"}
\* The declarations of n that node i can see, and the innermost of them.
Seen(i, n) == {j \in 1 .. i - 1 : IsDecl(j) /\ prog[j].n = n /\ i < Ends(j)}
Meant(i, n) == IF Seen(i, n) = {} THEN 0
               ELSE CHOOSE j \in Seen(i, n) : \A k \in Seen(i, n) : Needs(k) <= Needs(j) /\ k <= j
Function(i) == Max({j \in 1 .. i : prog[j].op = "func"})
Clash(i) == /\ IsDecl(i)
            /\ \E j \in 1 .. i - 1 : /\ IsDecl(j) /\ prog[j].n = prog[i].n /\ i < Ends(j)
                                     /\ Needs(i) = Needs(j)
Faulty(i) ==
    \/ Clash(i)
    \/ prog[i].op \in {"var", "param"} /\ prog[i].t = "Void"
    \/ /\ prog[i].op \in {"assign", "test", "return"}
       /\ \/ \E n \in Used(prog[i]) : Meant(i, n) = 0
          \/ StmtError(LAMBDA n : prog[Meant(i, n)].t, prog[i], prog[Function(i)].t)

\* The analysis accepts a program exactly if every name it uses has been
\* declared in the blocks around it, no block declares a name twice and the
\* innermost declarations give types that fit.
JudgedRight == Analyzed => (an.Error <=> \E i \in DOMAIN prog : Faulty(i))

\* typeCheck finds every name where buildSymtab found it, and the scopes
\* opened have all been closed when a pass ends.
PassesAgree == Analyzed => /\ stack = <<Global>>
                           /\ \A b \in bound[1] : b[3] = 0 \/ b \in bound[2]
-----------------------------------------------------------------------------
(* The hand-written scanner, compiler/project1 scan.c: getToken, one       *)
(* character per step.  A character is represented by its class: "a" a     *)
(* letter, "1" a digit, " " a blank or the end of a line, ";" any token of *)
(* one character, "?" any other character.  reservedLookup turns an ID     *)
(* into a keyword and is left out.                                         *)
scVars == <<src, lineBuf, linepos, tok, toks>>

EOF == "EOF"
Begin == [state |-> "START", token |-> "", string |-> <<>>]

ScStart(t) == /\ src = [lines |-> t, read |-> 0, eof |-> FALSE]
              /\ lineBuf = <<>> /\ linepos = 0
              /\ tok = Begin /\ toks = <<>>
ScInit == \E t \in ScTexts : ScStart(t)

\* getNextChar: the next character, its line and position, and the file after
\* it.  What precedes lineBuf in memory is not a character of the file.
getNextChar ==
    IF linepos < Len(lineBuf)
    THEN [c |-> IF linepos < 0 THEN "?" ELSE lineBuf[linepos + 1],
          buf |-> lineBuf, pos |-> linepos + 1, src |-> src]
    ELSE IF src.read < Len(src.lines)
    THEN [c |-> src.lines[src.read + 1][1], buf |-> src.lines[src.read + 1], pos |-> 1,
          src |-> [src EXCEPT !.read = @ + 1]]
    ELSE [c |-> EOF, buf |-> lineBuf, pos |-> linepos, src |-> [src EXCEPT !.eof = TRUE]]

\* What one character does: the next state, the token if it is complete,
\* whether the character is saved and how often ungetNextChar is called.
To(state, save) == [state |-> state, token |-> "", save |-> save, unget |-> 0]
Token(token, save, unget) == [state |-> "DONE", token |-> token, save |-> save, unget |-> unget]

FromStart(c) ==
    CASE c = "1" -> To("INNUM", TRUE) [] c = "a" -> To("INID", TRUE) [] c = "=" -> To("INEQ", TRUE)
      [] c = "<" -> To("INLT", TRUE) [] c = ">" -> To("INGT", TRUE) [] c = "!" -> To("INNE", TRUE)
      [] c = "/" -> To("INOVER", FALSE) [] c = " " -> To("START", FALSE)
      [] c = EOF -> Token("ENDFILE", FALSE, 0) [] c = "?" -> Token("ERROR", TRUE, 0)
      [] OTHER -> Token(c, TRUE, 0)

\* Mutant: a blank after the asterisk ends the comment too.
InComment_end(state, c) ==
    IF c = EOF THEN Token("ENDFILE", FALSE, 0)
    ELSE To(IF state = "INCOMMENT_" /\ c \in {"/", " "} THEN "START"
            ELSE IF c = "*" THEN "INCOMMENT_" ELSE "INCOMMENT", FALSE)

InComment(state, c) ==
    IF c = EOF THEN Token("ENDFILE", FALSE, 0)
    ELSE IF state = "INCOMMENT" THEN To(IF c = "*" THEN "INCOMMENT_" ELSE "INCOMMENT", FALSE)
    ELSE To(IF c = "/" THEN "START" ELSE "INCOMMENT", FALSE)

\* case INLT has no break and runs on into INGT, and that into INNE.
Relational(n, c) == IF c = "=" THEN Token("!=", TRUE, 0) ELSE Token("ERROR", FALSE, n)

Advance(state, c) ==
    CASE state = "START" -> FromStart(c)
      [] state = "INOVER" -> IF c = "*" THEN To("INCOMMENT", FALSE) ELSE Token("/", FALSE, 1)
      [] state \in {"INCOMMENT", "INCOMMENT_"} -> InComment(state, c)
      [] state = "INEQ" -> IF c = "=" THEN Token("==", TRUE, 0) ELSE Token("=", FALSE, 1)
      [] state = "INLT" -> Relational(3, c)
      [] state = "INGT" -> Relational(2, c)
      [] state = "INNE" -> Relational(1, c)
      [] state = "INNUM" -> IF c = "1" THEN To("INNUM", TRUE) ELSE Token("NUM", FALSE, 1)
      [] state = "INID" -> IF c = "a" THEN To("INID", TRUE) ELSE Token("ID", FALSE, 1)

\* One turn of the loop of getToken.
getToken ==
    LET n == getNextChar
        s == Advance(tok.state, n.c)
        str == IF s.save /\ Len(tok.string) <= MAXTOKENLEN THEN Append(tok.string, n.c) ELSE tok.string
    IN  /\ \A i \in DOMAIN toks : toks[i].token # "ENDFILE"
        /\ src' = n.src /\ lineBuf' = n.buf
        /\ linepos' = IF n.src.eof THEN n.pos ELSE n.pos - s.unget
        /\ IF s.state = "DONE"
           THEN tok' = Begin /\ toks' = Append(toks, [token |-> s.token, string |-> str])
           ELSE tok' = [tok EXCEPT !.state = s.state, !.string = str] /\ UNCHANGED toks

ScSpec == ScInit /\ [][getToken]_scVars
-----------------------------------------------------------------------------
(* What the tokens of a text are, by the longest match *)
CharAt(t, i) == IF i \in DOMAIN t THEN t[i] ELSE EOF
Run(t, i) == Max({j \in i .. Len(t) : \A k \in i .. j : t[k] = t[i]})
CommentEnd(t, i) ==
    LET ends == {j \in i + 3 .. Len(t) : t[j - 1] = "*" /\ t[j] = "/"}
    IN  IF ends = {} THEN Len(t) ELSE Min(ends)
Pairs == {"==", "!=", "<=", ">="}
Two(c, d) == CASE <<c, d>> = <<"=", "=">> -> "==" [] <<c, d>> = <<"!", "=">> -> "!="
               [] <<c, d>> = <<"<", "=">> -> "<=" [] <<c, d>> = <<">", "=">> -> ">="
               [] <<c, d>> = <<"/", "*">> -> "comment" [] OTHER -> ""
\* The token at i with the position behind it; a blank or a comment is none.
Lexeme(t, i) ==
    LET c == CharAt(t, i)  two == Two(c, CharAt(t, i + 1))
    IN  CASE c = EOF -> [token |-> "ENDFILE", next |-> i + 1]
          [] c = " " -> [token |-> "", next |-> i + 1]
          [] c = "a" -> [token |-> "ID", next |-> Run(t, i) + 1]
          [] c = "1" -> [token |-> "NUM", next |-> Run(t, i) + 1]
          [] two = "comment" -> [token |-> "", next |-> CommentEnd(t, i) + 1]
          [] two \in Pairs -> [token |-> two, next |-> i + 2]
          [] two = "" /\ c \in {"!", "?"} -> [token |-> "ERROR", next |-> i + 1]
          [] OTHER -> [token |-> c, next |-> i + 1]
Lexemes(t) ==
    LET f[n \in 0 .. Len(t) + 1] ==
            IF n = 0 THEN [toks |-> <<>>, at |-> 1]
            ELSE IF f[n - 1].at > Len(t) + 1 THEN f[n - 1]
            ELSE LET l == Lexeme(t, f[n - 1].at)
                 IN  [toks |-> IF l.token = "" THEN f[n - 1].toks ELSE Append(f[n - 1].toks, l.token),
                      at |-> l.next]
    IN  f[Len(t) + 1].toks

\* getToken returns the tokens of the file by the longest match, in order:
\* no character is lost, read twice or taken into the wrong token.  The
\* scanner that flex makes of cminus.l says the same of the relational
\* operators: cminus.l:40 and 41, "<" {return LT;} and "<=" {return LE;}.
TokensRight == tok = Begin => IsPrefix([i \in DOMAIN toks |-> toks[i].token], Lexemes(FlattenSeq(src.lines)))
=============================================================================
