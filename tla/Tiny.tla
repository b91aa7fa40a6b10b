-------------------------------- MODULE Tiny --------------------------------
(***************************************************************************)
(* The TINY compiler and the machine its code runs on, compiler/project1:  *)
(* parse.c, analyze.c, symtab.c, cgen.c, code.c and tm.c.  A token is      *)
(* [t, v], v the value of a NUM or the number of an ID's name.  A node of  *)
(* the tree is a record; a list of siblings is a sequence.  Integers have  *)
(* the width TmHalf gives them and wrap.                                   *)
(***************************************************************************)
EXTENDS Integers, FiniteSets, Sequences, SequencesExt, TLC

CONSTANTS TnPrograms,    \* syntax trees of programs
          TnTexts,       \* further sequences of tokens
          TnInputs,      \* values for IN
          TmHalf,        \* integers are -TmHalf .. TmHalf - 1
          DADDR_SIZE,    \* words of data memory
          TnFuel,        \* bound on the iterations of a loop in TnPrograms
          TnReads,       \* bound on the values read in an execution
          TnRuns         \* bound on the executions of a program

VARIABLES tn,            \* the compilation: tokens, tree, code and errors
          tm,            \* the machine: reg, dMem, iMem and the last step's result
          io             \* values read and written, and the number of executions

tnVars == <<tn, tm, io>>

Null == [k |-> "null"]
T(t) == [t |-> t, v |-> 0]
-----------------------------------------------------------------------------
(* parse.c.  A procedure is an operator on the position of the current      *)
(* token; it returns the tree it built, the position it left and whether    *)
(* there was a syntax error.  r is the procedures as a function.            *)
token(toks, i) == IF i <= Len(toks) THEN toks[i].t ELSE "ENDFILE"
getTok(toks, i) == IF i <= Len(toks) THEN i + 1 ELSE i
match(toks, i, expected) == IF token(toks, i) = expected THEN getTok(toks, i) ELSE i
Built(t, i, err) == [t |-> t, i |-> i, err |-> err]
Unexpected(toks, i) == Built(Null, getTok(toks, i), TRUE)
Op(op, l, r) == [k |-> "op", op |-> op, l |-> l, r |-> r]

factor(toks, r, i) ==
    CASE token(toks, i) = "NUM" -> Built([k |-> "const", v |-> toks[i].v], i + 1, FALSE)
      [] token(toks, i) = "ID" -> Built([k |-> "id", v |-> toks[i].v], i + 1, FALSE)
      [] token(toks, i) = "(" -> LET e == r[<<"exp", i + 1>>]
                                 IN  Built(e.t, match(toks, e.i, ")"), e.err \/ token(toks, e.i) # ")")
      [] OTHER -> Unexpected(toks, i)
\* The rest of the loop of term or simple_exp: operators and right operands.
Loop(toks, r, i, ops, loop, operand) ==
    IF token(toks, i) \notin ops THEN Built(<<>>, i, FALSE)
    ELSE LET e == r[<<operand, i + 1>>]
             rest == r[<<loop, e.i>>]
         IN  Built(<<<<token(toks, i), e.t>>>> \o rest.t, rest.i, e.err \/ rest.err)
\* Mutant: the operators associate to the right.
Left_right(r, i, loop, operand) ==
    LET e == r[<<operand, i>>]
        rest == r[<<loop, e.i>>]
        n == Len(rest.t)
        Operand(j) == IF j = 0 THEN e.t ELSE rest.t[j][2]
        tree[j \in 0 .. n] == IF j = n THEN Operand(j) ELSE Op(rest.t[j + 1][1], Operand(j), tree[j + 1])
    IN  Built(tree[0], rest.i, e.err \/ rest.err)

Left(r, i, loop, operand) ==
    LET e == r[<<operand, i>>]
        rest == r[<<loop, e.i>>]
    IN  Built(FoldLeft(LAMBDA l, x : Op(x[1], l, x[2]), e.t, rest.t), rest.i, e.err \/ rest.err)
exp(toks, r, i) ==
    LET l == r[<<"simple_exp", i>>]
        e == r[<<"simple_exp", getTok(toks, l.i)>>]
    IN  IF token(toks, l.i) \notin {"<", "="} THEN l
        ELSE Built(Op(token(toks, l.i), l.t, e.t), e.i, l.err \/ e.err)

if_stmt(toks, r, i) ==
    LET test == r[<<"exp", i + 1>>]
        yes == r[<<"stmt_sequence", match(toks, test.i, "then")>>]
        no == IF token(toks, yes.i) = "else" THEN r[<<"stmt_sequence", yes.i + 1>>]
              ELSE Built(<<>>, yes.i, FALSE)
    IN  Built([k |-> "if", test |-> test.t, yes |-> yes.t, no |-> no.t], match(toks, no.i, "end"),
              \/ test.err \/ token(toks, test.i) # "then" \/ yes.err
              \/ no.err \/ token(toks, no.i) # "end")
repeat_stmt(toks, r, i) ==
    LET body == r[<<"stmt_sequence", i + 1>>]
        test == r[<<"exp", match(toks, body.i, "until")>>]
    IN  Built([k |-> "repeat", body |-> body.t, test |-> test.t], test.i,
              body.err \/ token(toks, body.i) # "until" \/ test.err)
assign_stmt(toks, r, i) ==
    LET e == r[<<"exp", match(toks, i + 1, ":=")>>]
    IN  Built([k |-> "assign", v |-> toks[i].v, e |-> e.t], e.i, e.err \/ token(toks, i + 1) # ":=")
read_stmt(toks, i) ==
    IF token(toks, i + 1) = "ID" THEN Built([k |-> "read", v |-> toks[i + 1].v], i + 2, FALSE)
    ELSE Built([k |-> "read", v |-> 0], i + 1, TRUE)
write_stmt(r, i) ==
    LET e == r[<<"exp", i + 1>>] IN Built([k |-> "write", e |-> e.t], e.i, e.err)
statement(toks, r, i) ==
    CASE token(toks, i) = "if" -> if_stmt(toks, r, i)
      [] token(toks, i) = "repeat" -> repeat_stmt(toks, r, i)
      [] token(toks, i) = "ID" -> assign_stmt(toks, r, i)
      [] token(toks, i) = "read" -> read_stmt(toks, i)
      [] token(toks, i) = "write" -> write_stmt(r, i)
      [] OTHER -> Unexpected(toks, i)
stmt_sequence(toks, r, i) ==
    LET s == r[<<"statement", i>>]
        t == IF s.t = Null THEN <<>> ELSE <<s.t>>
        rest == r[<<"stmt_sequence", match(toks, s.i, ";")>>]
    IN  IF token(toks, s.i) \in {"ENDFILE", "end", "else", "until"} THEN Built(t, s.i, s.err)
        ELSE Built(t \o rest.t, rest.i, s.err \/ token(toks, s.i) # ";" \/ rest.err)
Rules == {"stmt_sequence", "statement", "exp", "simple_exp", "term", "factor", "terms", "factors"}
parse(toks) ==
    LET r[c \in Rules \X (1 .. Len(toks) + 1)] ==
            CASE c[1] = "stmt_sequence" -> stmt_sequence(toks, r, c[2])
              [] c[1] = "statement" -> statement(toks, r, c[2])
              [] c[1] = "exp" -> exp(toks, r, c[2])
              [] c[1] = "simple_exp" -> Left(r, c[2], "terms", "term")
              [] c[1] = "terms" -> Loop(toks, r, c[2], {"+", "-"}, "terms", "term")
              [] c[1] = "term" -> Left(r, c[2], "factors", "factor")
              [] c[1] = "factors" -> Loop(toks, r, c[2], {"*", "/"}, "factors", "factor")
              [] c[1] = "factor" -> factor(toks, r, c[2])
        s == r[<<"stmt_sequence", 1>>]
    IN  [tree |-> s.t, err |-> s.err \/ token(toks, s.i) # "ENDFILE"]
-----------------------------------------------------------------------------
(* analyze.c: names in the order in which traverse meets them, and types *)
RECURSIVE ExpNames(_), SeqNames(_), SeqError(_)
ExpNames(e) == CASE e.k = "id" -> <<e.v>> [] e.k = "op" -> ExpNames(e.l) \o ExpNames(e.r) [] OTHER -> <<>>
StmtNames(s) ==
    CASE s.k = "assign" -> <<s.v>> \o ExpNames(s.e) [] s.k = "read" -> <<s.v>>
      [] s.k = "write" -> ExpNames(s.e)
      [] s.k = "if" -> ExpNames(s.test) \o SeqNames(s.yes) \o SeqNames(s.no)
      [] s.k = "repeat" -> SeqNames(s.body) \o ExpNames(s.test)
SeqNames(t) == FlattenSeq([i \in DOMAIN t |-> StmtNames(t[i])])
\* st_lookup: the location given to a name when it was first inserted.
st_loc(names, n) ==
    LET first == CHOOSE i \in DOMAIN names : names[i] = n /\ \A j \in 1 .. i - 1 : names[j] # n
    IN  Cardinality({names[j] : j \in 1 .. first - 1})
IsTest(e) == e.k = "op" /\ e.op \in {"<", "="}
RECURSIVE OpError(_)
OpError(e) == e.k = "op" /\ (IsTest(e.l) \/ IsTest(e.r) \/ OpError(e.l) \/ OpError(e.r))
StmtTypeError(s) ==
    CASE s.k \in {"assign", "write"} -> OpError(s.e) \/ IsTest(s.e)
      [] s.k = "if" -> OpError(s.test) \/ ~IsTest(s.test) \/ SeqError(s.yes) \/ SeqError(s.no)
      [] s.k = "repeat" -> SeqError(s.body) \/ OpError(s.test) \/ ~IsTest(s.test)
      [] OTHER -> FALSE
SeqError(t) == \E i \in DOMAIN t : StmtTypeError(t[i])
-----------------------------------------------------------------------------
(* code.c and cgen.c: g is emitLoc, highEmitLoc, tmpOffset and the file *)
ac == 0
ac1 == 1
gp == 5
mp == 6
pc == 7
Higher(a, b) == IF a > b THEN a ELSE b
emit(g, op, r, a, b) ==
    [g EXCEPT !.loc = @ + 1, !.high = Higher(@, g.loc + 1),
              !.lines = Append(@, [loc |-> g.loc, op |-> op, r |-> r, a |-> a, b |-> b])]
emitSkip(g, n) == [g EXCEPT !.loc = @ + n, !.high = Higher(@, g.loc + n)]
emitBackup(g, loc) == [g EXCEPT !.loc = loc]
emitRestore(g) == [g EXCEPT !.loc = g.high]
emitRM_Abs(g, op, r, a) == emit(g, op, r, a - (g.loc + 1), pc)
\* The jump from the skipped location to where the code has come.
Backpatch(g, saved, op, r) == emitRestore(emitRM_Abs(emitBackup(g, saved), op, r, g.loc))
Compare(g, jump) == emit(emit(emit(emit(emit(g, "SUB", ac, ac1, ac), jump, ac, 2, pc),
                         "LDC", ac, 0, ac), "LDA", pc, 1, pc), "LDC", ac, 1, ac)

RECURSIVE genExp(_, _, _), cGen(_, _, _)

genExp(names, g, e) ==
    CASE e.k = "const" -> emit(g, "LDC", ac, e.v, 0)
      [] e.k = "id" -> emit(g, "LD", ac, st_loc(names, e.v), gp)
      [] e.k = "op" ->
           LET l == [emit(genExp(names, g, e.l), "ST", ac, g.tmp, mp) EXCEPT !.tmp = g.tmp - 1]
               r == genExp(names, l, e.r)
               q == [emit(r, "LD", ac1, r.tmp + 1, mp) EXCEPT !.tmp = r.tmp + 1]
           IN  CASE e.op = "+" -> emit(q, "ADD", ac, ac1, ac) [] e.op = "-" -> emit(q, "SUB", ac, ac1, ac)
                 [] e.op = "*" -> emit(q, "MUL", ac, ac1, ac) [] e.op = "/" -> emit(q, "DIV", ac, ac1, ac)
                 [] e.op = "<" -> Compare(q, "JLT") [] e.op = "=" -> Compare(q, "JEQ")

genIf(names, g, s) ==
    LET test == genExp(names, g, s.test)
        yes == cGen(names, emitSkip(test, 1), s.yes)
        no == cGen(names, Backpatch(emitSkip(yes, 1), test.loc, "JEQ", ac), s.no)
    IN  Backpatch(no, yes.loc, "LDA", pc)
genStmt(names, g, s) ==
    CASE s.k = "if" -> genIf(names, g, s)
      [] s.k = "repeat" -> emitRM_Abs(genExp(names, cGen(names, g, s.body), s.test), "JEQ", ac, g.loc)
      [] s.k = "assign" -> emit(genExp(names, g, s.e), "ST", ac, st_loc(names, s.v), gp)
      [] s.k = "read" -> emit(emit(g, "IN", ac, 0, 0), "ST", ac, st_loc(names, s.v), gp)
      [] s.k = "write" -> emit(genExp(names, g, s.e), "OUT", ac, 0, 0)
cGen(names, g, t) == IF t = <<>> THEN g ELSE cGen(names, genStmt(names, g, Head(t)), Tail(t))
codeGen(tree) ==
    LET g == [loc |-> 0, high |-> 0, tmp |-> 0, lines |-> <<>>]
        prelude == emit(emit(g, "LD", mp, 0, ac), "ST", ac, 0, ac)
    IN  emit(cGen(SeqNames(tree), prelude, tree), "HALT", 0, 0, 0).lines
-----------------------------------------------------------------------------
(* tm.c *)
\* readInstructions: the lines, in any order, and HALT everywhere else.
IADDR_SIZE == 61
Halt == [op |-> "HALT", r |-> 0, a |-> 0, b |-> 0]
readInstructions(lines) ==
    [l \in 0 .. IADDR_SIZE - 1 |-> IF \E i \in DOMAIN lines : lines[i].loc = l
                       THEN LET i == CHOOSE i \in DOMAIN lines :
                                        lines[i].loc = l /\ \A j \in DOMAIN lines : lines[j].loc = l => j <= i
                            IN  [op |-> lines[i].op, r |-> lines[i].r, a |-> lines[i].a, b |-> lines[i].b]
                       ELSE Halt]
Clear == [reg |-> [r \in 0 .. 7 |-> 0],
          dMem |-> [m \in 0 .. DADDR_SIZE - 1 |-> IF m = 0 THEN DADDR_SIZE - 1 ELSE 0],
          result |-> "OKAY"]
Wrap(n) == ((n + TmHalf) % (2 * TmHalf)) - TmHalf
Abs(n) == IF n < 0 THEN -n ELSE n
\* C's division.
Quotient(a, b) == IF (a < 0) = (b < 0) THEN Abs(a) \div Abs(b) ELSE -(Abs(a) \div Abs(b))
Jumps(op, n) == CASE op = "JLT" -> n < 0 [] op = "JLE" -> n <= 0 [] op = "JGT" -> n > 0
                  [] op = "JGE" -> n >= 0 [] op = "JEQ" -> n = 0 [] op = "JNE" -> n # 0

Code(toks) == LET c == parse(toks)
              IN  [toks |-> toks, tree |-> c.tree, err |-> c.err,
                   badType |-> IF c.err THEN FALSE ELSE SeqError(c.tree)]
Unused == [reg |-> <<>>, dMem |-> <<>>, result |-> "none"]
RECURSIVE Unparse(_), UnparseSeq(_)
Level(e) == IF e.k # "op" THEN 3 ELSE IF e.op \in {"*", "/"} THEN 2 ELSE IF e.op \in {"+", "-"} THEN 1 ELSE 0
Paren(e, least) == IF Level(e) >= least THEN Unparse(e) ELSE <<T("(")>> \o Unparse(e) \o <<T(")")>>
\* The tokens of a tree, with the parentheses it needs.
Unparse(e) ==
    CASE e.k = "const" -> <<[t |-> "NUM", v |-> e.v]>> [] e.k = "id" -> <<[t |-> "ID", v |-> e.v]>>
      [] e.k = "op" -> Paren(e.l, IF Level(e) = 0 THEN 1 ELSE Level(e)) \o <<T(e.op)>> \o Paren(e.r, Level(e) + 1)
UnparseStmt(s) ==
    CASE s.k = "assign" -> <<[t |-> "ID", v |-> s.v], T(":=")>> \o Unparse(s.e)
      [] s.k = "read" -> <<T("read"), [t |-> "ID", v |-> s.v]>>
      [] s.k = "write" -> <<T("write")>> \o Unparse(s.e)
      [] s.k = "repeat" -> <<T("repeat")>> \o UnparseSeq(s.body) \o <<T("until")>> \o Unparse(s.test)
      [] s.k = "if" -> <<T("if")>> \o Unparse(s.test) \o <<T("then")>> \o UnparseSeq(s.yes)
                       \o (IF s.no = <<>> THEN <<>> ELSE <<T("else")>> \o UnparseSeq(s.no)) \o <<T("end")>>
UnparseSeq(t) == IF Len(t) = 1 THEN UnparseStmt(t[1])
                 ELSE UnparseStmt(t[1]) \o <<T(";")>> \o UnparseSeq(Tail(t))

Texts == {UnparseSeq(t) : t \in TnPrograms} \cup TnTexts
NoIo == [in |-> <<>>, out |-> <<>>, runs |-> 0]
TnStart(toks) == tn = Code(toks) /\ tm = Unused /\ io = NoIo
TnInit == \E toks \in Texts : TnStart(toks)

\* The code is generated if there was no error, and tm started with it.
Accepted == ~tn.err /\ ~tn.badType
Start == /\ tm.result = "none" /\ Accepted
         /\ tm' = Clear @@ [iMem |-> readInstructions(codeGen(tn.tree))]
         /\ UNCHANGED <<tn, io>>

\* stepTM, the loop of the command go.
In(r) == \E n \in TnInputs : /\ Len(io.in) < TnReads
                             /\ tm' = [tm EXCEPT !.reg[r] = n, !.reg[pc] = @ + 1]
                             /\ io' = [io EXCEPT !.in = Append(@, n)]
Sets(r, n) == /\ tm' = [tm EXCEPT !.reg = [@ EXCEPT ![pc] = @ + 1, ![r] = n]]
              /\ UNCHANGED io
Stops(result) == tm' = [tm EXCEPT !.result = result, !.reg[pc] = @ + 1] /\ UNCHANGED io
stepTM ==
    LET i == IF tm.reg[pc] \in 0 .. IADDR_SIZE - 1 THEN tm.iMem[tm.reg[pc]] ELSE [Halt EXCEPT !.op = "?"]
        reg == [tm.reg EXCEPT ![pc] = @ + 1]
        m == i.a + reg[i.b]
    IN  /\ tm.result = "OKAY"
        /\ CASE i.op = "?" -> tm' = [tm EXCEPT !.result = "IMEM_ERR"] /\ UNCHANGED io
             [] i.op = "HALT" -> Stops("HALT")
             [] i.op = "IN" -> In(i.r)
             [] i.op = "OUT" -> /\ io' = [io EXCEPT !.out = Append(@, reg[i.r])]
                                /\ tm' = [tm EXCEPT !.reg = reg]
             [] i.op = "ADD" -> Sets(i.r, Wrap(reg[i.a] + reg[i.b]))
             [] i.op = "SUB" -> Sets(i.r, Wrap(reg[i.a] - reg[i.b]))
             [] i.op = "MUL" -> Sets(i.r, Wrap(reg[i.a] * reg[i.b]))
             [] i.op = "DIV" -> IF reg[i.b] = 0 THEN Stops("ZERODIVIDE")
                                ELSE Sets(i.r, Wrap(Quotient(reg[i.a], reg[i.b])))
             [] i.op \in {"LD", "ST"} /\ (m < 0 \/ m > DADDR_SIZE) -> Stops("DMEM_ERR")
             [] i.op \in {"LD", "ST"} /\ m = DADDR_SIZE -> Stops("wild")  \* past the array
             [] i.op = "LD" /\ m < DADDR_SIZE -> Sets(i.r, tm.dMem[m])
             [] i.op = "ST" /\ m < DADDR_SIZE -> /\ tm' = [tm EXCEPT !.dMem[m] = reg[i.r], !.reg = reg]
                                                 /\ UNCHANGED io
             [] i.op = "LDA" -> Sets(i.r, m)
             [] i.op = "LDC" -> Sets(i.r, i.a)
             [] OTHER -> /\ tm' = [tm EXCEPT !.reg = IF Jumps(i.op, reg[i.r])
                                                     THEN [reg EXCEPT ![pc] = m] ELSE reg]
                         /\ UNCHANGED io
        /\ UNCHANGED tn

\* The command clear, and go again.
ClearTM == /\ tm.result \in {"HALT", "ZERODIVIDE"} /\ io.runs + 1 < TnRuns
           /\ tm' = Clear @@ tm
           /\ io' = [NoIo EXCEPT !.runs = io.runs + 1]
           /\ UNCHANGED tn

TnNext == Start \/ stepTM \/ ClearTM
TnSpec == TnInit /\ [][TnNext]_tnVars
-----------------------------------------------------------------------------
(* What a program does *)
RECURSIVE Eval(_, _), Exec(_, _, _), ExecSeq(_, _, _)
Eval(env, e) ==
    CASE e.k = "const" -> <<e.v>> [] e.k = "id" -> <<env[e.v]>>
      [] e.k = "op" ->
          LET l == Eval(env, e.l)  r == Eval(env, e.r)
          IN  IF l = <<>> \/ r = <<>> \/ (e.op = "/" /\ r = <<0>>) THEN <<>>
              ELSE <<CASE e.op = "+" -> Wrap(l[1] + r[1]) [] e.op = "-" -> Wrap(l[1] - r[1])
                       [] e.op = "*" -> Wrap(l[1] * r[1]) [] e.op = "/" -> Wrap(Quotient(l[1], r[1]))
                       [] e.op = "<" -> IF l[1] < r[1] THEN 1 ELSE 0
                       [] e.op = "=" -> IF l[1] = r[1] THEN 1 ELSE 0>>
\* w is the variables, the inputs not yet read, the outputs, and whether a
\* division by zero has stopped the program.
Stopped(w) == [w EXCEPT !.stop = TRUE]
Exec(w, s, fuel) ==
    CASE s.k = "read" -> IF w.in = <<>> THEN Stopped(w)
                         ELSE [w EXCEPT !.env[s.v] = Head(w.in), !.in = Tail(@)]
      [] s.k = "assign" -> LET v == Eval(w.env, s.e)
                           IN  IF v = <<>> THEN Stopped(w) ELSE [w EXCEPT !.env[s.v] = v[1]]
      [] s.k = "write" -> LET v == Eval(w.env, s.e)
                          IN  IF v = <<>> THEN Stopped(w) ELSE [w EXCEPT !.out = Append(@, v[1])]
      [] s.k = "if" -> LET v == Eval(w.env, s.test)
                       IN  IF v = <<>> THEN Stopped(w)
                           ELSE ExecSeq(w, IF v = <<1>> THEN s.yes ELSE s.no, fuel)
      [] s.k = "repeat" -> LET x == ExecSeq(w, s.body, fuel)
                               v == IF x.stop THEN <<1>> ELSE Eval(x.env, s.test)
                           IN  IF v = <<>> THEN Stopped(x)
                               ELSE IF v = <<1>> \/ fuel = 0 THEN x ELSE Exec(x, s, fuel - 1)
ExecSeq(w, t, fuel) == IF t = <<>> \/ w.stop THEN w ELSE ExecSeq(Exec(w, Head(t), fuel), Tail(t), fuel)
Meaning == ExecSeq([env |-> [n \in 0 .. 9 |-> 0], in |-> io.in, out |-> <<>>, stop |-> FALSE], tn.tree, TnFuel)

\* A program that is compiled and run by tm writes what the statements of
\* its tree write, on every execution, and the machine stops only at the end
\* of the program or at a division by zero of the program.
CompiledRight ==
    /\ tm.result \in {"none", "OKAY", "HALT", "ZERODIVIDE"}
    /\ tm.result \in {"HALT", "ZERODIVIDE"} =>
          Meaning.out = io.out /\ (Meaning.stop <=> tm.result = "ZERODIVIDE")

\* parse builds the tree of a program from its tokens, and accepts no text
\* that its tree does not account for, token by token.
NoParens(toks) == SelectSeq(toks, LAMBDA x : x.t \notin {"(", ")"})
ParsedRight ==
    tm.result = "none" =>
        /\ \A t \in TnPrograms : tn.toks = UnparseSeq(t) => ~tn.err /\ tn.tree = t
        /\ ~tn.err => NoParens(UnparseSeq(tn.tree)) = NoParens(tn.toks)
=============================================================================
