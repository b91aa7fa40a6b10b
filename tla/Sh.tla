--------------------------------- MODULE Sh ---------------------------------
(***************************************************************************)
(* The two shells.  xv6's (sh.c): how it reads a line, parses it, and runs *)
(* it in a tree of processes that share the ends of pipes.  A process has  *)
(* the path of the command it was forked for; a name is a sequence of      *)
(* characters.  The kernel's calls are modelled as far as the shell uses   *)
(* them; a program (external) may read its input to the end and write its  *)
(* output.  The homework's (proj_shell/shell.c) is at the end.             *)
(***************************************************************************)
EXTENDS Integers, Sequences, SequencesExt, FiniteSetsExt, BagsExt

CONSTANTS ShTrees,       \* commands that are typed, well formed
          ShLines,       \* other lines
          ShReads,       \* programs that read their input until it ends
          ShWrites,      \* programs that write to their output
          ShMissing,     \* names that exec and open do not find
          ShFails,       \* bound: calls of fork and pipe that fail
          MAXARGS, NBUF, \* sh.c's limits
          ShFiles,       \* bound on descriptors (NOFILE)
          BaInputs,      \* inputs: sequences of lines, a line what is between its semicolons
          BaGood,        \* commands that execvp can start
          BaFails,       \* bound: calls of fork that fail
          BaShells       \* bound: processes at a time

VARIABLES sh,            \* the shell and the processes it started
          ba             \* the homework's: its input, its processes, what ran and ended

shVars == <<sh>>

NUL == "0"
whitespace == {" ", "\n"}
symbols == {"<", "|", ">", "&", ";", "(", ")"}
-----------------------------------------------------------------------------
(* Lexer.  Positions are those of characters in b; es is the one after.     *)
es(b) == Len(b) + 1
CharAt(b, s) == IF s >= es(b) THEN NUL ELSE b[s]
FirstFrom(b, s, Stop(_)) == Min({i \in s .. es(b) : i = es(b) \/ Stop(b[i])})
Skip(b, s) == FirstFrom(b, s, LAMBDA c : c \notin whitespace)
\* F of x, which is evaluated once.
Bind(x, F(_)) == CHOOSE v \in {F(u) : u \in {x}} : TRUE
Lexeme(b, q) ==
    LET c == CharAt(b, q)
    IN  CASE c = NUL -> [tok |-> NUL, eq |-> q]
          [] c = ">" /\ CharAt(b, q + 1) = ">" -> [tok |-> "+", eq |-> q + 2]
          [] c \in symbols /\ ~(c = ">" /\ CharAt(b, q + 1) = ">") -> [tok |-> c, eq |-> q + 1]
          [] OTHER -> [tok |-> "a", eq |-> FirstFrom(b, q, LAMBDA d : d \in whitespace \cup symbols)]
gettoken(b, s) ==
    Bind(Skip(b, s), LAMBDA q : Bind(Lexeme(b, q), LAMBDA t : [tok |-> t.tok, q |-> q, eq |-> t.eq, s |-> Skip(b, t.eq)]))
peek(b, s, toks) == CharAt(b, Skip(b, s)) \in toks
-----------------------------------------------------------------------------
(* Parser.  A result is a command and the place where it ended; a panic,    *)
(* which ends the process, has no place.                                    *)
PANIC == [cmd |-> [type |-> "PANIC"], s |-> 0]
Got(cmd, s) == [cmd |-> cmd, s |-> s]
Then(r, F(_, _)) == Bind(r, LAMBDA u : IF u.s = 0 THEN PANIC ELSE F(u.cmd, u.s))
execcmd == [type |-> "EXEC", argv |-> <<>>]
redircmd(sub, file, mode, fd) == [type |-> "REDIR", cmd |-> sub, file |-> file, mode |-> mode, fd |-> fd]
pipecmd(left, right) == [type |-> "PIPE", left |-> left, right |-> right]
listcmd(left, right) == [type |-> "LIST", left |-> left, right |-> right]
backcmd(sub) == [type |-> "BACK", cmd |-> sub]

RECURSIVE parseredirs(_, _, _), AddArg(_, _), parsearg(_, _, _, _), parsepipe(_, _), parseline(_, _), parseback(_, _, _)
parseredirs(cmd, b, s) ==
    IF ~peek(b, s, {"<", ">"}) THEN Got(cmd, s)
    ELSE Bind(gettoken(b, s), LAMBDA t : Bind(gettoken(b, t.s), LAMBDA f :
             IF f.tok # "a" THEN PANIC
             ELSE parseredirs(IF t.tok = "<" THEN redircmd(cmd, <<f.q, f.eq>>, "read", 0)
                              ELSE redircmd(cmd, <<f.q, f.eq>>, "write", 1), b, f.s)))
\* parseexec goes on adding arguments to the command inside the redirections.
AddArg(cmd, w) == IF cmd.type = "EXEC" THEN [cmd EXCEPT !.argv = Append(@, w)] ELSE [cmd EXCEPT !.cmd = AddArg(@, w)]
parsearg(cmd, argc, b, s) ==
    IF peek(b, s, {"|", ")", "&", ";"}) THEN Got(cmd, s)
    ELSE Bind(gettoken(b, s), LAMBDA t :
             IF t.tok = NUL THEN Got(cmd, t.s)
             ELSE IF t.tok # "a" \/ argc + 1 >= MAXARGS THEN PANIC
             ELSE Then(parseredirs(AddArg(cmd, <<t.q, t.eq>>), b, t.s), LAMBDA c, e : parsearg(c, argc + 1, b, e)))
parseblock(b, s) ==
    Then(parseline(b, gettoken(b, s).s),
         LAMBDA c, e : IF peek(b, e, {")"}) THEN parseredirs(c, b, gettoken(b, e).s) ELSE PANIC)
parseexec(b, s) ==
    IF peek(b, s, {"("}) THEN parseblock(b, s)
    ELSE Then(parseredirs(execcmd, b, s), LAMBDA c, e : parsearg(c, 0, b, e))
parsepipe(b, s) ==
    Then(parseexec(b, s),
         LAMBDA c, e : IF ~peek(b, e, {"|"}) THEN Got(c, e)
                       ELSE Then(parsepipe(b, gettoken(b, e).s), LAMBDA d, f : Got(pipecmd(c, d), f)))
parseback(cmd, b, s) == IF peek(b, s, {"&"}) THEN parseback(backcmd(cmd), b, gettoken(b, s).s) ELSE Got(cmd, s)
parseline(b, s) ==
    Then(Then(parsepipe(b, s), LAMBDA c, e : parseback(c, b, e)),
         LAMBDA c, e : IF ~peek(b, e, {";"}) THEN Got(c, e)
                       ELSE Then(parseline(b, gettoken(b, e).s), LAMBDA d, f : Got(listcmd(c, d), f)))

RECURSIVE nulterminate(_), Strings(_, _)
nulterminate(cmd) ==
    CASE cmd.type = "EXEC" -> {w[2] : w \in ToSet(cmd.argv)}
      [] cmd.type = "REDIR" -> nulterminate(cmd.cmd) \cup {cmd.file[2]}
      [] cmd.type \in {"PIPE", "LIST"} -> nulterminate(cmd.left) \cup nulterminate(cmd.right)
      [] cmd.type = "BACK" -> nulterminate(cmd.cmd)
\* The command with the strings that its pointers show: up to the first NUL.
Strings(cmd, b) ==
    LET String(w) == SubSeq(b, w[1], FirstFrom(b, w[1], LAMBDA c : c = NUL) - 1)
    IN  CASE cmd.type = "EXEC" -> [cmd EXCEPT !.argv = [i \in DOMAIN cmd.argv |-> String(cmd.argv[i])]]
          [] cmd.type = "REDIR" -> [cmd EXCEPT !.cmd = Strings(@, b), !.file = String(@)]
          [] cmd.type \in {"PIPE", "LIST"} -> [cmd EXCEPT !.left = Strings(@, b), !.right = Strings(@, b)]
          [] cmd.type = "BACK" -> [cmd EXCEPT !.cmd = Strings(@, b)]
parsecmd(b) ==
    Bind(parseline(b, 1), LAMBDA r :
        IF r.s = 0 \/ Skip(b, r.s) # es(b) THEN PANIC.cmd
        ELSE Bind([i \in DOMAIN b |-> IF i \in nulterminate(r.cmd) THEN NUL ELSE b[i]], LAMBDA d : Strings(r.cmd, d)))
-----------------------------------------------------------------------------
(* Processes.  The paths of the shell and of init are not those of commands.*)
SHELL == <<0>>
INIT == <<>>
End(kind, name, path) == [kind |-> kind, name |-> name, path |-> path]
CLOSED == End("closed", <<>>, <<>>)
CONSOLE == End("console", <<>>, <<>>)
Fds == 0 .. ShFiles - 1
\* main opens the console until it has three of them.
ConsoleFds == [i \in Fds |-> IF i < 3 THEN CONSOLE ELSE CLOSED]
Lowest(fd) == Min({i \in Fds : fd[i] = CLOSED})
Put(fd, e) == [fd EXCEPT ![Lowest(fd)] = e]
close(fd, is) == [i \in Fds |-> IF i \in is THEN CLOSED ELSE fd[i]]
dup(fd, i) == Put(fd, fd[i])
Kids(ps, p) == {k \in DOMAIN ps : ps[k].parent = p}
Zombies(ps, p) == {k \in Kids(ps, p) : ps[k].at = "zombie"}
Without(ps, k) == [j \in DOMAIN ps \ {k} |-> ps[j]]
With(ps, k, r) == [j \in DOMAIN ps \cup {k} |-> IF j = k THEN r ELSE ps[j]]
\* A process that exits leaves its children to init, which waits for all.
exit(ps, p) ==
    LET q == [k \in DOMAIN ps |-> IF k = p THEN [ps[k] EXCEPT !.at = "zombie", !.fd = close(@, Fds)]
                                  ELSE IF ps[k].parent = p THEN [ps[k] EXCEPT !.parent = INIT] ELSE ps[k]]
    IN  [k \in DOMAIN q \ Zombies(q, INIT) |-> q[k]]
Child(p, k, cmd, at) == [parent |-> p, path |-> k, cmd |-> cmd, at |-> at, fd |-> sh.procs[p].fd, r |-> sh.procs[p].r, w |-> sh.procs[p].w]
Me(p) == sh.procs[p]
Set(p, r) == [sh EXCEPT !.procs[p] = r]
exits(p) == sh' = [sh EXCEPT !.procs = exit(@, p)]
\* fork1: the child, or a panic; pipe may fail as well.
fork1(p, k, cmd, at, next) ==
    \/ sh' = [sh EXCEPT !.procs = With([@ EXCEPT ![p].at = next], k, Child(p, k, cmd, at))]
    \/ sh.fails < ShFails /\ sh' = [sh EXCEPT !.procs = exit(@, p), !.fails = @ + 1]
wait(p, r) == \/ Kids(sh.procs, p) = {} /\ sh' = Set(p, r)
              \/ \E k \in Zombies(sh.procs, p) : sh' = [sh EXCEPT !.procs = With(Without(@, k), p, r)]

\* runcmd
Running(p, type) == p \in DOMAIN sh.procs /\ Me(p).at = "run" /\ Me(p).cmd.type = type
RunExec(p) ==
    /\ Running(p, "EXEC")
    /\ IF Me(p).cmd.argv = <<>> \/ Me(p).cmd.argv[1] \in ShMissing THEN exits(p)
       ELSE sh' = [sh EXCEPT !.procs[p].at = "program",
                             !.ran = @ \cup {[path |-> Me(p).path, argv |-> Me(p).cmd.argv, in |-> Me(p).fd[0], out |-> Me(p).fd[1]]}]
RunRedir(p) ==
    /\ Running(p, "REDIR")
    /\ IF Me(p).cmd.file \in ShMissing THEN exits(p)
       ELSE sh' = Set(p, [Me(p) EXCEPT !.fd = Put(close(@, {Me(p).cmd.fd}), End(Me(p).cmd.mode, Me(p).cmd.file, <<>>)),
                                       !.cmd = Me(p).cmd.cmd, !.path = Append(@, 1)])
RunList(p) == Running(p, "LIST") /\ fork1(p, Append(Me(p).path, 1), Me(p).cmd.left, "run", "list")
ListWait(p) == /\ Me(p).at = "list"
               /\ wait(p, [Me(p) EXCEPT !.at = "run", !.cmd = Me(p).cmd.right, !.path = Append(@, 2)])
RunBack(p) == Running(p, "BACK") /\ fork1(p, Append(Me(p).path, 1), Me(p).cmd.cmd, "run", "exit")
RunPipe(p) ==
    /\ Running(p, "PIPE")
    /\ LET fd == Put(Me(p).fd, End("r", <<>>, Me(p).path))
           r == Lowest(Me(p).fd)
           w == Lowest(fd)
       IN  \/ sh' = Set(p, [Me(p) EXCEPT !.at = "left", !.fd = Put(fd, End("w", <<>>, Me(p).path)), !.r = r, !.w = w])
           \/ sh.fails < ShFails /\ sh' = [sh EXCEPT !.procs = exit(@, p), !.fails = @ + 1]
ForkLeft(p) == Me(p).at = "left" /\ fork1(p, Append(Me(p).path, 1), Me(p).cmd.left, "output", "right")
ForkRight(p) == Me(p).at = "right" /\ fork1(p, Append(Me(p).path, 2), Me(p).cmd.right, "input", "closes")
Output(p) == /\ Me(p).at = "output"
             /\ sh' = Set(p, [Me(p) EXCEPT !.at = "run", !.fd = close(dup(close(@, {1}), Me(p).w), {Me(p).r, Me(p).w})])
Input(p) == /\ Me(p).at = "input"
            /\ sh' = Set(p, [Me(p) EXCEPT !.at = "run", !.fd = close(dup(close(@, {0}), Me(p).r), {Me(p).r, Me(p).w})])
\* Mutant: the parent keeps the ends of the pipe.
Closes_kept(p) == Me(p).at = "closes" /\ sh' = Set(p, [Me(p) EXCEPT !.at = "wait1"])
Closes(p) == Me(p).at = "closes" /\ sh' = Set(p, [Me(p) EXCEPT !.at = "wait1", !.fd = close(@, {Me(p).r, Me(p).w})])
PipeWait(p) == \/ Me(p).at = "wait1" /\ wait(p, [Me(p) EXCEPT !.at = "wait2"])
               \/ Me(p).at = "wait2" /\ wait(p, [Me(p) EXCEPT !.at = "exit"])
Exit(p) == Me(p).at = "exit" /\ exits(p)
\* A program reads to the end of a pipe when nobody can write to it any more,
\* and writes to a pipe that another program empties or nobody can read.
Holds(e) == \E k \in DOMAIN sh.procs, i \in Fds : sh.procs[k].fd[i] = e
Empties(e) == \E k \in DOMAIN sh.procs : Me(k).at = "program" /\ Me(k).fd[0] = e /\ Me(k).cmd.argv[1] \in ShReads
Ready(p) ==
    LET in == Me(p).fd[0]
        out == Me(p).fd[1]
        r == [out EXCEPT !.kind = "r"]
    IN  /\ in.kind = "r" /\ Me(p).cmd.argv[1] \in ShReads => ~Holds([in EXCEPT !.kind = "w"])
        /\ out.kind = "w" /\ Me(p).cmd.argv[1] \in ShWrites => Empties(r) \/ ~Holds(r)
Program(p) == /\ Me(p).at = "program" /\ Ready(p)
              /\ sh' = [sh EXCEPT !.procs = exit(@, p), !.ended = @ \cup {Me(p).path}]
-----------------------------------------------------------------------------
(* main *)
Typing(tree, text) ==
    sh = [at |-> "getcmd", tree |-> tree, text |-> text, buf |-> <<>>, cmds |-> <<>>, dirs |-> <<>>,
          fails |-> 0, ran |-> {}, ended |-> {},
          procs |-> [k \in {SHELL} |-> [parent |-> INIT, path |-> SHELL, cmd |-> PANIC.cmd, at |-> "main",
                                        fd |-> ConsoleFds, r |-> 0, w |-> 0]]]
\* gets: up to the end of the line, or as much as the buffer takes.
gets == LET ends == {i \in DOMAIN sh.text : sh.text[i] = "\n" \/ i = NBUF - 1 \/ i = Len(sh.text)}
        IN  IF ends = {} THEN 0 ELSE Min(ends)
Quit == [sh EXCEPT !.at = "exited", !.procs = exit(@, SHELL)]
getcmd == /\ sh.at = "getcmd"
          /\ sh' = IF gets = 0 THEN Quit
                   ELSE [sh EXCEPT !.at = "got", !.buf = SubSeq(sh.text, 1, gets), !.text = SubSeq(@, gets + 1, Len(@))]
IsCd == IsPrefix(<<"c", "d", " ">>, sh.buf)
\* The last character is chopped, whether it is a newline or not.
Chdir == /\ sh.at = "got" /\ IsCd
         /\ LET dir == SubSeq(sh.buf, 4, Len(sh.buf) - 1)
            IN  sh' = [sh EXCEPT !.at = "getcmd", !.dirs = IF dir \in ShMissing THEN @ ELSE Append(@, dir)]
Line(n) == <<n>>
ForkLine == /\ sh.at = "got" /\ ~IsCd
            /\ \/ sh' = [sh EXCEPT !.at = "wait", !.procs = With(@, Line(Len(sh.cmds) + 1), Child(SHELL, Line(Len(sh.cmds) + 1), PANIC.cmd, "parse"))]
               \/ sh.fails < ShFails /\ sh' = [Quit EXCEPT !.fails = @ + 1]
Parse(p) == /\ Me(p).at = "parse"
            /\ LET cmd == parsecmd(sh.buf)
                   next == [sh EXCEPT !.cmds = Append(@, cmd), !.procs[p].at = "run", !.procs[p].cmd = cmd]
               IN  sh' = IF cmd.type = "PANIC" THEN [next EXCEPT !.procs = exit(@, p)] ELSE next
WaitLine == sh.at = "wait" /\ \E k \in Zombies(sh.procs, SHELL) : sh' = [sh EXCEPT !.at = "getcmd", !.procs = Without(@, k)]
Step(p) == \/ Parse(p) \/ RunExec(p) \/ RunRedir(p) \/ RunList(p) \/ ListWait(p) \/ RunBack(p) \/ RunPipe(p)
           \/ ForkLeft(p) \/ ForkRight(p) \/ Output(p) \/ Input(p) \/ Closes(p) \/ PipeWait(p) \/ Exit(p) \/ Program(p)
ShNext == getcmd \/ Chdir \/ ForkLine \/ WaitLine \/ \E p \in DOMAIN sh.procs : Step(p)

\* How a command is written, as its structure alone asks.
RECURSIVE TextExec(_), TextPipe(_), TextBack(_), TextLine(_)
TextExec(t) ==
    CASE t.type = "EXEC" -> FlattenSeq([i \in DOMAIN t.argv |-> (IF i = 1 THEN <<>> ELSE <<" ">>) \o t.argv[i]])
      [] t.type = "REDIR" -> TextExec(t.cmd) \o <<IF t.mode = "read" THEN "<" ELSE ">">> \o t.file
      [] OTHER -> <<"(">> \o TextLine(t) \o <<")">>
TextPipe(t) == IF t.type = "PIPE" THEN TextExec(t.left) \o <<"|">> \o TextPipe(t.right) ELSE TextExec(t)
TextBack(t) == IF t.type = "BACK" THEN TextBack(t.cmd) \o <<"&">> ELSE TextPipe(t)
TextLine(t) == IF t.type = "LIST" THEN TextBack(t.left) \o <<";">> \o TextLine(t.right) ELSE TextBack(t)
ShInit == \/ \E t \in ShTrees : Typing(t, Append(TextLine(t), "\n"))
          \/ \E l \in ShLines : Typing(PANIC.cmd, l)
ShSpec == ShInit /\ [][ShNext]_shVars
-----------------------------------------------------------------------------
\* What waits for others.
Blocked(p) ==
    \/ Me(p).at = "zombie"
    \/ Me(p).at = "program" /\ ~Ready(p)
    \/ /\ Me(p).at \in {"list", "wait1", "wait2"} \/ (p = SHELL /\ sh.at = "wait")
       /\ Kids(sh.procs, p) # {} /\ Zombies(sh.procs, p) = {}

(* What a line means.  Of two redirections of one descriptor, the first that *)
(* was written wins.                                                        *)
RECURSIVE Programs(_, _, _, _), Ordered(_, _)
Programs(cmd, path, in, out) ==
    CASE cmd.type = "EXEC" -> IF cmd.argv = <<>> \/ cmd.argv[1] \in ShMissing THEN {}
                              ELSE {[path |-> path, argv |-> cmd.argv, in |-> in, out |-> out]}
      [] cmd.type = "REDIR" -> LET file == End(cmd.mode, cmd.file, <<>>)
                               IN  IF cmd.file \in ShMissing THEN {}
                                   ELSE IF cmd.mode = "read" THEN Programs(cmd.cmd, Append(path, 1), file, out)
                                   ELSE Programs(cmd.cmd, Append(path, 1), in, file)
      [] cmd.type = "PIPE" -> Programs(cmd.left, Append(path, 1), in, End("w", <<>>, path))
                              \cup Programs(cmd.right, Append(path, 2), End("r", <<>>, path), out)
      [] cmd.type = "LIST" -> Programs(cmd.left, Append(path, 1), in, out) \cup Programs(cmd.right, Append(path, 2), in, out)
      [] cmd.type = "BACK" -> Programs(cmd.cmd, Append(path, 1), in, out)
      [] OTHER -> {}
\* Those that the command waits for: not what it runs in the background.
RECURSIVE Waited(_, _)
Waited(cmd, path) ==
    CASE cmd.type = "BACK" -> {}
      [] cmd.type = "REDIR" -> IF cmd.file \in ShMissing THEN {} ELSE Waited(cmd.cmd, Append(path, 1))
      [] cmd.type \in {"PIPE", "LIST"} -> Waited(cmd.left, Append(path, 1)) \cup Waited(cmd.right, Append(path, 2))
      [] OTHER -> {r.path : r \in Programs(cmd, path, CONSOLE, CONSOLE)}
Started(path) == \E r \in sh.ran : IsPrefix(path, r.path)
\* What follows a semicolon starts when what comes before has ended.
Ordered(cmd, path) ==
    CASE cmd.type = "LIST" -> /\ Started(Append(path, 2)) => Waited(cmd.left, Append(path, 1)) \subseteq sh.ended
                              /\ Ordered(cmd.left, Append(path, 1)) /\ Ordered(cmd.right, Append(path, 2))
      [] cmd.type = "PIPE" -> Ordered(cmd.left, Append(path, 1)) /\ Ordered(cmd.right, Append(path, 2))
      [] cmd.type \in {"REDIR", "BACK"} -> Ordered(cmd.cmd, Append(path, 1))
      [] OTHER -> TRUE
(* The grammar of lines, on tokens.                                         *)
RECURSIVE Tokens(_, _), IsPipe(_), IsLine(_)
Tokens(b, s) == Bind(gettoken(b, s), LAMBDA t : IF t.tok = NUL THEN <<>> ELSE <<t.tok>> \o Tokens(b, t.s))
Upto(t, n) == SubSeq(t, 1, n)
After(t, n) == SubSeq(t, n + 1, Len(t))
IsRedir(t, i) == t[i] \in {"<", ">", "+"} /\ i < Len(t) /\ t[i + 1] = "a"
\* Words and redirections, of which only the words are arguments.
IsWords(t) == LET files == {i + 1 : i \in {j \in DOMAIN t : IsRedir(t, j)}}
              IN  /\ \A i \in DOMAIN t : t[i] = "a" \/ IsRedir(t, i)
                  /\ Cardinality({i \in DOMAIN t : t[i] = "a"} \ files) < MAXARGS
IsRedirs(t) == IsWords(t) /\ \A i \in DOMAIN t : i % 2 = 1 => t[i] # "a"
IsExec(t) == \/ IsWords(t)
             \/ /\ t # <<>> /\ t[1] = "("
                /\ \E n \in 2 .. Len(t) : t[n] = ")" /\ Bind(SubSeq(t, 2, n - 1), IsLine) /\ IsRedirs(After(t, n))
IsPipe(t) == IsExec(t) \/ \E n \in DOMAIN t : t[n] = "|" /\ Bind(Upto(t, n - 1), IsExec) /\ Bind(After(t, n), IsPipe)
IsBack(t) == \E n \in 0 .. Len(t) : (\A i \in n + 1 .. Len(t) : t[i] = "&") /\ Bind(Upto(t, n), IsPipe)
IsLine(t) == IsBack(t) \/ \E n \in DOMAIN t : t[n] = ";" /\ Bind(Upto(t, n - 1), IsBack) /\ Bind(After(t, n), IsLine)

\* A line is accepted when it is in the grammar, and a command that was
\* written down is read as that command (parsecmd).
ParsedAsTyped ==
    /\ \A p \in DOMAIN sh.procs : Me(p).at = "parse" => (parsecmd(sh.buf).type # "PANIC") = Bind(Tokens(sh.buf, 1), IsLine)
    /\ sh.cmds # <<>> /\ sh.tree.type # "PANIC" => sh.cmds[1] = sh.tree
\* A program starts with the arguments, the input and the output that the line
\* gives it; unless a call failed, it starts after what comes before it, and
\* everything that the shell waits for has ended when it asks for the next
\* line (runcmd, main).
RunsAsTyped ==
    /\ sh.ran \subseteq UNION {Programs(sh.cmds[n], Line(n), CONSOLE, CONSOLE) : n \in DOMAIN sh.cmds}
    /\ sh.fails = 0 => \A n \in DOMAIN sh.cmds :
          /\ Ordered(sh.cmds[n], Line(n))
          /\ n < Len(sh.cmds) \/ sh.at # "wait" => Waited(sh.cmds[n], Line(n)) \subseteq sh.ended
\* No command line leaves processes that all wait for each other: one of them
\* can go on until the shell has read all its input and every process has ended; and it asks for a line with its three descriptors and no child.
NoneStuck ==
    /\ (\A p \in DOMAIN sh.procs : Blocked(p)) => sh.procs = <<>>
    /\ sh.at = "getcmd" => Kids(sh.procs, SHELL) = {} /\ sh.procs[SHELL].fd = ConsoleFds
-----------------------------------------------------------------------------
(* proj_shell/shell.c: the commands between the semicolons of a line run   *)
(* side by side, and the next line is read when all have ended.  A child   *)
(* whose command cannot be started goes on as a shell of its own.  A batch *)
(* file is in a buffer that every fork copies; typed lines go to whichever *)
(* shell asks first.  A process has the path of its forks.                 *)
baVars == <<ba>>

\* strtok: nothing between two semicolons is no command, and neither is an
\* empty line, of which the first token is NULL all the same.
Nothing == ""
strtok(line) == LET on == SelectSeq(line, LAMBDA c : c # Nothing) IN IF on = <<>> THEN <<Nothing>> ELSE on
ROOT == <<>>
Shell(rest) == [at |-> "prompt", rest |-> rest, line |-> 0, command |-> <<>>, i |-> 1, forks |-> 0]
BaInit == \E input \in BaInputs, batch \in BOOLEAN :
             ba = [input |-> input, batch |-> batch, typed |-> input, fails |-> 0, ran |-> EmptyBag, ended |-> EmptyBag,
                   read |-> <<>>, procs |-> [p \in {ROOT} |-> Shell(input)]]

Mine(p) == ba.procs[p]
Spawned(p) == {k \in DOMAIN ba.procs : Len(k) = Len(p) + 1 /\ IsPrefix(p, k)}
Reaped(k) == [j \in DOMAIN ba.procs \ {k} |-> ba.procs[j]]
Ends(p) == IF p = ROOT THEN Reaped(p) ELSE [ba.procs EXCEPT ![p].at = "zombie"]
\* fgets, from the buffer or from the terminal; the lines are numbered.
Lines(p) == IF ba.batch THEN Mine(p).rest ELSE ba.typed
Number(p) == Len(ba.input) - Len(Lines(p)) + 1
Prompt(p) ==
    /\ Mine(p).at = "prompt"
    /\ ba' = IF Lines(p) = <<>> THEN [ba EXCEPT !.procs = Ends(p)]
             ELSE IF Head(Lines(p)) = <<"quit">> THEN [ba EXCEPT !.procs = Ends(p), !.typed = IF ba.batch THEN @ ELSE Tail(@)]
             ELSE [ba EXCEPT !.procs[p] = [@ EXCEPT !.at = "fork", !.rest = IF ba.batch THEN Tail(@) ELSE @, !.i = 1,
                                                    !.line = Number(p), !.command = strtok(Head(Lines(p)))],
                             !.typed = IF ba.batch THEN @ ELSE Tail(@), !.read = Append(@, Number(p))]
\* The test for a failed fork compares an array with 0: the command is left out.
Fork(p) ==
    /\ Mine(p).at = "fork" /\ Mine(p).i <= Len(Mine(p).command) /\ Cardinality(DOMAIN ba.procs) < BaShells
    /\ LET k == Append(p, Mine(p).forks)
           next == [Mine(p) EXCEPT !.i = @ + 1, !.forks = @ + 1]
       IN  \/ ba' = [ba EXCEPT !.procs = [j \in DOMAIN @ \cup {k} |-> IF j = k THEN [Mine(p) EXCEPT !.at = "exec", !.forks = 0]
                                                                      ELSE IF j = p THEN next ELSE @[j]]]
           \/ ba.fails < BaFails /\ ba' = [ba EXCEPT !.procs[p] = next, !.fails = @ + 1]
Command(p) == <<Mine(p).line, Mine(p).i>>
execvp(p) ==
    /\ Mine(p).at = "exec"
    /\ ba' = IF Mine(p).command[Mine(p).i] \in BaGood
             THEN [ba EXCEPT !.procs[p].at = "program", !.ran = @ (+) SetToBag({Command(p)})]
             ELSE [ba EXCEPT !.procs[p] = [@ EXCEPT !.at = "fork", !.i = @ + 1]]
Runs(p) == Mine(p).at = "program" /\ ba' = [ba EXCEPT !.procs = Ends(p), !.ended = @ (+) SetToBag({Command(p)})]
\* Mutant: the shell waits for one child only.
wait_one(p) == /\ Mine(p).at = "fork" /\ Mine(p).i > Len(Mine(p).command)
               /\ \E k \in Spawned(p) : Mine(k).at = "zombie" /\ ba' = [ba EXCEPT !.procs = [Reaped(k) EXCEPT ![p].at = "prompt"]]
wait_all(p) == /\ Mine(p).at = "fork" /\ Mine(p).i > Len(Mine(p).command)
           /\ \/ Spawned(p) = {} /\ ba' = [ba EXCEPT !.procs[p].at = "prompt"]
              \/ \E k \in Spawned(p) : Mine(k).at = "zombie" /\ ba' = [ba EXCEPT !.procs = Reaped(k)]
BaNext == \E p \in DOMAIN ba.procs : Prompt(p) \/ Fork(p) \/ execvp(p) \/ Runs(p) \/ wait_all(p)
-----------------------------------------------------------------------------
Quits == {n \in DOMAIN ba.input : ba.input[n] = <<"quit">>}
Given == IF Quits = {} THEN DOMAIN ba.input ELSE 1 .. Min(Quits) - 1
Bad(n, i) == Cardinality({j \in 1 .. i : strtok(ba.input[n])[j] \notin BaGood})
Failing(n) == Bad(n, Len(strtok(ba.input[n])))
\* How often a command runs in the end: every one before it that could not be
\* started, on its line or in a batch on a line before, left a second shell.
Times(n, i) == 2 ^ (Bad(n, i) + IF ba.batch THEN FoldLeft(+, 0, [m \in 1 .. n - 1 |-> Failing(m)]) ELSE 0)
\* A shell that asks for a line has no children and every program started by
\* a line it has read has ended, but for those of the shells beside it.  When
\* all of it is over every command of the lines before quit has run once for
\* each shell; only once if none failed (shell.c's fork loop and wait loop).
EachOnce ==
    /\ \A p \in DOMAIN ba.procs : Mine(p).at = "prompt" => Spawned(p) = {}
    /\ (\A n \in DOMAIN ba.input : Failing(n) = 0) => \A p \in DOMAIN ba.procs : Mine(p).at = "prompt" => p = ROOT /\ ba.ran = ba.ended
    /\ ba.procs = <<>> /\ ba.fails = 0 =>
          \A n \in IF ba.batch THEN Given ELSE ToSet(ba.read) : \A i \in 1 .. Len(strtok(ba.input[n])) :
             CopiesIn(<<n, i>>, ba.ran) = IF strtok(ba.input[n])[i] \in BaGood THEN Times(n, i) ELSE 0
=============================================================================
