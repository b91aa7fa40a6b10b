------------------------------ MODULE Console ------------------------------
(***************************************************************************)
(* The xv6 console: consoleintr, consoleread and consolewrite of           *)
(* console.c with the screen (cgaputc), and the keyboard's kbdgetc of      *)
(* kbd.c.  cons.lock makes an interrupt and a pass of a reader atomic.     *)
(* Characters: "^U" kills the line, "^H" erases, "^D" is end of file, "nl" *)
(* a new line; others stand for themselves.                                *)
(***************************************************************************)
EXTENDS Integers, FiniteSets, Sequences, SequencesExt, TLC

CONSTANTS INPUT_BUF,     \* places of the buffer
          UINT,          \* indices are unsigned, modulo UINT; INPUT_BUF divides it
          COLS, ROWS,    \* the screen: 80 and 24, and one row that is not used
          CnReaders, CnLens,         \* processes, and the lengths they ask for
          CnSerial, CnKeys,          \* characters from the serial line, letters on the keyboard
          CnModifiers,               \* "shift" and "ctl", or some of them
          CnTyped, CnReads, CnOut    \* bounds on the characters, the calls and the output

VARIABLES input,         \* buf, r, w, e
          reader,        \* the processes in consoleread
          screen,        \* pos and crt
          kbd,           \* shift, and caps lock
          line,          \* what was sent and read; echoed characters in a row
          cnLeft

cnVars == <<input, reader, screen, kbd, line, cnLeft>>

Out == [k |-> "out"]
CELLS == COLS * (ROWS + 1)
CnInit == /\ input = [buf |-> [i \in 0 .. INPUT_BUF - 1 |-> ""], r |-> 0, w |-> 0, e |-> 0]
          /\ reader = [p \in CnReaders |-> Out]
          /\ screen = [pos |-> 0, crt |-> [i \in 0 .. CELLS - 1 |-> " "]]
          /\ kbd = [shift |-> {}, caps |-> FALSE]
          /\ line = [sent |-> <<>>, got |-> <<>>, echoed |-> 0]
          /\ cnLeft = [typed |-> CnTyped, reads |-> CnReads, out |-> CnOut]
-----------------------------------------------------------------------------
(* cgaputc, and consputc without the serial line's copy *)
Scroll(s) ==
    IF s.pos \div COLS < ROWS THEN s
    ELSE [pos |-> s.pos - COLS,
          crt |-> [i \in 0 .. CELLS - 1 |-> IF i < COLS * (ROWS - 1) THEN s.crt[i + COLS]
                                           ELSE IF i >= s.pos - COLS /\ i < COLS * ROWS THEN " " ELSE s.crt[i]]]
cgaputc(s, c) ==
    LET t == CASE c = "nl" -> [s EXCEPT !.pos = @ + COLS - (@ % COLS)]
               [] c = "BACKSPACE" -> [s EXCEPT !.pos = IF @ > 0 THEN @ - 1 ELSE @]
               [] OTHER -> [pos |-> s.pos + 1, crt |-> [s.crt EXCEPT ![s.pos] = c]]
        u == Scroll(t)
    IN  [u EXCEPT !.crt[u.pos] = " "]
-----------------------------------------------------------------------------
(* consoleintr: one character; x is the input, the screen and the line       *)
Minus(a, b) == (a - b + UINT) % UINT
At(b, i) == b[i % INPUT_BUF]
Erase(x) == [x EXCEPT !.in.e = Minus(@, 1), !.scr = cgaputc(@, "BACKSPACE"),
                      !.echoed = IF @ > 0 THEN @ - 1 ELSE 0]
RECURSIVE KillLine(_)
KillLine(x) == IF x.in.e # x.in.w /\ At(x.in.buf, Minus(x.in.e, 1)) # "nl" THEN KillLine(Erase(x)) ELSE x
Unread(in) == [i \in 1 .. Minus(in.e, in.w) |-> At(in.buf, in.w + i - 1)]

\* Mutant: only what has not been sent counts against the buffer.
HasRoom_edit(in) == Minus(in.e, in.w) < INPUT_BUF

HasRoom(in) == Minus(in.e, in.r) < INPUT_BUF
Insert(x, c) ==
    LET in == [x.in EXCEPT !.buf[x.in.e % INPUT_BUF] = c, !.e = (@ + 1) % UINT]
        send == c \in {"nl", "^D"} \/ in.e = (in.r + INPUT_BUF) % UINT
    IN  [in |-> IF send THEN [in EXCEPT !.w = in.e] ELSE in,
         scr |-> cgaputc(x.scr, c), echoed |-> IF send THEN 0 ELSE x.echoed + 1,
         sent |-> IF send THEN x.sent \o Unread(in) ELSE x.sent, wake |-> send]
Effect(x, c) == CASE c = "^U" -> KillLine(x)
                  [] c = "^H" -> IF x.in.e # x.in.w THEN Erase(x) ELSE x
                  [] OTHER -> IF HasRoom(x.in) THEN Insert(x, c) ELSE x

\* Mutant: a full buffer is sent without a wakeup.
Woken_line(c, x) == [p \in CnReaders |-> IF x.wake /\ c \in {"nl", "^D"} /\ reader[p].k = "asleep"
                                         THEN [reader[p] EXCEPT !.k = "reading"] ELSE reader[p]]

Woken(c, x) == [p \in CnReaders |-> IF x.wake /\ reader[p].k = "asleep"
                                    THEN [reader[p] EXCEPT !.k = "reading"] ELSE reader[p]]
consoleintr(c) ==
    LET x == Effect([in |-> input, scr |-> screen, echoed |-> line.echoed, sent |-> line.sent, wake |-> FALSE], c)
    IN  /\ input' = x.in /\ screen' = x.scr
        /\ line' = [line EXCEPT !.sent = x.sent, !.echoed = x.echoed]
        /\ reader' = Woken(c, x)

Typed == cnLeft.typed > 0 /\ cnLeft' = [cnLeft EXCEPT !.typed = @ - 1]
uartintr(c) == Typed /\ consoleintr(c) /\ UNCHANGED kbd
-----------------------------------------------------------------------------
(* kbdgetc: the modifiers, and a letter.  A key of the right-hand side sends *)
(* E0 before its code, which is one step with it here.                       *)
\* Two keys may share a modifier: the release of either clears it.
kbdModifier(m) == /\ \E down \in BOOLEAN : kbd' = [kbd EXCEPT !.shift = IF down THEN @ \cup {m} ELSE @ \ {m}]
                  /\ UNCHANGED <<input, reader, screen, line, cnLeft>>
kbdCaps == /\ kbd' = [kbd EXCEPT !.caps = ~@]
           /\ UNCHANGED <<input, reader, screen, line, cnLeft>>
\* A letter has four forms; CAPSLOCK changes the case of plain ones.
Form(k) == IF "ctl" \in kbd.shift THEN "^" \o k
           ELSE IF ("shift" \in kbd.shift) # kbd.caps THEN "S" \o k ELSE k
kbdLetter(k) == Typed /\ consoleintr(Form(k)) /\ UNCHANGED kbd
-----------------------------------------------------------------------------
(* consoleread and consolewrite *)
ConsoleRead(p, n) ==
    /\ reader[p] = Out /\ cnLeft.reads > 0
    /\ reader' = [reader EXCEPT ![p] = [k |-> "reading", n |-> n, target |-> n]]
    /\ cnLeft' = [cnLeft EXCEPT !.reads = @ - 1]
    /\ UNCHANGED <<input, screen, kbd, line>>

\* What a pass takes, up to a new line, end of file, n characters or an empty
\* buffer.  An end of file behind other characters stays for the next call.
Avail(p) ==
    LET m == Minus(input.w, input.r)
        s == [i \in 1 .. m |-> At(input.buf, input.r + i - 1)]
        stops == {i \in 1 .. m : s[i] \in {"nl", "^D"}} \cup {reader[p].n}
        k == IF \E i \in stops : i <= m THEN CHOOSE i \in stops : \A j \in stops : i <= j ELSE m
    IN  SubSeq(s, 1, k)
ReadPass(p) ==
    LET s == Avail(p)
        eof == s # <<>> /\ Last(s) = "^D"
        data == IF eof THEN Front(s) ELSE s
        rest == reader[p].n - Len(data)
        taken == IF eof /\ rest < reader[p].target THEN Len(data) ELSE Len(s)
        ends == eof \/ rest = 0 \/ (data # <<>> /\ Last(data) = "nl")
    IN  /\ reader[p].k = "reading"
        /\ input' = [input EXCEPT !.r = (@ + taken) % UINT]
        /\ line' = [line EXCEPT !.got = @ \o SubSeq(s, 1, taken)]
        /\ reader' = [reader EXCEPT ![p] = IF ends THEN Out ELSE [@ EXCEPT !.k = "asleep", !.n = rest]]
        /\ UNCHANGED <<screen, kbd, cnLeft>>
\* kill wakes a sleeping reader, which leaves without what it had read.
KillReader(p) == /\ reader[p].k = "asleep" /\ input.r = input.w
                 /\ reader' = [reader EXCEPT ![p] = Out]
                 /\ UNCHANGED <<input, screen, kbd, line, cnLeft>>
consolewrite(s) ==
    /\ cnLeft.out > 0 /\ cnLeft' = [cnLeft EXCEPT !.out = @ - 1]
    /\ screen' = FoldLeft(cgaputc, screen, s)
    /\ line' = [line EXCEPT !.echoed = 0]
    /\ UNCHANGED <<input, reader, kbd>>

CnNext == \/ \E c \in CnSerial : uartintr(c)
          \/ \E k \in CnKeys : kbdLetter(k)
          \/ \E m \in CnModifiers : kbdModifier(m)
          \/ kbdCaps
          \/ \E p \in CnReaders, n \in CnLens : ConsoleRead(p, n)
          \/ \E p \in CnReaders : ReadPass(p) \/ KillReader(p)
          \/ consolewrite(<<"o", "nl">>) \/ consolewrite(<<"o">>)
CnSpec == CnInit /\ [][CnNext]_cnVars
-----------------------------------------------------------------------------
\* Readers get the characters of the lines that were sent, each once and in
\* order, and the buffer holds the rest: editing a line never touches what
\* was sent before, and typing ahead never overwrites it.
LinesExact == line.sent = line.got \o [i \in 1 .. Minus(input.w, input.r) |-> At(input.buf, input.r + i - 1)]

\* No reader sleeps while there is something for it to read.
ReaderAwake == \A p \in CnReaders : reader[p].k = "asleep" => input.r = input.w

\* The cursor stays on the screen, and in front of it stand the characters of
\* the unfinished line, as far as nothing was printed since they were typed.
LineShown ==
    /\ screen.pos < COLS * ROWS /\ screen.crt[screen.pos] = " "
    /\ \A i \in 1 .. line.echoed : i <= screen.pos =>
          screen.crt[screen.pos - i] = At(input.buf, Minus(input.e, i))
=============================================================================
