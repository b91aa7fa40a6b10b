----------------------------- MODULE ProcProofs -----------------------------
(***************************************************************************)
(* Proofs about the process table, for any number of slots. First what an  *)
(* assignment to one field does to the table. Then, for any number of      *)
(* processors, programs that create no threads, the xv6 the threads were   *)
(* added to: what each action does, and the inductive invariant. Its last  *)
(* part, Grounded, says without a path or a count that the parent links    *)
(* form no cycle: no nonempty set of processes contains a child of each of *)
(* its members. Hence the processes in wait() cannot all wait for each     *)
(* other: one of them would have to be waiting for a process that runs.    *)
(* Last, on one processor, any mix of process and thread calls.            *)
(***************************************************************************)
EXTENDS Proc, Integers, FiniteSetTheorems, WellFoundedInduction, TLAPS

\* The type of a struct proc.
Process == [state : States, pid : BOOLEAN, parent : Slots \cup {None},
            chan : Slots \cup {None}, killed : BOOLEAN,
            kstack : BOOLEAN, isThread : BOOLEAN, tid : Tids,
            t : SUBSET Tids, arr_ret : [Tids -> Values \cup {NoValue}]]

\* The type of the table.
Table == [Slots -> Process]

\* An assignment to one field of one slot, and what it leaves alone.
SetState(f, q, x) == [f EXCEPT ![q].state = x]

\* p->state = x.
LEMMA StateSet ==
    ASSUME NEW f \in Table, NEW q, NEW x \in States
    PROVE  /\ SetState(f, q, x) \in Table
           /\ \A r \in Slots :
                 /\ SetState(f, q, x)[r].state = IF r = q THEN x ELSE f[r].state
                 /\ SetState(f, q, x)[r].parent = f[r].parent
                 /\ SetState(f, q, x)[r].chan = f[r].chan
                 /\ SetState(f, q, x)[r].killed = f[r].killed
                 /\ SetState(f, q, x)[r].kstack = f[r].kstack
                 /\ SetState(f, q, x)[r].isThread = f[r].isThread
                 /\ SetState(f, q, x)[r].t = f[r].t
  <1>1. \A r \in Slots : f[r] \in Process  BY DEF Table
  <1>2. ASSUME NEW r \in Slots
        PROVE  /\ SetState(f, q, x)[r].state = IF r = q THEN x ELSE f[r].state
               /\ SetState(f, q, x)[r].parent = f[r].parent
               /\ SetState(f, q, x)[r].chan = f[r].chan
               /\ SetState(f, q, x)[r].killed = f[r].killed
               /\ SetState(f, q, x)[r].kstack = f[r].kstack
               /\ SetState(f, q, x)[r].isThread = f[r].isThread
               /\ SetState(f, q, x)[r].t = f[r].t
    BY <1>1 DEF SetState, Table, Process
  <1>3. ASSUME NEW r \in Slots  PROVE SetState(f, q, x)[r] \in Process
    <2>1. [f[r] EXCEPT !.state = x] \in Process  BY <1>1 DEF Process
    <2>2. SetState(f, q, x)[r] = [f[r] EXCEPT !.state = x] \/ SetState(f, q, x)[r] = f[r]
      BY DEF SetState, Table
    <2> QED  BY <1>1, <2>1, <2>2
  <1>4. SetState(f, q, x) = [r \in Slots |-> SetState(f, q, x)[r]]  BY DEF SetState, Table
  <1>5. SetState(f, q, x) \in Table  BY <1>3, <1>4 DEF Table
  <1> QED  BY <1>2, <1>5

\* The parent of one slot.
SetParent(f, q, x) == [f EXCEPT ![q].parent = x]

\* p->parent = x.
LEMMA ParentSet ==
    ASSUME NEW f \in Table, NEW q, NEW x \in Slots \cup {None}
    PROVE  /\ SetParent(f, q, x) \in Table
           /\ \A r \in Slots :
                 /\ SetParent(f, q, x)[r].parent = IF r = q THEN x ELSE f[r].parent
                 /\ SetParent(f, q, x)[r].state = f[r].state
                 /\ SetParent(f, q, x)[r].chan = f[r].chan
                 /\ SetParent(f, q, x)[r].killed = f[r].killed
                 /\ SetParent(f, q, x)[r].kstack = f[r].kstack
                 /\ SetParent(f, q, x)[r].isThread = f[r].isThread
                 /\ SetParent(f, q, x)[r].t = f[r].t
  <1>1. \A r \in Slots : f[r] \in Process  BY DEF Table
  <1>2. ASSUME NEW r \in Slots
        PROVE  /\ SetParent(f, q, x)[r].parent = IF r = q THEN x ELSE f[r].parent
               /\ SetParent(f, q, x)[r].state = f[r].state
               /\ SetParent(f, q, x)[r].chan = f[r].chan
               /\ SetParent(f, q, x)[r].killed = f[r].killed
               /\ SetParent(f, q, x)[r].kstack = f[r].kstack
               /\ SetParent(f, q, x)[r].isThread = f[r].isThread
               /\ SetParent(f, q, x)[r].t = f[r].t
    BY <1>1 DEF SetParent, Table, Process
  <1>3. ASSUME NEW r \in Slots  PROVE SetParent(f, q, x)[r] \in Process
    <2>1. [f[r] EXCEPT !.parent = x] \in Process  BY <1>1 DEF Process
    <2>2. SetParent(f, q, x)[r] = [f[r] EXCEPT !.parent = x] \/ SetParent(f, q, x)[r] = f[r]
      BY DEF SetParent, Table
    <2> QED  BY <1>1, <2>1, <2>2
  <1>4. SetParent(f, q, x) = [r \in Slots |-> SetParent(f, q, x)[r]]  BY DEF SetParent, Table
  <1>5. SetParent(f, q, x) \in Table  BY <1>3, <1>4 DEF Table
  <1> QED  BY <1>2, <1>5

\* The channel of one slot.
SetChan(f, q, x) == [f EXCEPT ![q].chan = x]

\* p->chan = x.
LEMMA ChanSet ==
    ASSUME NEW f \in Table, NEW q, NEW x \in Slots \cup {None}
    PROVE  /\ SetChan(f, q, x) \in Table
           /\ \A r \in Slots :
                 /\ SetChan(f, q, x)[r].chan = IF r = q THEN x ELSE f[r].chan
                 /\ SetChan(f, q, x)[r].state = f[r].state
                 /\ SetChan(f, q, x)[r].parent = f[r].parent
                 /\ SetChan(f, q, x)[r].killed = f[r].killed
                 /\ SetChan(f, q, x)[r].kstack = f[r].kstack
                 /\ SetChan(f, q, x)[r].isThread = f[r].isThread
                 /\ SetChan(f, q, x)[r].t = f[r].t
  <1>1. \A r \in Slots : f[r] \in Process  BY DEF Table
  <1>2. ASSUME NEW r \in Slots
        PROVE  /\ SetChan(f, q, x)[r].chan = IF r = q THEN x ELSE f[r].chan
               /\ SetChan(f, q, x)[r].state = f[r].state
               /\ SetChan(f, q, x)[r].parent = f[r].parent
               /\ SetChan(f, q, x)[r].killed = f[r].killed
               /\ SetChan(f, q, x)[r].kstack = f[r].kstack
               /\ SetChan(f, q, x)[r].isThread = f[r].isThread
               /\ SetChan(f, q, x)[r].t = f[r].t
    BY <1>1 DEF SetChan, Table, Process
  <1>3. ASSUME NEW r \in Slots  PROVE SetChan(f, q, x)[r] \in Process
    <2>1. [f[r] EXCEPT !.chan = x] \in Process  BY <1>1 DEF Process
    <2>2. SetChan(f, q, x)[r] = [f[r] EXCEPT !.chan = x] \/ SetChan(f, q, x)[r] = f[r]
      BY DEF SetChan, Table
    <2> QED  BY <1>1, <2>1, <2>2
  <1>4. SetChan(f, q, x) = [r \in Slots |-> SetChan(f, q, x)[r]]  BY DEF SetChan, Table
  <1>5. SetChan(f, q, x) \in Table  BY <1>3, <1>4 DEF Table
  <1> QED  BY <1>2, <1>5

\* A kernel stack for one slot.
GiveStack(f, q) == [f EXCEPT ![q].kstack = TRUE]

\* p->kstack = kalloc().
LEMMA GiveStackSet ==
    ASSUME NEW f \in Table, NEW q
    PROVE  /\ GiveStack(f, q) \in Table
           /\ \A r \in Slots :
                 /\ GiveStack(f, q)[r].kstack <=> (r = q \/ f[r].kstack)
                 /\ GiveStack(f, q)[r].state = f[r].state
                 /\ GiveStack(f, q)[r].parent = f[r].parent
                 /\ GiveStack(f, q)[r].chan = f[r].chan
                 /\ GiveStack(f, q)[r].killed = f[r].killed
                 /\ GiveStack(f, q)[r].isThread = f[r].isThread
                 /\ GiveStack(f, q)[r].t = f[r].t
  <1>1. \A r \in Slots : f[r] \in Process  BY DEF Table
  <1>2. ASSUME NEW r \in Slots
        PROVE  /\ GiveStack(f, q)[r].kstack <=> (r = q \/ f[r].kstack)
               /\ GiveStack(f, q)[r].state = f[r].state
               /\ GiveStack(f, q)[r].parent = f[r].parent
               /\ GiveStack(f, q)[r].chan = f[r].chan
               /\ GiveStack(f, q)[r].killed = f[r].killed
               /\ GiveStack(f, q)[r].isThread = f[r].isThread
               /\ GiveStack(f, q)[r].t = f[r].t
    BY <1>1 DEF GiveStack, Table, Process
  <1>3. ASSUME NEW r \in Slots  PROVE GiveStack(f, q)[r] \in Process
    <2>1. [f[r] EXCEPT !.kstack = TRUE] \in Process  BY <1>1 DEF Process
    <2>2. GiveStack(f, q)[r] = [f[r] EXCEPT !.kstack = TRUE] \/ GiveStack(f, q)[r] = f[r]
      BY DEF GiveStack, Table
    <2> QED  BY <1>1, <2>1, <2>2
  <1>4. GiveStack(f, q) = [r \in Slots |-> GiveStack(f, q)[r]]  BY DEF GiveStack, Table
  <1>5. GiveStack(f, q) \in Table  BY <1>3, <1>4 DEF Table
  <1> QED  BY <1>2, <1>5

\* The kernel stack of one slot given back.
TakeStack(f, q) == [f EXCEPT ![q].kstack = FALSE]

\* kfree(p->kstack); p->kstack = 0.
LEMMA TakeStackSet ==
    ASSUME NEW f \in Table, NEW q
    PROVE  /\ TakeStack(f, q) \in Table
           /\ \A r \in Slots :
                 /\ TakeStack(f, q)[r].kstack <=> (r # q /\ f[r].kstack)
                 /\ TakeStack(f, q)[r].state = f[r].state
                 /\ TakeStack(f, q)[r].parent = f[r].parent
                 /\ TakeStack(f, q)[r].chan = f[r].chan
                 /\ TakeStack(f, q)[r].killed = f[r].killed
                 /\ TakeStack(f, q)[r].isThread = f[r].isThread
                 /\ TakeStack(f, q)[r].t = f[r].t
  <1>1. \A r \in Slots : f[r] \in Process  BY DEF Table
  <1>2. ASSUME NEW r \in Slots
        PROVE  /\ TakeStack(f, q)[r].kstack <=> (r # q /\ f[r].kstack)
               /\ TakeStack(f, q)[r].state = f[r].state
               /\ TakeStack(f, q)[r].parent = f[r].parent
               /\ TakeStack(f, q)[r].chan = f[r].chan
               /\ TakeStack(f, q)[r].killed = f[r].killed
               /\ TakeStack(f, q)[r].isThread = f[r].isThread
               /\ TakeStack(f, q)[r].t = f[r].t
    BY <1>1 DEF TakeStack, Table, Process
  <1>3. ASSUME NEW r \in Slots  PROVE TakeStack(f, q)[r] \in Process
    <2>1. [f[r] EXCEPT !.kstack = FALSE] \in Process  BY <1>1 DEF Process
    <2>2. TakeStack(f, q)[r] = [f[r] EXCEPT !.kstack = FALSE] \/ TakeStack(f, q)[r] = f[r]
      BY DEF TakeStack, Table
    <2> QED  BY <1>1, <2>1, <2>2
  <1>4. TakeStack(f, q) = [r \in Slots |-> TakeStack(f, q)[r]]  BY DEF TakeStack, Table
  <1>5. TakeStack(f, q) \in Table  BY <1>3, <1>4 DEF Table
  <1> QED  BY <1>2, <1>5

\* A pid for one slot.
GivePid(f, q) == [f EXCEPT ![q].pid = TRUE]

\* p->pid = nextpid++.
LEMMA GivePidSet ==
    ASSUME NEW f \in Table, NEW q
    PROVE  /\ GivePid(f, q) \in Table
           /\ \A r \in Slots :
                 /\ GivePid(f, q)[r].state = f[r].state
                 /\ GivePid(f, q)[r].parent = f[r].parent
                 /\ GivePid(f, q)[r].chan = f[r].chan
                 /\ GivePid(f, q)[r].killed = f[r].killed
                 /\ GivePid(f, q)[r].kstack = f[r].kstack
                 /\ GivePid(f, q)[r].isThread = f[r].isThread
                 /\ GivePid(f, q)[r].t = f[r].t
  <1>1. \A r \in Slots : f[r] \in Process  BY DEF Table
  <1>2. ASSUME NEW r \in Slots
        PROVE  /\ GivePid(f, q)[r].state = f[r].state
               /\ GivePid(f, q)[r].parent = f[r].parent
               /\ GivePid(f, q)[r].chan = f[r].chan
               /\ GivePid(f, q)[r].killed = f[r].killed
               /\ GivePid(f, q)[r].kstack = f[r].kstack
               /\ GivePid(f, q)[r].isThread = f[r].isThread
               /\ GivePid(f, q)[r].t = f[r].t
    BY <1>1 DEF GivePid, Table, Process
  <1>3. ASSUME NEW r \in Slots  PROVE GivePid(f, q)[r] \in Process
    <2>1. [f[r] EXCEPT !.pid = TRUE] \in Process  BY <1>1 DEF Process
    <2>2. GivePid(f, q)[r] = [f[r] EXCEPT !.pid = TRUE] \/ GivePid(f, q)[r] = f[r]
      BY DEF GivePid, Table
    <2> QED  BY <1>1, <2>1, <2>2
  <1>4. GivePid(f, q) = [r \in Slots |-> GivePid(f, q)[r]]  BY DEF GivePid, Table
  <1>5. GivePid(f, q) \in Table  BY <1>3, <1>4 DEF Table
  <1> QED  BY <1>2, <1>5

\* The pid of one slot cleared.
TakePid(f, q) == [f EXCEPT ![q].pid = FALSE]

\* p->pid = 0.
LEMMA TakePidSet ==
    ASSUME NEW f \in Table, NEW q
    PROVE  /\ TakePid(f, q) \in Table
           /\ \A r \in Slots :
                 /\ TakePid(f, q)[r].state = f[r].state
                 /\ TakePid(f, q)[r].parent = f[r].parent
                 /\ TakePid(f, q)[r].chan = f[r].chan
                 /\ TakePid(f, q)[r].killed = f[r].killed
                 /\ TakePid(f, q)[r].kstack = f[r].kstack
                 /\ TakePid(f, q)[r].isThread = f[r].isThread
                 /\ TakePid(f, q)[r].t = f[r].t
  <1>1. \A r \in Slots : f[r] \in Process  BY DEF Table
  <1>2. ASSUME NEW r \in Slots
        PROVE  /\ TakePid(f, q)[r].state = f[r].state
               /\ TakePid(f, q)[r].parent = f[r].parent
               /\ TakePid(f, q)[r].chan = f[r].chan
               /\ TakePid(f, q)[r].killed = f[r].killed
               /\ TakePid(f, q)[r].kstack = f[r].kstack
               /\ TakePid(f, q)[r].isThread = f[r].isThread
               /\ TakePid(f, q)[r].t = f[r].t
    BY <1>1 DEF TakePid, Table, Process
  <1>3. ASSUME NEW r \in Slots  PROVE TakePid(f, q)[r] \in Process
    <2>1. [f[r] EXCEPT !.pid = FALSE] \in Process  BY <1>1 DEF Process
    <2>2. TakePid(f, q)[r] = [f[r] EXCEPT !.pid = FALSE] \/ TakePid(f, q)[r] = f[r]
      BY DEF TakePid, Table
    <2> QED  BY <1>1, <2>1, <2>2
  <1>4. TakePid(f, q) = [r \in Slots |-> TakePid(f, q)[r]]  BY DEF TakePid, Table
  <1>5. TakePid(f, q) \in Table  BY <1>3, <1>4 DEF Table
  <1> QED  BY <1>2, <1>5

\* The killed flag of one slot.
MarkKilled(f, q) == [f EXCEPT ![q].killed = TRUE]

\* p->killed = 1.
LEMMA MarkKilledSet ==
    ASSUME NEW f \in Table, NEW q
    PROVE  /\ MarkKilled(f, q) \in Table
           /\ \A r \in Slots :
                 /\ MarkKilled(f, q)[r].killed <=> (r = q \/ f[r].killed)
                 /\ MarkKilled(f, q)[r].state = f[r].state
                 /\ MarkKilled(f, q)[r].parent = f[r].parent
                 /\ MarkKilled(f, q)[r].chan = f[r].chan
                 /\ MarkKilled(f, q)[r].kstack = f[r].kstack
                 /\ MarkKilled(f, q)[r].isThread = f[r].isThread
                 /\ MarkKilled(f, q)[r].t = f[r].t
  <1>1. \A r \in Slots : f[r] \in Process  BY DEF Table
  <1>2. ASSUME NEW r \in Slots
        PROVE  /\ MarkKilled(f, q)[r].killed <=> (r = q \/ f[r].killed)
               /\ MarkKilled(f, q)[r].state = f[r].state
               /\ MarkKilled(f, q)[r].parent = f[r].parent
               /\ MarkKilled(f, q)[r].chan = f[r].chan
               /\ MarkKilled(f, q)[r].kstack = f[r].kstack
               /\ MarkKilled(f, q)[r].isThread = f[r].isThread
               /\ MarkKilled(f, q)[r].t = f[r].t
    BY <1>1 DEF MarkKilled, Table, Process
  <1>3. ASSUME NEW r \in Slots  PROVE MarkKilled(f, q)[r] \in Process
    <2>1. [f[r] EXCEPT !.killed = TRUE] \in Process  BY <1>1 DEF Process
    <2>2. MarkKilled(f, q)[r] = [f[r] EXCEPT !.killed = TRUE] \/ MarkKilled(f, q)[r] = f[r]
      BY DEF MarkKilled, Table
    <2> QED  BY <1>1, <2>1, <2>2
  <1>4. MarkKilled(f, q) = [r \in Slots |-> MarkKilled(f, q)[r]]  BY DEF MarkKilled, Table
  <1>5. MarkKilled(f, q) \in Table  BY <1>3, <1>4 DEF Table
  <1> QED  BY <1>2, <1>5

\* The killed flag of one slot cleared.
Unkilled(f, q) == [f EXCEPT ![q].killed = FALSE]

\* p->killed = 0.
LEMMA UnkilledSet ==
    ASSUME NEW f \in Table, NEW q
    PROVE  /\ Unkilled(f, q) \in Table
           /\ \A r \in Slots :
                 /\ Unkilled(f, q)[r].killed <=> (r # q /\ f[r].killed)
                 /\ Unkilled(f, q)[r].state = f[r].state
                 /\ Unkilled(f, q)[r].parent = f[r].parent
                 /\ Unkilled(f, q)[r].chan = f[r].chan
                 /\ Unkilled(f, q)[r].kstack = f[r].kstack
                 /\ Unkilled(f, q)[r].isThread = f[r].isThread
                 /\ Unkilled(f, q)[r].t = f[r].t
  <1>1. \A r \in Slots : f[r] \in Process  BY DEF Table
  <1>2. ASSUME NEW r \in Slots
        PROVE  /\ Unkilled(f, q)[r].killed <=> (r # q /\ f[r].killed)
               /\ Unkilled(f, q)[r].state = f[r].state
               /\ Unkilled(f, q)[r].parent = f[r].parent
               /\ Unkilled(f, q)[r].chan = f[r].chan
               /\ Unkilled(f, q)[r].kstack = f[r].kstack
               /\ Unkilled(f, q)[r].isThread = f[r].isThread
               /\ Unkilled(f, q)[r].t = f[r].t
    BY <1>1 DEF Unkilled, Table, Process
  <1>3. ASSUME NEW r \in Slots  PROVE Unkilled(f, q)[r] \in Process
    <2>1. [f[r] EXCEPT !.killed = FALSE] \in Process  BY <1>1 DEF Process
    <2>2. Unkilled(f, q)[r] = [f[r] EXCEPT !.killed = FALSE] \/ Unkilled(f, q)[r] = f[r]
      BY DEF Unkilled, Table
    <2> QED  BY <1>1, <2>1, <2>2
  <1>4. Unkilled(f, q) = [r \in Slots |-> Unkilled(f, q)[r]]  BY DEF Unkilled, Table
  <1>5. Unkilled(f, q) \in Table  BY <1>3, <1>4 DEF Table
  <1> QED  BY <1>2, <1>5


\* wakeup1 changes the state of those who sleep on the channel, nothing else.
LEMMA WokenUp ==
    ASSUME NEW f \in Table, NEW c
    PROVE  /\ wakeup1(f, c) \in Table
           /\ \A r \in Slots :
                 /\ wakeup1(f, c)[r].state =
                        IF f[r].state = "SLEEPING" /\ f[r].chan = c THEN "RUNNABLE" ELSE f[r].state
                 /\ wakeup1(f, c)[r].parent = f[r].parent
                 /\ wakeup1(f, c)[r].chan = f[r].chan
                 /\ wakeup1(f, c)[r].killed = f[r].killed
                 /\ wakeup1(f, c)[r].kstack = f[r].kstack
                 /\ wakeup1(f, c)[r].isThread = f[r].isThread
                 /\ wakeup1(f, c)[r].t = f[r].t
  BY DEF wakeup1, Table, Process, States

\* A zombie's slot given back, as wait() does.
Release(f, q) == [f EXCEPT ![q] = Freed(@)]

\* A slot given back is UNUSED, without stack, parent or kill; no other changes.
LEMMA Released ==
    ASSUME NEW f \in Table, NEW q
    PROVE  /\ Release(f, q) \in Table
           /\ \A r \in Slots :
                 /\ r = q => /\ Release(f, q)[r].state = "UNUSED" /\ Release(f, q)[r].parent = None
                             /\ ~Release(f, q)[r].killed /\ ~Release(f, q)[r].kstack
                             /\ Release(f, q)[r].chan = f[r].chan
                             /\ Release(f, q)[r].isThread = f[r].isThread
                             /\ Release(f, q)[r].t = f[r].t
                 /\ r # q => Release(f, q)[r] = f[r]
  <1> DEFINE a == TakeStack(f, q)  b == TakePid(a, q)  c == SetParent(b, q, None)
             d == Unkilled(c, q)  e == SetState(d, q, "UNUSED")
  <1>1. None \in Slots \cup {None} /\ "UNUSED" \in States /\ FALSE \in BOOLEAN  BY DEF States
  <1>2. a \in Table /\ b \in Table /\ c \in Table /\ d \in Table /\ e \in Table
    BY <1>1, TakeStackSet, TakePidSet, ParentSet, UnkilledSet, StateSet
  <1>3. Release(f, q) = e
    <2>1. ASSUME NEW r \in Slots  PROVE Release(f, q)[r] = e[r]
      BY DEF Release, Freed, TakeStack, TakePid, SetParent, Unkilled, SetState, Table
    <2> QED  BY <2>1, <1>2 DEF Release, Table
  <1>4. ASSUME NEW r \in Slots
        PROVE  /\ r = q => /\ e[r].state = "UNUSED" /\ e[r].parent = None
                           /\ ~e[r].killed /\ ~e[r].kstack /\ e[r].chan = f[r].chan
                           /\ e[r].isThread = f[r].isThread /\ e[r].t = f[r].t
               /\ r # q => e[r] = f[r]
    <2>1. r # q => e[r] = f[r]
      BY DEF TakeStack, TakePid, SetParent, Unkilled, SetState, Table
    <2>2. a[r].state = f[r].state /\ a[r].parent = f[r].parent /\ a[r].chan = f[r].chan
          /\ a[r].killed = f[r].killed /\ a[r].isThread = f[r].isThread /\ a[r].t = f[r].t
          /\ (r = q => ~a[r].kstack)
      BY TakeStackSet
    <2>3. /\ b[r].chan = a[r].chan /\ b[r].kstack = a[r].kstack
          /\ b[r].isThread = a[r].isThread /\ b[r].t = a[r].t
      <3> HIDE DEF a
      <3> QED  BY <1>2, TakePidSet
    <2>4. /\ c[r].chan = b[r].chan /\ c[r].kstack = b[r].kstack
          /\ c[r].isThread = b[r].isThread /\ c[r].t = b[r].t /\ (r = q => c[r].parent = None)
      <3> HIDE DEF b
      <3> QED  BY <1>1, <1>2, ParentSet
    <2>5. /\ d[r].chan = c[r].chan /\ d[r].kstack = c[r].kstack /\ d[r].parent = c[r].parent
          /\ d[r].isThread = c[r].isThread /\ d[r].t = c[r].t /\ (r = q => ~d[r].killed)
      <3> HIDE DEF c
      <3> QED  BY <1>2, UnkilledSet
    <2>6. /\ e[r].chan = d[r].chan /\ e[r].kstack = d[r].kstack /\ e[r].parent = d[r].parent
          /\ e[r].killed = d[r].killed
          /\ e[r].isThread = d[r].isThread /\ e[r].t = d[r].t /\ (r = q => e[r].state = "UNUSED")
      <3> HIDE DEF d
      <3> QED  BY <1>1, <1>2, StateSet
    <2> HIDE DEF a, b, c, d, e
    <2>7. /\ r = q => /\ e[r].state = "UNUSED" /\ e[r].parent = None
                      /\ ~e[r].killed /\ ~e[r].kstack
          /\ e[r].chan = f[r].chan /\ e[r].isThread = f[r].isThread /\ e[r].t = f[r].t
      BY <2>2, <2>3, <2>4, <2>5, <2>6
    <2> QED  BY <2>1, <2>7
  <1> QED  BY <1>2, <1>3, <1>4

\* The children in S handed to initproc.
GiveToInit(f, S) == [q \in Slots |-> IF q \in S THEN [f[q] EXCEPT !.parent = initproc] ELSE f[q]]

\* exit() hands children to initproc and changes nothing else in the table.
LEMMA GivenToInit ==
    ASSUME NEW f \in Table, NEW S
    PROVE  /\ GiveToInit(f, S) \in Table
           /\ \A r \in Slots :
                 /\ GiveToInit(f, S)[r].parent = IF r \in S THEN initproc ELSE f[r].parent
                 /\ GiveToInit(f, S)[r].state = f[r].state
                 /\ GiveToInit(f, S)[r].chan = f[r].chan
                 /\ GiveToInit(f, S)[r].killed = f[r].killed
                 /\ GiveToInit(f, S)[r].kstack = f[r].kstack
                 /\ GiveToInit(f, S)[r].isThread = f[r].isThread
                 /\ GiveToInit(f, S)[r].t = f[r].t
  <1>1. initproc \in Slots  BY ProcConstants DEF initproc, Slots
  <1> QED  BY <1>1 DEF GiveToInit, Table, Process

-----------------------------------------------------------------------------
\* Min of a nonempty set of naturals.
LEMMA Least ==
    ASSUME NEW S, S \subseteq Nat, S # {}
    PROVE  Min(S) \in S /\ \A y \in S : Min(S) <= y
  <1> DEFINE R == OpToRel(<, Nat)
  <1>1. IsWellFoundedOn(R, Nat)  BY NatLessThanWellFounded
  <1>2. \A x, y \in Nat : y < x => <<y, x>> \in R  BY DEF OpToRel
  <1> HIDE DEF R
  <1>3. PICK x \in S : \A y \in S : ~ (<<y, x>> \in R)  BY <1>1, WFMin
  <1>4. \A y \in S : x <= y
    <2> TAKE y \in S
    <2>1. x \in Nat /\ y \in Nat /\ ~(y < x)  BY <1>2, <1>3
    <2> QED  BY <2>1
  <1> QED  BY <1>4 DEF Min

\* What the constants say of slots, thread ids and the null pointer.
LEMMA Constants ==
    /\ Slots \subseteq Nat /\ Tids \subseteq Nat /\ None \notin Slots
    /\ initproc \in Slots /\ 0 \in Tids
  BY ProcConstants DEF Slots, Tids, None, initproc

\* The part of TypeOK about the table, kept folded.
Typed == ptable \in Table

\* TypeOK with that part folded.
LEMMA TypedIs ==
    TypeOK <=> /\ Typed /\ on \subseteq Slots /\ pc \in [Slots -> Steps]
               /\ loc \in [Slots -> Slots \cup Tids \cup {None}]
               /\ gave \in [Slots -> Values \cup {NoValue}]
               /\ got \in [Slots -> Values \cup {NoValue}]
  BY DEF TypeOK, Typed, Table, Process

\* allocproc finds no slot, or takes one that is UNUSED and makes it EMBRYO.
LEMMA AllocTable ==
    ASSUME NEW p, NEW call, NEW next, Alloc(p, call, next)
    PROVE  \/ Unused = {} /\ ptable' = ptable /\ Return(p)
           \/ \E m \in Slots : /\ ptable[m].state = "UNUSED"
                               /\ ptable' = GivePid(SetState(ptable, m, "EMBRYO"), m)
                               /\ loc' = [loc EXCEPT ![p] = m]
                               /\ Goto(p, next)
  <1>1. CASE Unused = {}  BY <1>1 DEF Alloc
  <1>2. CASE Unused # {}
    <2>1. Min(Unused) \in Unused  BY <1>2, Least, Constants DEF Unused
    <2> DEFINE m == Min(Unused)
    <2>2. m \in Slots /\ ptable[m].state = "UNUSED"  BY <2>1 DEF Unused
    <2>3. /\ ptable' = GivePid(SetState(ptable, m, "EMBRYO"), m)
          /\ loc' = [loc EXCEPT ![p] = m]
          /\ Goto(p, next)
      BY <1>2 DEF Alloc, GivePid, SetState
    <2> HIDE DEF m
    <2> QED  BY <2>2, <2>3
  <1> QED  BY <1>1, <1>2

\* fork gives the new slot its stack and its parent.
LEMMA ForkSetupTable ==
    ASSUME NEW p, ForkSetup(p)
    PROVE  ptable' = SetParent(GiveStack(ptable, loc[p]), loc[p], p)
  BY DEF ForkSetup, SetParent, GiveStack

\* wait reaps a zombie child, returns because there is no child or the caller
\* was killed, or sleeps.
LEMMA WaitTable ==
    ASSUME NEW p, WaitScan(p)
    PROVE  LET kids == {q \in Slots : ptable[q].parent = p}
               dead == {q \in kids : ptable[q].state = "ZOMBIE" /\ ~ptable[q].isThread}
           IN  \/ \E d \in dead : /\ ptable' = SetChan(Release(ptable, d), p, None)
                                  /\ Return(p) /\ on' = on
               \/ /\ dead = {} /\ (kids = {} \/ ptable[p].killed)
                  /\ ptable' = SetChan(ptable, p, None)
                  /\ Return(p) /\ on' = on
               \/ /\ dead = {} /\ kids # {} /\ ~ptable[p].killed
                  /\ ptable' = SetChan(SetState(ptable, p, "SLEEPING"), p, p)
                  /\ on' = on \ {p} /\ Goto(p, "wait") /\ loc' = loc
  <1> DEFINE kids == {q \in Slots : ptable[q].parent = p}
             dead == {q \in kids : ptable[q].state = "ZOMBIE" /\ ~ptable[q].isThread}
  <1>1. CASE dead # {}
    <2>1. Min(dead) \in dead  BY <1>1, Least, Constants
    <2>2. /\ ptable' = SetChan(Release(ptable, Min(dead)), p, None)
          /\ Return(p) /\ on' = on
      BY <1>1 DEF WaitScan, SetChan, Release
    <2> QED  BY <2>1, <2>2
  <1>2. CASE dead = {}
    BY <1>2 DEF WaitScan, SetChan, SetState, Sleep
  <1> QED  BY <1>1, <1>2

\* kill marks a process and makes it RUNNABLE if it sleeps.
LEMMA KillTable ==
    ASSUME NEW p, NEW q, Kill(p, q)
    PROVE  ptable' = SetState(MarkKilled(ptable, q), q,
                              IF ptable[q].state = "SLEEPING" THEN "RUNNABLE" ELSE ptable[q].state)
  <1>1. ptable' = [ptable EXCEPT ![q].killed = TRUE, ![q].state = IF @ = "SLEEPING" THEN "RUNNABLE" ELSE @]
    BY DEF Kill
  <1> QED  BY <1>1 DEF SetState, MarkKilled

\* No program creates threads, so that none of their calls happens either.
NoThreads == Threaded = {} /\ "thread_join" \notin Calls /\ "thread_exit" \notin Calls

\* A process that has not exited.
Alive(p) == ptable[p].state \in {"RUNNABLE", "RUNNING", "SLEEPING"}

\* A process inside fork, between taking the slot and starting it.
Builds(p) == pc[p] \in {"fork1", "start"}

\* No slot is a thread and no process has any.
Plain == \A p \in Slots : /\ ~ptable[p].isThread /\ ptable[p].t = {}
                          /\ pc[p] \in {"user", "sys", "fork1", "start", "wait", "panic"}

\* Only a process that has not exited has a kernel step to take.
InCall == \A p \in Slots : pc[p] # "user" => Alive(p)

\* Who sleeps is in wait(), sleeps on itself, is not killed and has a child.
Asleep == \A p \in Slots : ptable[p].state = "SLEEPING" =>
              /\ pc[p] = "wait" /\ ptable[p].chan = p /\ ~ptable[p].killed
              /\ \E q \in Slots : ptable[q].parent = p

\* The slot under construction: EMBRYO, with or without stack and parent
\* depending on how far fork is, and nobody else's.
Building ==
    /\ \A p \in Slots : Builds(p) =>
          /\ loc[p] \in Slots /\ ptable[loc[p]].state = "EMBRYO"
          /\ pc[p] = "fork1" => ~ptable[loc[p]].kstack /\ ptable[loc[p]].parent = None
          /\ pc[p] = "start" => ptable[loc[p]].kstack /\ ptable[loc[p]].parent = p
    /\ \A p, q \in Slots : Builds(p) /\ Builds(q) /\ loc[p] = loc[q] => p = q

\* Every EMBRYO slot is under construction.
Built == \A q \in Slots : ptable[q].state = "EMBRYO" => \E p \in Slots : Builds(p) /\ loc[p] = q

\* Parents have not exited and their children's slots are in use; who is in
\* use has a parent, except initproc, which never exits.
Family ==
    /\ \A q \in Slots : ptable[q].parent # None => Alive(ptable[q].parent) /\ ptable[q].state # "UNUSED"
    /\ \A q \in Slots \ {initproc} :
          ptable[q].state \notin {"UNUSED", "EMBRYO"} => ptable[q].parent # None
    /\ Alive(initproc) /\ ptable[initproc].parent = None

\* No zombie waits for a parent that sleeps: exit() wakes the parent, and the
\* other processes' exits wake initproc for the zombies they hand over.
Reaped == \A p, q \in Slots :
    ptable[p].state = "SLEEPING" /\ ptable[q].parent = p => ptable[q].state # "ZOMBIE"

\* No nonempty set of processes contains a child of each of its members.
Grounded == \A S \in SUBSET Slots :
    S # {} => \E p \in S : \A q \in S : ptable[q].parent # p

\* The inductive invariant.
ProcInv == /\ TypeOK /\ Plain /\ OnCpu /\ InCall /\ Asleep /\ Building /\ Built
           /\ StacksHeld /\ Family /\ Reaped /\ Grounded
-----------------------------------------------------------------------------
\* Without threads the steps of a process are those of fork, exit, wait and kill.
LEMMA OnlyPlain ==
    ASSUME NoThreads, ProcInv, NEW p \in Slots, Step(p)
    PROVE  \/ Fork(p) \/ AllocFail(p) \/ ForkSetup(p) \/ Start(p) \/ WaitScan(p)
           \/ Exit(p) \/ InitExit(p) \/ \E q \in Slots : Kill(p, q)
  <1>1. /\ ~ptable[p].isThread
        /\ pc[p] \notin {"thread1", "thread2", "join", "exit_thread", "texit_sibling",
                         "texit_parent", "texit_parents", "texit_self"}
    BY DEF ProcInv, Plain
  <1>2. ~ThreadCreate(p)  BY DEF ThreadCreate, NoThreads
  <1>3. ~ThreadSetup(p) /\ ~StackFail(p) /\ ~StackDone(p)
    BY <1>1 DEF ThreadSetup, StackFail, StackDone, At
  <1>4. \A thread \in Tids : ~JoinScan(p, thread)
    BY <1>1 DEF JoinScan, Makes, At, NoThreads
  <1>5. \A v \in Values : ~ThreadExit(p, v)
    BY <1>1 DEF ThreadExit, Makes, NoThreads
  <1>6. /\ ~ExitThread(p) /\ ~ThreadProcExit(p) /\ ~TexitSibling(p) /\ ~TexitParent(p)
        /\ ~TexitParents(p) /\ ~TexitSelf(p)
    BY <1>1 DEF ExitThread, ThreadProcExit, TexitSibling, TexitParent, TexitParents,
                TexitSelf, At
  <1> QED  BY <1>2, <1>3, <1>4, <1>5, <1>6 DEF Step, Create, Join, Leave

\* Parent links may be cut.
LEMMA FewerLinks ==
    ASSUME Grounded, \A q \in Slots : ptable'[q].parent \in {ptable[q].parent, None}
    PROVE  Grounded'
  BY Constants DEF Grounded

\* Who executes is RUNNING.
LEMMA Running ==
    ASSUME ProcInv, NEW p \in Slots, p \in on
    PROVE  ptable[p].state = "RUNNING"
  BY DEF ProcInv, OnCpu

\* A system call that returns without touching the table keeps the invariant.
LEMMA Returns ==
    ASSUME ProcInv, NEW p \in Slots, p \in on, ~Builds(p), Return(p),
           ptable' = ptable, on' = on, gave' = gave, got' = got
    PROVE  ProcInv'
  <1>1. ptable[p].state = "RUNNING"  BY Running
  <1>2. pc \in [Slots -> Steps] /\ loc \in [Slots -> Slots \cup Tids \cup {None}]
    BY DEF ProcInv, TypeOK
  <1>3. /\ \A q \in Slots : pc'[q] = IF q = p THEN "user" ELSE pc[q]
        /\ \A q \in Slots : loc'[q] = IF q = p THEN None ELSE loc[q]
    BY <1>2 DEF Return, Goto
  <1>4. TypeOK'
    <2>1. pc' \in [Slots -> Steps] /\ loc' \in [Slots -> Slots \cup Tids \cup {None}]
      BY <1>2 DEF Return, Goto, Steps
    <2> QED  BY <2>1 DEF ProcInv, TypeOK
  <1>5. Plain' /\ OnCpu' /\ InCall'  BY <1>1, <1>3 DEF ProcInv, Plain, OnCpu, InCall, Alive
  <1>6. Asleep'  BY <1>1, <1>3 DEF ProcInv, Asleep
  <1>7. \A q \in Slots : /\ Builds(q)' <=> Builds(q)
                         /\ Builds(q) => pc'[q] = pc[q] /\ loc'[q] = loc[q]
    BY <1>3 DEF Builds
  <1>8. Building'  BY <1>7 DEF ProcInv, Building
  <1>9. Built'  BY <1>7 DEF ProcInv, Built
  <1>10. StacksHeld' /\ Family' /\ Reaped' /\ Grounded'
    BY DEF ProcInv, StacksHeld, Family, Alive, Reaped, Grounded
  <1> QED  BY <1>4, <1>5, <1>6, <1>8, <1>9, <1>10 DEF ProcInv

\* When the parent links stay and nobody dies, the families stay.
LEMMA FamilyStays ==
    ASSUME ProcInv,
           \A q \in Slots : /\ ptable'[q].parent = ptable[q].parent
                            /\ Alive(q) => Alive(q)'
                            /\ ptable'[q].state = "UNUSED" => ptable[q].parent = None
                            /\ ptable'[q].state \notin {"UNUSED", "EMBRYO"} =>
                                  \/ ptable[q].state \notin {"UNUSED", "EMBRYO"}
                                  \/ ptable[q].parent # None
    PROVE  Family'
  <1>1. \A q \in Slots : ptable[q].parent \in Slots \cup {None}
    BY DEF ProcInv, TypeOK
  <1>2. ASSUME NEW q \in Slots, ptable'[q].parent # None
        PROVE  /\ ptable'[ptable'[q].parent].state \in {"RUNNABLE", "RUNNING", "SLEEPING"}
               /\ ptable'[q].state # "UNUSED"
    <2>1. ptable[q].parent \in Slots /\ ptable'[q].parent = ptable[q].parent  BY <1>1, <1>2
    <2>2. Alive(ptable[q].parent) /\ ptable[q].state # "UNUSED"
      BY <2>1, Constants DEF ProcInv, Family
    <2>3. PICK r \in Slots : r = ptable[q].parent  BY <2>1
    <2>4. Alive(r)'  BY <2>2, <2>3
    <2>5. ptable[q].parent # None  BY <2>1, Constants
    <2> QED  BY <2>1, <2>3, <2>4, <2>5 DEF Alive
  <1>3. \A q \in Slots \ {initproc} :
            ptable'[q].state \notin {"UNUSED", "EMBRYO"} => ptable'[q].parent # None
    BY DEF ProcInv, Family
  <1>4. Alive(initproc)' /\ ptable'[initproc].parent = None
    BY Constants DEF ProcInv, Family
  <1> QED  BY <1>2, <1>3, <1>4 DEF Family, Alive

\* trap() into a system call changes no process.
LEMMA ByTrap ==
    ASSUME ProcInv, NEW p \in Slots, Trap(p)
    PROVE  ProcInv'
  <1>1. ptable' = ptable /\ on' = on /\ loc' = loc /\ gave' = gave /\ got' = got
        /\ pc' = [pc EXCEPT ![p] = "sys"] /\ p \in on /\ pc[p] = "user"
    BY DEF Trap, At, Goto
  <1>2. ptable[p].state = "RUNNING"  BY <1>1, Running
  <1>3. pc \in [Slots -> Steps]  BY DEF ProcInv, TypeOK
  <1>4. \A q \in Slots : pc'[q] = IF q = p THEN "sys" ELSE pc[q]  BY <1>1, <1>3
  <1>5. TypeOK'  BY <1>1, <1>3 DEF ProcInv, TypeOK, Steps
  <1>6. Plain' /\ OnCpu' /\ InCall'  BY <1>1, <1>2, <1>4 DEF ProcInv, Plain, OnCpu, InCall, Alive
  <1>7. Asleep'  BY <1>1, <1>2, <1>4 DEF ProcInv, Asleep
  <1>8. \A q \in Slots : Builds(q)' <=> Builds(q)  BY <1>1, <1>4 DEF Builds
  <1>9. Building'
    <2>1. \A q \in Slots : Builds(q) => pc'[q] = pc[q]  BY <1>1, <1>4 DEF Builds
    <2> QED  BY <1>1, <1>8, <2>1 DEF ProcInv, Building
  <1>10. Built'  BY <1>1, <1>8 DEF ProcInv, Built
  <1>11. StacksHeld' /\ Family' /\ Reaped' /\ Grounded'
    BY <1>1 DEF ProcInv, StacksHeld, Family, Alive, Reaped, Grounded
  <1> QED  BY <1>5, <1>6, <1>7, <1>9, <1>10, <1>11 DEF ProcInv

\* The scheduler and yield exchange RUNNING and RUNNABLE.
LEMMA ByDispatch ==
    ASSUME ProcInv, NEW p \in Slots, Dispatch(p) \/ Yield(p)
    PROVE  ProcInv'
  <1> PICK x \in {"RUNNING", "RUNNABLE"} : ptable' = SetState(ptable, p, x)
           /\ (x = "RUNNING" => on' = on \cup {p})
           /\ (x = "RUNNABLE" => on' = on \ {p})
    BY DEF Dispatch, Yield, SetState
  <1>1. pc' = pc /\ loc' = loc /\ gave' = gave /\ got' = got
        /\ ptable[p].state \in {"RUNNING", "RUNNABLE"}
    BY DEF Dispatch, Yield
  <1>2. ptable \in Table /\ x \in States  BY TypedIs DEF ProcInv, Typed, States
  <1>3. /\ ptable' \in Table
        /\ \A r \in Slots :
              /\ ptable'[r].state = IF r = p THEN x ELSE ptable[r].state
              /\ ptable'[r].parent = ptable[r].parent
              /\ ptable'[r].chan = ptable[r].chan
              /\ ptable'[r].killed = ptable[r].killed
              /\ ptable'[r].kstack = ptable[r].kstack
              /\ ptable'[r].isThread = ptable[r].isThread
              /\ ptable'[r].t = ptable[r].t
    BY <1>2, StateSet
  <1>4. TypeOK'
    <2>1. on' \subseteq Slots  BY DEF ProcInv, TypeOK
    <2> QED  BY <1>1, <1>3, <2>1 DEF ProcInv, TypeOK, Table, Process
  <1>5. Plain' /\ OnCpu' /\ InCall'  BY <1>1, <1>3 DEF ProcInv, Plain, OnCpu, InCall, Alive
  <1>6. Asleep'  BY <1>1, <1>3 DEF ProcInv, Asleep
  <1>7. Building'
    <2>1. \A q \in Slots : Builds(q) => loc[q] # p  BY <1>1 DEF ProcInv, Building
    <2> QED  BY <1>1, <1>3, <2>1 DEF ProcInv, Building, Builds
  <1>8. Built'  BY <1>1, <1>3 DEF ProcInv, Built, Builds
  <1>9. StacksHeld'  BY <1>1, <1>3 DEF ProcInv, StacksHeld
  <1>10. Family'
    <2>1. \A q \in Slots : Alive(q) => Alive(q)'  BY <1>3 DEF Alive
    <2>2. \A q \in Slots : ptable[q].state = "UNUSED" => ptable[q].parent = None
      BY DEF ProcInv, Family
    <2> QED  BY <1>1, <1>3, <2>1, <2>2, FamilyStays
  <1>11. Reaped' /\ Grounded'  BY <1>1, <1>3, FewerLinks DEF ProcInv, Reaped
  <1> QED  BY <1>4, <1>5, <1>6, <1>7, <1>8, <1>9, <1>10, <1>11 DEF ProcInv

\* fork's allocproc takes an UNUSED slot, which nobody else builds.
LEMMA ByFork ==
    ASSUME ProcInv, NEW p \in Slots, Fork(p)
    PROVE  ProcInv'
  <1>1. /\ Alloc(p, "fork", "fork1") /\ on' = on /\ gave' = gave /\ got' = got
        /\ p \in on /\ pc[p] = "sys"
    BY DEF Fork, Alloc, Makes, At
  <1>2. ptable[p].state = "RUNNING"  BY <1>1, Running
  <1>3. ptable \in Table /\ pc \in [Slots -> Steps] /\ loc \in [Slots -> Slots \cup Tids \cup {None}]
        /\ on \subseteq Slots
    BY TypedIs DEF ProcInv, Typed
  <1>4. CASE ptable' = ptable /\ Return(p)
    <2>1. ~Builds(p)  BY <1>1 DEF Builds
    <2> QED  BY <1>1, <1>4, <2>1, Returns
  <1>5. ASSUME NEW m \in Slots, ptable[m].state = "UNUSED",
               ptable' = GivePid(SetState(ptable, m, "EMBRYO"), m),
               loc' = [loc EXCEPT ![p] = m], Goto(p, "fork1")
        PROVE  ProcInv'
    <2> DEFINE f == SetState(ptable, m, "EMBRYO")
    <2>1. /\ f \in Table
          /\ \A r \in Slots :
                /\ f[r].state = IF r = m THEN "EMBRYO" ELSE ptable[r].state
                /\ f[r].parent = ptable[r].parent
                /\ f[r].chan = ptable[r].chan
                /\ f[r].killed = ptable[r].killed
                /\ f[r].kstack = ptable[r].kstack
                /\ f[r].isThread = ptable[r].isThread
                /\ f[r].t = ptable[r].t
      BY <1>3, StateSet DEF States
    <2>2. ptable' = GivePid(f, m)  BY <1>5
    <2> HIDE DEF f
    <2>3. /\ ptable' \in Table
          /\ \A r \in Slots :
                /\ ptable'[r].state = IF r = m THEN "EMBRYO" ELSE ptable[r].state
                /\ ptable'[r].parent = ptable[r].parent
                /\ ptable'[r].chan = ptable[r].chan
                /\ ptable'[r].killed = ptable[r].killed
                /\ ptable'[r].kstack = ptable[r].kstack
                /\ ptable'[r].isThread = ptable[r].isThread
                /\ ptable'[r].t = ptable[r].t
      <3>1. ptable' \in Table  BY <2>1, <2>2, GivePidSet
      <3> SUFFICES ASSUME NEW r \in Slots
                   PROVE  /\ ptable'[r].state = f[r].state
                          /\ ptable'[r].parent = f[r].parent
                          /\ ptable'[r].chan = f[r].chan
                          /\ ptable'[r].killed = f[r].killed
                          /\ ptable'[r].kstack = f[r].kstack
                          /\ ptable'[r].isThread = f[r].isThread
                          /\ ptable'[r].t = f[r].t
        BY <2>1, <3>1
      <3> QED  BY <2>1, <2>2, GivePidSet
    <2>4. /\ \A q \in Slots : pc'[q] = IF q = p THEN "fork1" ELSE pc[q]
          /\ \A q \in Slots : loc'[q] = IF q = p THEN m ELSE loc[q]
          /\ m # p
      BY <1>2, <1>3, <1>5 DEF Goto
    <2>5. TypeOK'
      <3>1. pc' \in [Slots -> Steps] /\ loc' \in [Slots -> Slots \cup Tids \cup {None}]
        BY <1>3, <1>5 DEF Goto, Steps
      <3> QED  BY <1>1, <2>3, <3>1 DEF ProcInv, TypeOK, Table, Process
    <2>6. Plain' /\ OnCpu' /\ InCall'
      BY <1>1, <1>2, <1>5, <2>3, <2>4 DEF ProcInv, Plain, OnCpu, InCall, Alive
    <2>7. Asleep'  BY <1>2, <2>3, <2>4 DEF ProcInv, Asleep
    <2>8. \A q \in Slots : /\ q # p => (Builds(q)' <=> Builds(q)) /\ pc'[q] = pc[q] /\ loc'[q] = loc[q]
                           /\ Builds(q) => loc[q] # m
      BY <1>5, <2>4 DEF ProcInv, Building, Builds
    <2>9. ~ptable[m].kstack /\ ptable[m].parent = None
      BY <1>5 DEF ProcInv, StacksHeld, Family
    <2>10. Building'  BY <2>3, <2>4, <2>8, <2>9 DEF ProcInv, Building
    <2>11. Built'
      <3>1. ~Builds(p) /\ Builds(p)' /\ loc'[p] = m  BY <1>1, <2>4 DEF Builds
      <3> QED  BY <2>3, <2>8, <3>1 DEF ProcInv, Built
    <2>12. StacksHeld'  BY <2>3 DEF ProcInv, StacksHeld
    <2>13. Family'
      <3>1. \A q \in Slots : Alive(q) => Alive(q)'  BY <1>5, <2>3 DEF Alive
      <3>2. \A q \in Slots : ptable[q].state = "UNUSED" => ptable[q].parent = None
        BY DEF ProcInv, Family
      <3> QED  BY <2>3, <3>1, <3>2, FamilyStays
    <2>14. Reaped' /\ Grounded'  BY <2>3, FewerLinks DEF ProcInv, Reaped
    <2> QED  BY <2>5, <2>6, <2>7, <2>10, <2>11, <2>12, <2>13, <2>14 DEF ProcInv
  <1> QED  BY <1>1, <1>4, <1>5, AllocTable

\* fork's early return gives the slot back.
LEMMA ByAllocFail ==
    ASSUME ProcInv, NEW p \in Slots, AllocFail(p)
    PROVE  ProcInv'
  <1>1. p \in on /\ pc[p] = "fork1" /\ Builds(p)
    BY DEF ProcInv, Plain, AllocFail, At, Builds
  <1>2. ptable[p].state = "RUNNING"  BY <1>1, Running
  <1>3. ptable \in Table /\ pc \in [Slots -> Steps] /\ loc \in [Slots -> Slots \cup Tids \cup {None}]
    BY TypedIs DEF ProcInv, Typed
  <1>4. PICK m \in Slots : /\ loc[p] = m /\ ptable[m].state = "EMBRYO"
                           /\ ~ptable[m].kstack /\ ptable[m].parent = None
    BY <1>1 DEF ProcInv, Building
  <1>5. /\ ptable' = SetState(ptable, m, "UNUSED") /\ Return(p)
        /\ on' = on /\ gave' = gave /\ got' = got
    BY <1>4 DEF AllocFail, SetState
  <1>6. /\ ptable' \in Table
        /\ \A r \in Slots :
              /\ ptable'[r].state = IF r = m THEN "UNUSED" ELSE ptable[r].state
              /\ ptable'[r].parent = ptable[r].parent
              /\ ptable'[r].chan = ptable[r].chan
              /\ ptable'[r].killed = ptable[r].killed
              /\ ptable'[r].kstack = ptable[r].kstack
              /\ ptable'[r].isThread = ptable[r].isThread
              /\ ptable'[r].t = ptable[r].t
    BY <1>3, <1>5, StateSet DEF States
  <1>7. /\ \A q \in Slots : pc'[q] = IF q = p THEN "user" ELSE pc[q]
        /\ \A q \in Slots : loc'[q] = IF q = p THEN None ELSE loc[q]
        /\ m # p
    BY <1>2, <1>3, <1>4, <1>5 DEF Return, Goto
  <1>8. TypeOK'
    <2>1. pc' \in [Slots -> Steps] /\ loc' \in [Slots -> Slots \cup Tids \cup {None}]
      BY <1>3, <1>5 DEF Return, Goto, Steps
    <2> QED  BY <1>5, <1>6, <2>1 DEF ProcInv, TypeOK, Table, Process
  <1>9. Plain' /\ OnCpu' /\ InCall'
    BY <1>1, <1>2, <1>4, <1>5, <1>6, <1>7 DEF ProcInv, Plain, OnCpu, InCall, Alive
  <1>10. Asleep'  BY <1>2, <1>6, <1>7 DEF ProcInv, Asleep
  <1>11. \A q \in Slots : /\ Builds(q)' <=> (Builds(q) /\ q # p)
                          /\ Builds(q)' => pc'[q] = pc[q] /\ loc'[q] = loc[q] /\ loc[q] # m
    BY <1>1, <1>4, <1>7 DEF ProcInv, Building, Builds
  <1>12. Building'  BY <1>6, <1>11 DEF ProcInv, Building
  <1>13. Built'  BY <1>4, <1>6, <1>11 DEF ProcInv, Built
  <1>14. StacksHeld'  BY <1>4, <1>6 DEF ProcInv, StacksHeld
  <1>15. Family'
    <2>1. \A q \in Slots : Alive(q) => Alive(q)'  BY <1>4, <1>6 DEF Alive
    <2>2. \A q \in Slots : ptable[q].state = "UNUSED" => ptable[q].parent = None
      BY DEF ProcInv, Family
    <2> QED  BY <1>4, <1>6, <2>1, <2>2, FamilyStays
  <1>16. Reaped' /\ Grounded'  BY <1>6, FewerLinks DEF ProcInv, Reaped
  <1> QED  BY <1>8, <1>9, <1>10, <1>12, <1>13, <1>14, <1>15, <1>16 DEF ProcInv

\* The new child is a leaf: its link closes no cycle.
LEMMA ByForkSetup ==
    ASSUME ProcInv, NEW p \in Slots, ForkSetup(p)
    PROVE  ProcInv'
  <1>1. p \in on /\ pc[p] = "fork1" /\ Builds(p)  BY DEF ForkSetup, At, Builds
  <1>2. ptable[p].state = "RUNNING"  BY <1>1, Running
  <1>3. ptable \in Table /\ pc \in [Slots -> Steps]
    BY TypedIs DEF ProcInv, Typed
  <1>4. PICK m \in Slots : /\ loc[p] = m /\ ptable[m].state = "EMBRYO"
                           /\ ~ptable[m].kstack /\ ptable[m].parent = None
    BY <1>1 DEF ProcInv, Building
  <1> DEFINE f == GiveStack(ptable, m)
  <1>5. /\ ptable' = SetParent(f, m, p) /\ Goto(p, "start")
        /\ on' = on /\ loc' = loc /\ gave' = gave /\ got' = got
    BY <1>4, ForkSetupTable DEF ForkSetup
  <1>6. /\ f \in Table
        /\ \A r \in Slots :
              /\ f[r].state = ptable[r].state
              /\ f[r].parent = ptable[r].parent
              /\ f[r].chan = ptable[r].chan
              /\ f[r].killed = ptable[r].killed
              /\ f[r].kstack <=> (r = m \/ ptable[r].kstack)
              /\ f[r].isThread = ptable[r].isThread
              /\ f[r].t = ptable[r].t
    BY <1>3, GiveStackSet
  <1> HIDE DEF f
  <1>7. /\ ptable' \in Table
        /\ \A r \in Slots :
              /\ ptable'[r].state = ptable[r].state
              /\ ptable'[r].parent = IF r = m THEN p ELSE ptable[r].parent
              /\ ptable'[r].chan = ptable[r].chan
              /\ ptable'[r].killed = ptable[r].killed
              /\ ptable'[r].kstack <=> (r = m \/ ptable[r].kstack)
              /\ ptable'[r].isThread = ptable[r].isThread
              /\ ptable'[r].t = ptable[r].t
    <2>1. ptable' \in Table  BY <1>5, <1>6, ParentSet
    <2> SUFFICES ASSUME NEW r \in Slots
                 PROVE  /\ ptable'[r].state = f[r].state
                        /\ ptable'[r].parent = IF r = m THEN p ELSE f[r].parent
                        /\ ptable'[r].chan = f[r].chan
                        /\ ptable'[r].killed = f[r].killed
                        /\ ptable'[r].kstack = f[r].kstack
                        /\ ptable'[r].isThread = f[r].isThread
                        /\ ptable'[r].t = f[r].t
      BY <1>6, <2>1
    <2> QED  BY <1>5, <1>6, ParentSet
  <1>8. /\ \A q \in Slots : pc'[q] = IF q = p THEN "start" ELSE pc[q]
        /\ m # p
    BY <1>2, <1>3, <1>4, <1>5 DEF Goto
  <1>9. TypeOK'
    <2>1. pc' \in [Slots -> Steps]  BY <1>3, <1>5 DEF Goto, Steps
    <2> QED  BY <1>5, <1>7, <2>1 DEF ProcInv, TypeOK, Table, Process
  <1>10. Plain' /\ OnCpu' /\ InCall'
    BY <1>2, <1>5, <1>7, <1>8 DEF ProcInv, Plain, OnCpu, InCall, Alive
  <1>11. Asleep'
    <2>1. \A q \in Slots : ptable[q].parent # None => ptable'[q].parent = ptable[q].parent
      BY <1>4, <1>7
    <2> SUFFICES ASSUME NEW q \in Slots, ptable'[q].state = "SLEEPING"
                 PROVE  /\ pc'[q] = "wait" /\ ptable'[q].chan = q /\ ~ptable'[q].killed
                        /\ \E r \in Slots : ptable'[r].parent = q
      BY DEF Asleep
    <2>2. /\ pc[q] = "wait" /\ ptable[q].chan = q /\ ~ptable[q].killed /\ q # p
          /\ \E r \in Slots : ptable[r].parent = q
      BY <1>2, <1>7 DEF ProcInv, Asleep
    <2>3. PICK r \in Slots : ptable[r].parent = q  BY <2>2
    <2>4. ptable'[r].parent = q  BY <2>1, <2>3, Constants
    <2> QED  BY <1>7, <1>8, <2>2, <2>4
  <1>12. \A q \in Slots : /\ Builds(q)' <=> Builds(q)
                          /\ q # p => pc'[q] = pc[q]
                          /\ Builds(q) /\ q # p => loc[q] # m
    BY <1>1, <1>4, <1>8 DEF ProcInv, Building, Builds
  <1>13. Building'
    <2>1. \A q, r \in Slots : Builds(q)' /\ Builds(r)' /\ loc'[q] = loc'[r] => q = r
      BY <1>5, <1>12 DEF ProcInv, Building
    <2>2. ASSUME NEW q \in Slots, Builds(q)'
          PROVE  /\ loc'[q] \in Slots /\ ptable'[loc'[q]].state = "EMBRYO"
                 /\ pc'[q] = "fork1" => ~ptable'[loc'[q]].kstack /\ ptable'[loc'[q]].parent = None
                 /\ pc'[q] = "start" => ptable'[loc'[q]].kstack /\ ptable'[loc'[q]].parent = q
      <3>1. CASE q = p  BY <1>4, <1>5, <1>7, <1>8, <3>1
      <3>2. CASE q # p
        <4>1. Builds(q) /\ loc[q] # m /\ pc'[q] = pc[q]  BY <1>12, <2>2, <3>2
        <4> QED  BY <1>5, <1>7, <4>1 DEF ProcInv, Building
      <3> QED  BY <3>1, <3>2
    <2> QED  BY <2>1, <2>2 DEF Building
  <1>14. Built'  BY <1>5, <1>7, <1>12 DEF ProcInv, Built
  <1>15. StacksHeld'  BY <1>4, <1>7 DEF ProcInv, StacksHeld
  <1>16. Family'
    <2>1. ptable'[m].parent = p /\ m # initproc /\ Alive(p)
      BY <1>2, <1>4, <1>7, Constants DEF ProcInv, Family, Alive
    <2>2. \A q \in Slots \ {m} : ptable'[q].parent = ptable[q].parent  BY <1>7
    <2>3. \A q \in Slots : ptable[q].parent \in Slots \cup {None}  BY <1>3 DEF Table, Process
    <2>4. \A q \in Slots \cup {None} : Alive(q) /\ q # None => ptable'[q].state \in {"RUNNABLE", "RUNNING", "SLEEPING"}
      BY <1>7 DEF Alive
    <2>5. \A q \in Slots : ptable'[q].parent # None =>
            ptable'[ptable'[q].parent].state \in {"RUNNABLE", "RUNNING", "SLEEPING"}
            /\ ptable'[q].state # "UNUSED"
      <3> SUFFICES ASSUME NEW q \in Slots, ptable'[q].parent # None
                   PROVE  /\ ptable'[ptable'[q].parent].state \in {"RUNNABLE", "RUNNING", "SLEEPING"}
                          /\ ptable'[q].state # "UNUSED"
        OBVIOUS
      <3>1. CASE q = m  BY <1>4, <1>7, <2>1, <2>4, <3>1, Constants
      <3>2. CASE q # m  BY <1>7, <2>2, <2>3, <2>4, <3>2 DEF ProcInv, Family
      <3> QED  BY <3>1, <3>2
    <2>6. \A q \in Slots \ {initproc} :
            ptable'[q].state \notin {"UNUSED", "EMBRYO"} => ptable'[q].parent # None
      BY <1>4, <1>7, <2>2 DEF ProcInv, Family
    <2>7. Alive(initproc)' /\ ptable'[initproc].parent = None
      BY <1>7, <2>1, Constants DEF ProcInv, Family, Alive
    <2> QED  BY <2>5, <2>6, <2>7 DEF Family, Alive
  <1>17. Reaped'  BY <1>2, <1>7 DEF ProcInv, Reaped
  <1>18. Grounded'
    <2> SUFFICES ASSUME NEW S \in SUBSET Slots, S # {},
                        \A x \in S : \E y \in S : ptable'[y].parent = x
                 PROVE  FALSE
      BY DEF Grounded
    <2>1. m \notin S
      <3>1. \A y \in Slots : ptable[y].parent # m
        BY <1>4, Constants DEF ProcInv, Family, Alive
      <3> QED  BY <1>7, <1>8, <3>1
    <2>2. \A x \in S : \E y \in S : ptable[y].parent = x  BY <1>7, <2>1
    <2> QED  BY <2>2 DEF ProcInv, Grounded
  <1> QED  BY <1>9, <1>10, <1>11, <1>13, <1>14, <1>15, <1>16, <1>17, <1>18 DEF ProcInv

\* fork ends with a RUNNABLE child whose parent is alive.
LEMMA ByStart ==
    ASSUME ProcInv, NEW p \in Slots, Start(p)
    PROVE  ProcInv'
  <1>1. p \in on /\ pc[p] = "start" /\ Builds(p)  BY DEF Start, At, Builds
  <1>2. ptable[p].state = "RUNNING"  BY <1>1, Running
  <1>3. ptable \in Table /\ pc \in [Slots -> Steps] /\ loc \in [Slots -> Slots \cup Tids \cup {None}]
    BY TypedIs DEF ProcInv, Typed
  <1>4. PICK m \in Slots : /\ loc[p] = m /\ ptable[m].state = "EMBRYO"
                           /\ ptable[m].kstack /\ ptable[m].parent = p
    BY <1>1 DEF ProcInv, Building
  <1>5. /\ ptable' = SetState(ptable, m, "RUNNABLE")
        /\ pc' = [pc EXCEPT ![p] = "user", ![m] = "user"]
        /\ loc' = [loc EXCEPT ![p] = None, ![m] = None]
        /\ on' = on /\ gave' = gave /\ got' = got
    BY <1>4 DEF Start, SetState
  <1>6. /\ ptable' \in Table
        /\ \A r \in Slots :
              /\ ptable'[r].state = IF r = m THEN "RUNNABLE" ELSE ptable[r].state
              /\ ptable'[r].parent = ptable[r].parent
              /\ ptable'[r].chan = ptable[r].chan
              /\ ptable'[r].killed = ptable[r].killed
              /\ ptable'[r].kstack = ptable[r].kstack
              /\ ptable'[r].isThread = ptable[r].isThread
              /\ ptable'[r].t = ptable[r].t
    BY <1>3, <1>5, StateSet DEF States
  <1>7. /\ \A q \in Slots : pc'[q] = IF q \in {p, m} THEN "user" ELSE pc[q]
        /\ \A q \in Slots : loc'[q] = IF q \in {p, m} THEN None ELSE loc[q]
        /\ m # p /\ pc[m] = "user"
    BY <1>2, <1>3, <1>4, <1>5 DEF ProcInv, InCall, Alive
  <1>8. TypeOK'
    <2>1. pc' \in [Slots -> Steps] /\ loc' \in [Slots -> Slots \cup Tids \cup {None}]
      BY <1>3, <1>5 DEF Steps
    <2> QED  BY <1>5, <1>6, <2>1 DEF ProcInv, TypeOK, Table, Process
  <1>9. Plain' /\ OnCpu' /\ InCall'
    <2>1. Plain'  BY <1>6, <1>7 DEF ProcInv, Plain
    <2>2. OnCpu'  BY <1>4, <1>5, <1>6 DEF ProcInv, OnCpu
    <2>3. InCall'  BY <1>4, <1>6, <1>7 DEF ProcInv, InCall, Alive
    <2> QED  BY <2>1, <2>2, <2>3
  <1>10. Asleep'  BY <1>2, <1>6, <1>7 DEF ProcInv, Asleep
  <1>11. \A q \in Slots : /\ Builds(q)' <=> (Builds(q) /\ q # p)
                          /\ Builds(q)' => pc'[q] = pc[q] /\ loc'[q] = loc[q] /\ loc[q] # m
    BY <1>1, <1>4, <1>7 DEF ProcInv, Building, Builds
  <1>12. Building'  BY <1>6, <1>11 DEF ProcInv, Building
  <1>13. Built'  BY <1>4, <1>6, <1>11 DEF ProcInv, Built
  <1>14. StacksHeld'  BY <1>4, <1>6 DEF ProcInv, StacksHeld
  <1>15. Family'
    <2>1. \A q \in Slots : Alive(q) => Alive(q)'  BY <1>6 DEF Alive
    <2>2. \A q \in Slots : ptable[q].state = "UNUSED" => ptable[q].parent = None
      BY DEF ProcInv, Family
    <2>3. ptable[m].parent # None  BY <1>4, Constants
    <2> QED  BY <1>6, <2>1, <2>2, <2>3, FamilyStays
  <1>16. Reaped' /\ Grounded'  BY <1>6, FewerLinks DEF ProcInv, Reaped
  <1> QED  BY <1>8, <1>9, <1>10, <1>12, <1>13, <1>14, <1>15, <1>16 DEF ProcInv

\* kill lets a sleeper return from wait().
LEMMA ByKill ==
    ASSUME ProcInv, NEW p \in Slots, NEW k \in Slots, Kill(p, k)
    PROVE  ProcInv'
  <1>1. p \in on /\ pc[p] = "sys" /\ ~Builds(p)  BY DEF Kill, Makes, At, Builds
  <1>2. ptable[p].state = "RUNNING"  BY <1>1, Running
  <1>3. ptable \in Table /\ pc \in [Slots -> Steps] /\ loc \in [Slots -> Slots \cup Tids \cup {None}]
    BY TypedIs DEF ProcInv, Typed
  <1>4. /\ Return(p) /\ on' = on /\ gave' = gave /\ got' = got  BY DEF Kill
  <1>5. PICK x \in States : x = IF ptable[k].state = "SLEEPING" THEN "RUNNABLE" ELSE ptable[k].state
    BY <1>3 DEF Table, Process, States
  <1> DEFINE f == MarkKilled(ptable, k)
  <1>6. ptable' = SetState(f, k, x)  BY <1>5, KillTable
  <1>7. /\ f \in Table
        /\ \A r \in Slots :
              /\ f[r].state = ptable[r].state
              /\ f[r].parent = ptable[r].parent
              /\ f[r].chan = ptable[r].chan
              /\ f[r].killed <=> (r = k \/ ptable[r].killed)
              /\ f[r].kstack = ptable[r].kstack
              /\ f[r].isThread = ptable[r].isThread
              /\ f[r].t = ptable[r].t
    BY <1>3, MarkKilledSet
  <1> HIDE DEF f
  <1>8. /\ ptable' \in Table
        /\ \A r \in Slots :
              /\ ptable'[r].state = IF r = k THEN x ELSE ptable[r].state
              /\ ptable'[r].parent = ptable[r].parent
              /\ ptable'[r].chan = ptable[r].chan
              /\ ptable'[r].killed <=> (r = k \/ ptable[r].killed)
              /\ ptable'[r].kstack = ptable[r].kstack
              /\ ptable'[r].isThread = ptable[r].isThread
              /\ ptable'[r].t = ptable[r].t
    <2>1. ptable' \in Table  BY <1>6, <1>7, StateSet
    <2> SUFFICES ASSUME NEW r \in Slots
                 PROVE
                     /\ ptable'[r].state = IF r = k THEN x ELSE f[r].state
                     /\ ptable'[r].parent = f[r].parent
                     /\ ptable'[r].chan = f[r].chan
                     /\ ptable'[r].killed = f[r].killed
                     /\ ptable'[r].kstack = f[r].kstack
                     /\ ptable'[r].isThread = f[r].isThread
                     /\ ptable'[r].t = f[r].t
      BY <1>7, <2>1
    <2> QED  BY <1>6, <1>7, StateSet
  <1>9. /\ \A q \in Slots : pc'[q] = IF q = p THEN "user" ELSE pc[q]
        /\ \A q \in Slots : loc'[q] = IF q = p THEN None ELSE loc[q]
    BY <1>3, <1>4 DEF Return, Goto
  <1>10. TypeOK'
    <2>1. pc' \in [Slots -> Steps] /\ loc' \in [Slots -> Slots \cup Tids \cup {None}]
      BY <1>3, <1>4 DEF Return, Goto, Steps
    <2> QED  BY <1>4, <1>8, <2>1 DEF ProcInv, TypeOK, Table, Process
  <1>11. /\ x = "RUNNING" <=> ptable[k].state = "RUNNING"
         /\ x = "EMBRYO" <=> ptable[k].state = "EMBRYO"
         /\ x = "UNUSED" <=> ptable[k].state = "UNUSED"
         /\ x = "ZOMBIE" <=> ptable[k].state = "ZOMBIE"
         /\ x # "SLEEPING"
    BY <1>5
  <1>12. Plain'  BY <1>8, <1>9 DEF ProcInv, Plain
  <1>13. OnCpu'  BY <1>4, <1>8, <1>11 DEF ProcInv, OnCpu
  <1>14. \A q \in Slots : Alive(q) => Alive(q)'  BY <1>5, <1>8 DEF Alive
  <1>15. InCall'
    <2> SUFFICES ASSUME NEW q \in Slots, pc'[q] # "user"  PROVE Alive(q)'
      BY DEF InCall
    <2>1. Alive(q)  BY <1>9 DEF ProcInv, InCall
    <2> QED  BY <1>14, <2>1
  <1>16. Asleep'  BY <1>2, <1>8, <1>9, <1>11 DEF ProcInv, Asleep
  <1>17. \A q \in Slots : /\ Builds(q)' <=> Builds(q)
                          /\ Builds(q) => pc'[q] = pc[q] /\ loc'[q] = loc[q]
    BY <1>1, <1>9 DEF Builds
  <1>18. \A q \in Slots : ptable'[q].state = "EMBRYO" <=> ptable[q].state = "EMBRYO"  BY <1>8, <1>11
  <1>19. Building'  BY <1>8, <1>17, <1>18 DEF ProcInv, Building
  <1>20. Built'  BY <1>17, <1>18 DEF ProcInv, Built
  <1>21. StacksHeld'  BY <1>8, <1>11 DEF ProcInv, StacksHeld
  <1>22. Family'
    <2>1. \A q \in Slots : ptable[q].state = "UNUSED" => ptable[q].parent = None
      BY DEF ProcInv, Family
    <2> QED  BY <1>8, <1>11, <1>14, <2>1, FamilyStays
  <1>23. Reaped' /\ Grounded'  BY <1>8, <1>11, FewerLinks DEF ProcInv, Reaped
  <1> QED  BY <1>10, <1>12, <1>13, <1>15, <1>16, <1>19, <1>20, <1>21, <1>22, <1>23 DEF ProcInv

\* initproc never exits: exit() panics.
LEMMA ByInitExit ==
    ASSUME ProcInv, NEW p \in Slots, InitExit(p)
    PROVE  ProcInv'
  <1>1. /\ p \in on /\ pc[p] \in {"sys", "user"} /\ ~Builds(p) /\ Goto(p, "panic")
        /\ ptable' = ptable /\ on' = on /\ loc' = loc /\ gave' = gave /\ got' = got
    BY DEF InitExit, MayExit, Makes, At, Builds
  <1>2. ptable[p].state = "RUNNING"  BY <1>1, Running
  <1>3. pc \in [Slots -> Steps]  BY DEF ProcInv, TypeOK
  <1>4. \A q \in Slots : pc'[q] = IF q = p THEN "panic" ELSE pc[q]  BY <1>1, <1>3 DEF Goto
  <1>5. TypeOK'  BY <1>1, <1>3 DEF ProcInv, TypeOK, Steps, Goto
  <1>6. Plain' /\ OnCpu' /\ InCall'  BY <1>1, <1>2, <1>4 DEF ProcInv, Plain, OnCpu, InCall, Alive
  <1>7. Asleep'  BY <1>1, <1>2, <1>4 DEF ProcInv, Asleep
  <1>8. \A q \in Slots : /\ Builds(q)' <=> Builds(q)
                         /\ Builds(q) => pc'[q] = pc[q]
    BY <1>1, <1>4 DEF Builds
  <1>9. Building'  BY <1>1, <1>8 DEF ProcInv, Building
  <1>10. Built'  BY <1>1, <1>8 DEF ProcInv, Built
  <1>11. StacksHeld' /\ Family' /\ Reaped' /\ Grounded'
    BY <1>1 DEF ProcInv, StacksHeld, Family, Alive, Reaped, Grounded
  <1> QED  BY <1>5, <1>6, <1>7, <1>9, <1>10, <1>11 DEF ProcInv

\* wait() reaps a zombie, which has no children, or sleeps without zombies.
LEMMA ByWaitScan ==
    ASSUME ProcInv, NEW p \in Slots, WaitScan(p)
    PROVE  ProcInv'
  <1>1. p \in on /\ pc[p] \in {"sys", "wait"} /\ ~Builds(p) /\ gave' = gave /\ got' = got
    BY DEF WaitScan, Makes, At, Builds
  <1>2. ptable[p].state = "RUNNING" /\ ~ptable[p].isThread  BY <1>1, Running DEF ProcInv, Plain
  <1>3. ptable \in Table /\ pc \in [Slots -> Steps] /\ loc \in [Slots -> Slots \cup Tids \cup {None}]
    BY TypedIs DEF ProcInv, Typed
  <1>4. \A q \in Slots : ~ptable[q].isThread  BY DEF ProcInv, Plain
  <1>5. ASSUME NEW d \in Slots, ptable[d].parent = p, ptable[d].state = "ZOMBIE",
               ptable' = SetChan(Release(ptable, d), p, None), Return(p), on' = on
        PROVE  ProcInv'
    <2> DEFINE f == Release(ptable, d)
    <2>1. /\ f \in Table
          /\ \A r \in Slots :
                /\ f[r].state = IF r = d THEN "UNUSED" ELSE ptable[r].state
                /\ f[r].parent = IF r = d THEN None ELSE ptable[r].parent
                /\ f[r].killed <=> (r # d /\ ptable[r].killed)
                /\ f[r].kstack <=> (r # d /\ ptable[r].kstack)
                /\ f[r].chan = ptable[r].chan
                /\ f[r].isThread = ptable[r].isThread
                /\ f[r].t = ptable[r].t
      BY <1>3, Released
    <2>2. ptable' = SetChan(f, p, None)  BY <1>5
    <2> HIDE DEF f
    <2>3. /\ ptable' \in Table
          /\ \A r \in Slots :
                /\ ptable'[r].state = IF r = d THEN "UNUSED" ELSE ptable[r].state
                /\ ptable'[r].parent = IF r = d THEN None ELSE ptable[r].parent
                /\ ptable'[r].killed <=> (r # d /\ ptable[r].killed)
                /\ ptable'[r].kstack <=> (r # d /\ ptable[r].kstack)
                /\ r # p => ptable'[r].chan = ptable[r].chan
                /\ ptable'[r].isThread = ptable[r].isThread
                /\ ptable'[r].t = ptable[r].t
      <3>1. ptable' \in Table  BY <2>1, <2>2, ChanSet
      <3> SUFFICES ASSUME NEW r \in Slots
                   PROVE  /\ ptable'[r].state = f[r].state
                          /\ ptable'[r].parent = f[r].parent
                          /\ r # p => ptable'[r].chan = f[r].chan
                          /\ ptable'[r].killed = f[r].killed
                          /\ ptable'[r].kstack = f[r].kstack
                          /\ ptable'[r].isThread = f[r].isThread
                          /\ ptable'[r].t = f[r].t
        BY <2>1, <3>1
      <3> QED  BY <2>1, <2>2, ChanSet
    <2>4. /\ \A q \in Slots : pc'[q] = IF q = p THEN "user" ELSE pc[q]
          /\ \A q \in Slots : loc'[q] = IF q = p THEN None ELSE loc[q]
          /\ d # p /\ d # initproc /\ pc[d] = "user"
      BY <1>2, <1>3, <1>5, Constants DEF ProcInv, InCall, Family, Alive, Return, Goto
    <2>5. TypeOK'
      <3>1. pc' \in [Slots -> Steps] /\ loc' \in [Slots -> Slots \cup Tids \cup {None}]
        BY <1>3, <1>5 DEF Return, Goto, Steps
      <3> QED  BY <1>1, <1>5, <2>3, <3>1 DEF ProcInv, TypeOK, Table, Process
    <2>6. Plain'  BY <2>3, <2>4 DEF ProcInv, Plain
    <2>7. OnCpu'  BY <1>5, <2>3 DEF ProcInv, OnCpu
    <2>8. InCall'  BY <2>3, <2>4 DEF ProcInv, InCall, Alive
    <2>9. Asleep'
      <3> SUFFICES ASSUME NEW q \in Slots, ptable'[q].state = "SLEEPING"
                   PROVE  /\ pc'[q] = "wait" /\ ptable'[q].chan = q /\ ~ptable'[q].killed
                          /\ \E r \in Slots : ptable'[r].parent = q
        BY DEF Asleep
      <3>1. q # d /\ q # p /\ ptable[q].state = "SLEEPING"  BY <1>2, <2>3, <2>4
      <3>2. /\ pc[q] = "wait" /\ ptable[q].chan = q /\ ~ptable[q].killed
            /\ \E r \in Slots : ptable[r].parent = q
        BY <3>1 DEF ProcInv, Asleep
      <3>3. PICK r \in Slots : ptable[r].parent = q  BY <3>2
      <3>4. ptable'[r].parent = q  BY <1>5, <2>3, <3>1, <3>3
      <3> QED  BY <2>3, <2>4, <3>1, <3>2, <3>4
    <2>10. \A q \in Slots : /\ Builds(q)' <=> Builds(q)
                            /\ Builds(q) => pc'[q] = pc[q] /\ loc'[q] = loc[q] /\ loc[q] # d
      BY <1>1, <1>5, <2>4 DEF ProcInv, Building, Builds
    <2>11. Building'  BY <2>3, <2>10 DEF ProcInv, Building
    <2>12. Built'  BY <2>3, <2>10 DEF ProcInv, Built
    <2>13. StacksHeld'  BY <2>3 DEF ProcInv, StacksHeld
    <2>14. Family'
      <3>1. \A q \in Slots : ptable[q].parent # d
        BY <1>5, Constants DEF ProcInv, Family, Alive
      <3>2. \A q \in Slots : ptable[q].parent \in Slots \cup {None}  BY <1>3 DEF Table, Process
      <3>3. ASSUME NEW q \in Slots, ptable'[q].parent # None
            PROVE  /\ ptable'[ptable'[q].parent].state \in {"RUNNABLE", "RUNNING", "SLEEPING"}
                   /\ ptable'[q].state # "UNUSED"
        <4>1. q # d /\ ptable'[q].parent = ptable[q].parent /\ ptable[q].parent # None
          BY <2>3, <3>3
        <4>2. PICK r \in Slots : r = ptable[q].parent  BY <3>2, <4>1
        <4>3. Alive(r) /\ r # d /\ ptable[q].state # "UNUSED"
          BY <3>1, <4>1, <4>2 DEF ProcInv, Family
        <4> QED  BY <2>3, <4>1, <4>2, <4>3 DEF Alive
      <3>4. \A q \in Slots \ {initproc} :
                ptable'[q].state \notin {"UNUSED", "EMBRYO"} => ptable'[q].parent # None
        BY <2>3 DEF ProcInv, Family
      <3>5. Alive(initproc)' /\ ptable'[initproc].parent = None
        BY <2>3, <2>4, Constants DEF ProcInv, Family, Alive
      <3> QED  BY <3>3, <3>4, <3>5 DEF Family, Alive
    <2>15. Reaped'  BY <2>3, Constants DEF ProcInv, Reaped
    <2>16. Grounded'  BY <2>3, FewerLinks DEF ProcInv
    <2> QED  BY <2>5, <2>6, <2>7, <2>8, <2>9, <2>11, <2>12, <2>13, <2>14, <2>15, <2>16 DEF ProcInv
  <1>6. ASSUME ptable' = SetChan(ptable, p, None), Return(p), on' = on
        PROVE  ProcInv'
    <2>1. /\ ptable' \in Table
          /\ \A r \in Slots :
                /\ ptable'[r].state = ptable[r].state
                /\ ptable'[r].parent = ptable[r].parent
                /\ r # p => ptable'[r].chan = ptable[r].chan
                /\ ptable'[r].killed = ptable[r].killed
                /\ ptable'[r].kstack = ptable[r].kstack
                /\ ptable'[r].isThread = ptable[r].isThread
                /\ ptable'[r].t = ptable[r].t
      BY <1>3, <1>6, ChanSet
    <2>2. /\ \A q \in Slots : pc'[q] = IF q = p THEN "user" ELSE pc[q]
          /\ \A q \in Slots : loc'[q] = IF q = p THEN None ELSE loc[q]
      BY <1>3, <1>6 DEF Return, Goto
    <2>3. TypeOK'
      <3>1. pc' \in [Slots -> Steps] /\ loc' \in [Slots -> Slots \cup Tids \cup {None}]
        BY <1>3, <1>6 DEF Return, Goto, Steps
      <3> QED  BY <1>1, <1>6, <2>1, <3>1 DEF ProcInv, TypeOK, Table, Process
    <2>4. Plain' /\ OnCpu' /\ InCall'
      BY <1>2, <1>6, <2>1, <2>2 DEF ProcInv, Plain, OnCpu, InCall, Alive
    <2>5. Asleep'  BY <1>2, <2>1, <2>2 DEF ProcInv, Asleep
    <2>6. \A q \in Slots : /\ Builds(q)' <=> Builds(q)
                           /\ Builds(q) => pc'[q] = pc[q] /\ loc'[q] = loc[q]
      BY <1>1, <2>2 DEF Builds
    <2>7. Building' /\ Built'  BY <2>1, <2>6 DEF ProcInv, Building, Built
    <2>8. StacksHeld'  BY <2>1 DEF ProcInv, StacksHeld
    <2>9. Family'
      <3>1. \A q \in Slots : ptable[q].state = "UNUSED" => ptable[q].parent = None
        BY DEF ProcInv, Family
      <3>2. \A q \in Slots : Alive(q) => Alive(q)'  BY <2>1 DEF Alive
      <3> QED  BY <2>1, <3>1, <3>2, FamilyStays
    <2>10. Reaped' /\ Grounded'  BY <2>1, FewerLinks DEF ProcInv, Reaped
    <2> QED  BY <2>3, <2>4, <2>5, <2>7, <2>8, <2>9, <2>10 DEF ProcInv
  <1>7. ASSUME \A q \in Slots : ptable[q].parent = p => ptable[q].state # "ZOMBIE",
               \E q \in Slots : ptable[q].parent = p, ~ptable[p].killed,
               ptable' = SetChan(SetState(ptable, p, "SLEEPING"), p, p),
               on' = on \ {p}, Goto(p, "wait"), loc' = loc
        PROVE  ProcInv'
    <2> DEFINE f == SetState(ptable, p, "SLEEPING")
    <2>1. /\ f \in Table
          /\ \A r \in Slots :
                /\ f[r].state = IF r = p THEN "SLEEPING" ELSE ptable[r].state
                /\ f[r].parent = ptable[r].parent
                /\ f[r].chan = ptable[r].chan
                /\ f[r].killed = ptable[r].killed
                /\ f[r].kstack = ptable[r].kstack
                /\ f[r].isThread = ptable[r].isThread
                /\ f[r].t = ptable[r].t
      BY <1>3, StateSet DEF States
    <2>2. ptable' = SetChan(f, p, p)  BY <1>7
    <2> HIDE DEF f
    <2>3. /\ ptable' \in Table
          /\ \A r \in Slots :
                /\ ptable'[r].state = IF r = p THEN "SLEEPING" ELSE ptable[r].state
                /\ ptable'[r].parent = ptable[r].parent
                /\ ptable'[r].chan = IF r = p THEN p ELSE ptable[r].chan
                /\ ptable'[r].killed = ptable[r].killed
                /\ ptable'[r].kstack = ptable[r].kstack
                /\ ptable'[r].isThread = ptable[r].isThread
                /\ ptable'[r].t = ptable[r].t
      <3>1. ptable' \in Table  BY <2>1, <2>2, ChanSet
      <3> SUFFICES ASSUME NEW r \in Slots
                   PROVE
                          /\ ptable'[r].state = f[r].state
                          /\ ptable'[r].parent = f[r].parent
                          /\ ptable'[r].chan = IF r = p THEN p ELSE f[r].chan
                          /\ ptable'[r].killed = f[r].killed
                          /\ ptable'[r].kstack = f[r].kstack
                          /\ ptable'[r].isThread = f[r].isThread
                          /\ ptable'[r].t = f[r].t
        BY <2>1, <3>1
      <3> QED  BY <2>1, <2>2, ChanSet
    <2>4. \A q \in Slots : pc'[q] = IF q = p THEN "wait" ELSE pc[q]  BY <1>3, <1>7 DEF Goto
    <2>5. TypeOK'
      <3>1. pc' \in [Slots -> Steps] /\ on' \subseteq Slots
        BY <1>3, <1>7 DEF Goto, Steps, ProcInv, TypeOK
      <3> QED  BY <1>1, <1>7, <2>3, <3>1 DEF ProcInv, TypeOK, Table, Process
    <2>6. Plain' /\ OnCpu' /\ InCall'
      BY <1>2, <1>7, <2>3, <2>4 DEF ProcInv, Plain, OnCpu, InCall, Alive
    <2>7. Asleep'  BY <1>7, <2>3, <2>4 DEF ProcInv, Asleep
    <2>8. \A q \in Slots : /\ Builds(q)' <=> Builds(q)
                           /\ Builds(q) => pc'[q] = pc[q] /\ loc'[q] = loc[q] /\ loc[q] # p
      BY <1>1, <1>2, <1>7, <2>4 DEF ProcInv, Building, Builds
    <2>9. Building' /\ Built'  BY <1>2, <2>3, <2>8 DEF ProcInv, Building, Built
    <2>10. StacksHeld'  BY <1>2, <2>3 DEF ProcInv, StacksHeld
    <2>11. Family'
      <3>1. \A q \in Slots : ptable[q].state = "UNUSED" => ptable[q].parent = None
        BY DEF ProcInv, Family
      <3>2. \A q \in Slots : Alive(q) => Alive(q)'  BY <2>3 DEF Alive
      <3> QED  BY <1>2, <2>3, <3>1, <3>2, FamilyStays
    <2>12. Reaped'  BY <1>2, <1>7, <2>3 DEF ProcInv, Reaped
    <2>13. Grounded'  BY <2>3, FewerLinks DEF ProcInv
    <2> QED  BY <2>5, <2>6, <2>7, <2>9, <2>10, <2>11, <2>12, <2>13 DEF ProcInv
  <1> QED
    <2> DEFINE kids == {q \in Slots : ptable[q].parent = p}
               dead == {q \in kids : ptable[q].state = "ZOMBIE" /\ ~ptable[q].isThread}
    <2>1. \/ \E d \in dead : /\ ptable' = SetChan(Release(ptable, d), p, None)
                             /\ Return(p) /\ on' = on
          \/ /\ ptable' = SetChan(ptable, p, None)
             /\ Return(p) /\ on' = on
          \/ /\ dead = {} /\ kids # {} /\ ~ptable[p].killed
             /\ ptable' = SetChan(SetState(ptable, p, "SLEEPING"), p, p)
             /\ on' = on \ {p} /\ Goto(p, "wait") /\ loc' = loc
      BY WaitTable
    <2>2. CASE \E d \in dead : /\ ptable' = SetChan(Release(ptable, d), p, None)
                              /\ Return(p) /\ on' = on
      BY <1>5, <2>2
    <2>3. CASE dead = {} /\ kids # {} /\ ~ptable[p].killed
               /\ ptable' = SetChan(SetState(ptable, p, "SLEEPING"), p, p)
               /\ on' = on \ {p} /\ Goto(p, "wait") /\ loc' = loc
      BY <1>4, <1>7, <2>3
    <2> QED  BY <1>6, <2>1, <2>2, <2>3

\* exit() wakes the parent, hands the children to initproc, wakes initproc when
\* one of them is a zombie, and leaves a ZOMBIE.
LEMMA ExitTable ==
    ASSUME NEW pt, NEW p, \A q \in Slots : pt[q].parent = p => ~pt[q].isThread,
           ExitLoop(pt, p, 1)
    PROVE  LET kids == {q \in Slots : pt[q].parent = p}
               given == GiveToInit(pt, kids)
           IN  /\ \/ /\ \E q \in kids : pt[q].state = "ZOMBIE"
                     /\ ptable' = SetState(wakeup1(given, initproc), p, "ZOMBIE")
                  \/ /\ \A q \in kids : pt[q].state # "ZOMBIE"
                     /\ ptable' = SetState(given, p, "ZOMBIE")
               /\ on' = on \ {p} /\ Return(p)
  <1> DEFINE old == {q \in Slots : q >= 1 /\ pt[q].parent = p}
             kids == {q \in Slots : pt[q].parent = p}
             j == First({q \in old : pt[q].isThread}, 1)
  <1>1. old = kids  BY DEF Slots
  <1>2. j = None  BY DEF First
  <1>3. /\ ptable' = [(IF \E q \in old : pt[q].state = "ZOMBIE"
                       THEN wakeup1(GiveToInit(pt, old), initproc) ELSE GiveToInit(pt, old))
                      EXCEPT ![p].state = "ZOMBIE"]
        /\ on' = on \ {p} /\ Return(p)
    BY <1>2 DEF ExitLoop, GiveToInit
  <1> HIDE DEF old
  <1> QED  BY <1>1, <1>3 DEF SetState

\* The children of an exiting process go to initproc, which has no parent, so
\* that no cycle closes; both parents of zombies are awake.
LEMMA ByExit ==
    ASSUME ProcInv, NEW p \in Slots, Exit(p)
    PROVE  ProcInv'
  <1>1. /\ p \in on /\ pc[p] \in {"sys", "user"} /\ ~Builds(p) /\ p # initproc
        /\ ExitLoop(wakeup1(ptable, ptable[p].parent), p, 1) /\ gave' = gave /\ got' = got
    BY DEF Exit, MayExit, Makes, At, Builds
  <1>2. ptable[p].state = "RUNNING"  BY <1>1, Running
  <1>3. ptable \in Table /\ pc \in [Slots -> Steps] /\ loc \in [Slots -> Slots \cup Tids \cup {None}]
    BY TypedIs DEF ProcInv, Typed
  <1>4. PICK m \in Slots : m = ptable[p].parent
    BY <1>1, <1>2, <1>3 DEF Table, Process, ProcInv, Family
  <1>5. m # p /\ m # None /\ Alive(m)
    <2>1. m # None /\ Alive(m)  BY <1>4, Constants DEF ProcInv, Family
    <2>2. {p} \in SUBSET Slots /\ {p} # {}  OBVIOUS
    <2>3. \E x \in {p} : \A y \in {p} : ptable[y].parent # x  BY <2>2 DEF ProcInv, Grounded
    <2> QED  BY <1>4, <2>1, <2>3
  <1> DEFINE f == wakeup1(ptable, m)
             kids == {q \in Slots : ptable[q].parent = p}
             g == GiveToInit(f, kids)
             h == wakeup1(g, initproc)
  <1>6. /\ f \in Table
        /\ \A r \in Slots :
              /\ f[r].state = IF ptable[r].state = "SLEEPING" /\ ptable[r].chan = m
                              THEN "RUNNABLE" ELSE ptable[r].state
              /\ f[r].parent = ptable[r].parent
              /\ f[r].chan = ptable[r].chan
              /\ f[r].killed = ptable[r].killed
              /\ f[r].kstack = ptable[r].kstack
              /\ f[r].isThread = ptable[r].isThread
              /\ f[r].t = ptable[r].t
    BY <1>3, WokenUp
  <1>7. /\ \/ /\ \E q \in kids : f[q].state = "ZOMBIE"
              /\ ptable' = SetState(h, p, "ZOMBIE")
           \/ /\ \A q \in kids : f[q].state # "ZOMBIE"
              /\ ptable' = SetState(g, p, "ZOMBIE")
        /\ on' = on \ {p} /\ Return(p)
    <2>1. \A q \in Slots : f[q].parent = p => ~f[q].isThread  BY <1>6 DEF ProcInv, Plain
    <2>2. kids = {q \in Slots : f[q].parent = p}  BY <1>6
    <2>3. ExitLoop(f, p, 1)  BY <1>1, <1>4
    <2> HIDE DEF f, kids
    <2> QED  BY <2>1, <2>2, <2>3, ExitTable
  <1> HIDE DEF f
  <1>8. /\ g \in Table
        /\ \A r \in Slots :
              /\ g[r].parent = IF r \in kids THEN initproc ELSE f[r].parent
              /\ g[r].state = f[r].state
              /\ g[r].chan = f[r].chan
              /\ g[r].killed = f[r].killed
              /\ g[r].kstack = f[r].kstack
              /\ g[r].isThread = f[r].isThread
              /\ g[r].t = f[r].t
    <2> HIDE DEF kids
    <2> QED  BY <1>6, GivenToInit
  <1> HIDE DEF g
  <1>9. /\ h \in Table
        /\ \A r \in Slots :
              /\ h[r].state = IF g[r].state = "SLEEPING" /\ g[r].chan = initproc
                              THEN "RUNNABLE" ELSE g[r].state
              /\ h[r].parent = g[r].parent
              /\ h[r].chan = g[r].chan
              /\ h[r].killed = g[r].killed
              /\ h[r].kstack = g[r].kstack
              /\ h[r].isThread = g[r].isThread
              /\ h[r].t = g[r].t
    BY <1>8, WokenUp
  <1> HIDE DEF h
  <1>10. PICK w : /\ ptable' = SetState(w, p, "ZOMBIE")
                  /\ w = h \/ (w = g /\ \A q \in kids : f[q].state # "ZOMBIE")
    BY <1>7
  <1>11. /\ w \in Table
         /\ \A r \in Slots :
              /\ w[r].parent = IF r \in kids THEN initproc ELSE f[r].parent
              /\ \/ w[r].state = f[r].state
                 \/ f[r].state = "SLEEPING" /\ w[r].state = "RUNNABLE"
              /\ w[r].chan = f[r].chan
              /\ w[r].killed = f[r].killed
              /\ w[r].kstack = f[r].kstack
              /\ w[r].isThread = f[r].isThread
              /\ w[r].t = f[r].t
              /\ w[r].state = "SLEEPING" /\ f[r].chan = initproc =>
                    \A q \in kids : f[q].state # "ZOMBIE"
    BY <1>8, <1>9, <1>10
  <1>12. /\ ptable' \in Table
         /\ \A r \in Slots :
              /\ ptable'[r].state = IF r = p THEN "ZOMBIE" ELSE w[r].state
              /\ ptable'[r].parent = w[r].parent
              /\ ptable'[r].chan = w[r].chan
              /\ ptable'[r].killed = w[r].killed
              /\ ptable'[r].kstack = w[r].kstack
              /\ ptable'[r].isThread = w[r].isThread
              /\ ptable'[r].t = w[r].t
    BY <1>10, <1>11, StateSet DEF States
  <1>13. /\ ptable' \in Table
         /\ ptable'[p].state = "ZOMBIE"
         /\ \A r \in Slots :
              /\ ptable'[r].parent = IF ptable[r].parent = p THEN initproc ELSE ptable[r].parent
              /\ \/ r = p
                 \/ ptable'[r].state = ptable[r].state
                 \/ ptable[r].state = "SLEEPING" /\ ptable'[r].state = "RUNNABLE"
              /\ ptable'[r].chan = ptable[r].chan
              /\ ptable'[r].killed = ptable[r].killed
              /\ ptable'[r].kstack = ptable[r].kstack
              /\ ptable'[r].isThread = ptable[r].isThread
              /\ ptable'[r].t = ptable[r].t
              /\ ptable'[r].state = "SLEEPING" => r # p /\ ptable[r].state = "SLEEPING" /\ ptable[r].chan # m
              /\ ptable'[r].state = "SLEEPING" /\ ptable[r].chan = initproc =>
                    \A q \in Slots : ptable[q].parent = p => ptable[q].state # "ZOMBIE"
    <2>1. ptable' \in Table /\ ptable'[p].state = "ZOMBIE"  BY <1>12
    <2> SUFFICES ASSUME NEW r \in Slots
                 PROVE
              /\ ptable'[r].parent = IF ptable[r].parent = p THEN initproc ELSE ptable[r].parent
              /\ \/ r = p
                 \/ ptable'[r].state = ptable[r].state
                 \/ ptable[r].state = "SLEEPING" /\ ptable'[r].state = "RUNNABLE"
              /\ ptable'[r].chan = ptable[r].chan
              /\ ptable'[r].killed = ptable[r].killed
              /\ ptable'[r].kstack = ptable[r].kstack
              /\ ptable'[r].isThread = ptable[r].isThread
              /\ ptable'[r].t = ptable[r].t
              /\ ptable'[r].state = "SLEEPING" => r # p /\ ptable[r].state = "SLEEPING" /\ ptable[r].chan # m
              /\ ptable'[r].state = "SLEEPING" /\ ptable[r].chan = initproc =>
                    \A q \in Slots : ptable[q].parent = p => ptable[q].state # "ZOMBIE"
      BY <2>1
    <2>2. /\ ptable'[r].parent = IF ptable[r].parent = p THEN initproc ELSE ptable[r].parent
          /\ ptable'[r].chan = ptable[r].chan
          /\ ptable'[r].killed = ptable[r].killed
          /\ ptable'[r].kstack = ptable[r].kstack
          /\ ptable'[r].isThread = ptable[r].isThread
          /\ ptable'[r].t = ptable[r].t
      BY <1>6, <1>11, <1>12
    <2>3. /\ \/ r = p
             \/ ptable'[r].state = ptable[r].state
             \/ ptable[r].state = "SLEEPING" /\ ptable'[r].state = "RUNNABLE"
          /\ ptable'[r].state = "SLEEPING" => r # p /\ ptable[r].state = "SLEEPING" /\ ptable[r].chan # m
      BY <1>6, <1>11, <1>12
    <2>4. ASSUME ptable'[r].state = "SLEEPING", ptable[r].chan = initproc
          PROVE  \A q \in Slots : ptable[q].parent = p => ptable[q].state # "ZOMBIE"
      <3>1. \A q \in kids : f[q].state # "ZOMBIE"  BY <1>6, <1>11, <1>12, <2>4
      <3> QED  BY <1>6, <3>1
    <2> QED  BY <2>2, <2>3, <2>4
  <1>14. /\ \A q \in Slots : pc'[q] = IF q = p THEN "user" ELSE pc[q]
         /\ \A q \in Slots : loc'[q] = IF q = p THEN None ELSE loc[q]
         /\ on' = on \ {p}
    BY <1>3, <1>7 DEF Return, Goto
  <1>15. TypeOK'
    <2>1. /\ pc' \in [Slots -> Steps] /\ loc' \in [Slots -> Slots \cup Tids \cup {None}]
          /\ on' \subseteq Slots
      BY <1>3, <1>7 DEF Return, Goto, Steps, ProcInv, TypeOK
    <2> QED  BY <1>1, <1>13, <2>1 DEF ProcInv, TypeOK, Table, Process
  <1>16. Plain'  BY <1>13, <1>14 DEF ProcInv, Plain
  <1>17. OnCpu'  BY <1>13, <1>14 DEF ProcInv, OnCpu
  <1>18. \A q \in Slots \ {p} : Alive(q) <=> Alive(q)'  BY <1>13 DEF Alive
  <1>19. InCall'
    <2> SUFFICES ASSUME NEW q \in Slots, pc'[q] # "user"  PROVE Alive(q)'
      BY DEF InCall
    <2>1. q # p /\ Alive(q)  BY <1>14 DEF ProcInv, InCall
    <2> QED  BY <1>18, <2>1
  <1>20. Asleep'
    <2> SUFFICES ASSUME NEW q \in Slots, ptable'[q].state = "SLEEPING"
                 PROVE  /\ pc'[q] = "wait" /\ ptable'[q].chan = q /\ ~ptable'[q].killed
                        /\ \E r \in Slots : ptable'[r].parent = q
      BY DEF Asleep
    <2>1. q # p /\ ptable[q].state = "SLEEPING"  BY <1>13
    <2>2. /\ pc[q] = "wait" /\ ptable[q].chan = q /\ ~ptable[q].killed
          /\ \E r \in Slots : ptable[r].parent = q
      BY <2>1 DEF ProcInv, Asleep
    <2>3. PICK r \in Slots : ptable[r].parent = q  BY <2>2
    <2>4. ptable'[r].parent = q  BY <1>13, <2>1, <2>3
    <2> QED  BY <1>13, <1>14, <2>1, <2>2, <2>4
  <1>21. \A q \in Slots : /\ Builds(q)' <=> Builds(q)
                          /\ Builds(q) => /\ pc'[q] = pc[q] /\ loc'[q] = loc[q] /\ q # p
                                           /\ loc[q] # p
    BY <1>1, <1>2, <1>14 DEF ProcInv, Building, Builds
  <1>22. \A q \in Slots : ptable'[q].state = "EMBRYO" <=> ptable[q].state = "EMBRYO"
    BY <1>2, <1>13
  <1>23. Building'
    <2>1. \A q, r \in Slots : Builds(q)' /\ Builds(r)' /\ loc'[q] = loc'[r] => q = r
      BY <1>21 DEF ProcInv, Building
    <2>2. ASSUME NEW q \in Slots, Builds(q)'
          PROVE  /\ loc'[q] \in Slots /\ ptable'[loc'[q]].state = "EMBRYO"
                 /\ pc'[q] = "fork1" => ~ptable'[loc'[q]].kstack /\ ptable'[loc'[q]].parent = None
                 /\ pc'[q] = "start" => ptable'[loc'[q]].kstack /\ ptable'[loc'[q]].parent = q
      <3>1. Builds(q) /\ pc'[q] = pc[q] /\ loc'[q] = loc[q] /\ q # p  BY <1>21, <2>2
      <3>2. PICK e \in Slots : loc[q] = e  BY <3>1 DEF ProcInv, Building
      <3>3. /\ ptable[e].state = "EMBRYO"
            /\ pc[q] = "fork1" => ~ptable[e].kstack /\ ptable[e].parent = None
            /\ pc[q] = "start" => ptable[e].kstack /\ ptable[e].parent = q
        BY <3>1, <3>2 DEF ProcInv, Building
      <3>4. p # None  BY Constants
      <3> QED  BY <1>13, <1>22, <3>1, <3>2, <3>3, <3>4 DEF Builds
    <2> QED  BY <2>1, <2>2 DEF Building
  <1>24. Built'  BY <1>21, <1>22 DEF ProcInv, Built
  <1>25. StacksHeld'  BY <1>2, <1>13, <1>22 DEF ProcInv, StacksHeld
  <1>26. Family'
    <2>1. \A q \in Slots : ptable[q].parent \in Slots \cup {None}  BY <1>3 DEF Table, Process
    <2>2. Alive(initproc)' /\ ptable'[initproc].parent = None /\ p # None
      BY <1>1, <1>13, <1>18, Constants DEF ProcInv, Family
    <2>3. ASSUME NEW q \in Slots, ptable'[q].parent # None
          PROVE  /\ ptable'[ptable'[q].parent].state \in {"RUNNABLE", "RUNNING", "SLEEPING"}
                 /\ ptable'[q].state # "UNUSED"
      <3>1. ptable[q].parent # None  BY <1>13, <2>2, <2>3
      <3>2. PICK r \in Slots : r = ptable[q].parent  BY <2>1, <3>1
      <3>3. Alive(r) /\ ptable[q].state # "UNUSED"  BY <3>1, <3>2 DEF ProcInv, Family
      <3>4. ptable'[q].parent = IF r = p THEN initproc ELSE r  BY <1>13, <3>2
      <3>5. ptable'[q].state # "UNUSED"
        <4>1. q = p => ptable'[q].state = "ZOMBIE"  BY <1>13
        <4>2. q # p => \/ ptable'[q].state = ptable[q].state
                       \/ ptable'[q].state = "RUNNABLE"
          BY <1>13
        <4> QED  BY <3>3, <4>1, <4>2
      <3>6. CASE r = p  BY <2>2, <3>4, <3>5, <3>6 DEF Alive
      <3>7. CASE r # p
        <4>1. Alive(r)'  BY <1>18, <3>3, <3>7
        <4> QED  BY <3>4, <3>5, <3>7, <4>1 DEF Alive
      <3> QED  BY <3>6, <3>7
    <2>4. \A q \in Slots \ {initproc} :
              ptable'[q].state \notin {"UNUSED", "EMBRYO"} => ptable'[q].parent # None
      <3> SUFFICES ASSUME NEW q \in Slots \ {initproc},
                          ptable'[q].state \notin {"UNUSED", "EMBRYO"}
                   PROVE  ptable'[q].parent # None
        OBVIOUS
      <3>1. ptable[q].state \notin {"UNUSED", "EMBRYO"}  BY <1>2, <1>13
      <3>2. ptable[q].parent # None  BY <3>1 DEF ProcInv, Family
      <3> QED  BY <1>13, <3>2, Constants
    <2> QED  BY <2>2, <2>3, <2>4 DEF Family, Alive
  <1>27. Reaped'
    <2> SUFFICES ASSUME NEW q \in Slots, NEW r \in Slots,
                        ptable'[q].state = "SLEEPING", ptable'[r].parent = q
                 PROVE  ptable'[r].state # "ZOMBIE"
      BY DEF Reaped
    <2>1. q # p /\ ptable[q].state = "SLEEPING" /\ ptable[q].chan = q /\ q # m
      BY <1>13 DEF ProcInv, Asleep
    <2>2. CASE r = p  BY <1>4, <1>5, <1>13, <2>1, <2>2
    <2>3. CASE r # p /\ ptable[r].parent = p
      <3>1. q = initproc  BY <1>13, <2>3
      <3>2. ptable[r].state # "ZOMBIE"  BY <1>13, <2>1, <2>3, <3>1
      <3> QED  BY <1>13, <2>3, <3>2
    <2>4. CASE r # p /\ ptable[r].parent # p
      <3>1. ptable[r].parent = q  BY <1>13, <2>4
      <3>2. ptable[r].state # "ZOMBIE"  BY <2>1, <3>1 DEF ProcInv, Reaped
      <3> QED  BY <1>13, <2>4, <3>2
    <2> QED  BY <2>2, <2>3, <2>4
  <1>28. Grounded'
    <2> SUFFICES ASSUME NEW S \in SUBSET Slots, S # {},
                        \A x \in S : \E y \in S : ptable'[y].parent = x
                 PROVE  FALSE
      BY DEF Grounded
    <2> DEFINE U == S \ {initproc}
    <2>1. ptable'[initproc].parent = None /\ None \notin Slots
      BY <1>1, <1>13, Constants DEF ProcInv, Family
    <2>2. \A x \in S : \E y \in U : ptable'[y].parent = x  BY <2>1
    <2>3. ASSUME NEW x \in U  PROVE \E y \in U : ptable[y].parent = x
      <3>1. PICK y \in U : ptable'[y].parent = x  BY <2>2
      <3>2. y \in Slots /\ x # initproc  OBVIOUS
      <3>3. ptable[y].parent = x  BY <1>13, <3>1, <3>2
      <3> QED  BY <3>3
    <2>4. U # {} /\ U \in SUBSET Slots  BY <2>2
    <2> HIDE DEF U
    <2> QED  BY <2>3, <2>4 DEF ProcInv, Grounded
  <1> QED
    BY <1>15, <1>16, <1>17, <1>19, <1>20, <1>23, <1>24, <1>25, <1>26, <1>27, <1>28 DEF ProcInv

\* userinit(): initproc alone is RUNNABLE.
LEMMA InitFresh ==
    ASSUME Init
    PROVE  /\ ptable \in Table
           /\ \A q \in Slots :
                 /\ ptable[q].state = IF q = initproc THEN "RUNNABLE" ELSE "UNUSED"
                 /\ ptable[q].kstack <=> q = initproc
                 /\ ptable[q].parent = None /\ ~ptable[q].killed
                 /\ ~ptable[q].isThread /\ ptable[q].t = {}
           /\ on = {} /\ pc \in [Slots -> Steps] /\ \A q \in Slots : pc[q] = "user"
           /\ loc \in [Slots -> Slots \cup Tids \cup {None}]
           /\ gave \in [Slots -> Values \cup {NoValue}]
           /\ got \in [Slots -> Values \cup {NoValue}]
  <1>1. Fresh \in Process
    BY Constants DEF Fresh, Process, States
  <1> DEFINE r0 == [Fresh EXCEPT !.state = "RUNNABLE", !.pid = TRUE, !.kstack = TRUE]
  <1>2. r0 \in Process
    BY Constants DEF Fresh, Process, States
  <1>3. /\ r0.state = "RUNNABLE" /\ r0.kstack = TRUE /\ r0.parent = None /\ r0.killed = FALSE
        /\ r0.isThread = FALSE /\ r0.t = {}
    BY DEF Fresh
  <1>4. /\ Fresh.state = "UNUSED" /\ Fresh.kstack = FALSE /\ Fresh.parent = None
        /\ Fresh.killed = FALSE /\ Fresh.isThread = FALSE /\ Fresh.t = {}
    BY DEF Fresh
  <1>5. ptable = [q \in Slots |-> IF q = initproc THEN r0 ELSE Fresh]  BY DEF Init
  <1> HIDE DEF r0
  <1>6. ptable \in Table  BY <1>1, <1>2, <1>5 DEF Table
  <1>7. \A q \in Slots :
                 /\ ptable[q].state = IF q = initproc THEN "RUNNABLE" ELSE "UNUSED"
                 /\ ptable[q].kstack <=> q = initproc
                 /\ ptable[q].parent = None /\ ~ptable[q].killed
                 /\ ~ptable[q].isThread /\ ptable[q].t = {}
    BY <1>3, <1>4, <1>5
  <1>8. /\ on = {} /\ pc \in [Slots -> Steps] /\ \A q \in Slots : pc[q] = "user"
        /\ loc \in [Slots -> Slots \cup Tids \cup {None}]
        /\ gave \in [Slots -> Values \cup {NoValue}]
        /\ got \in [Slots -> Values \cup {NoValue}]
    BY DEF Init, Steps
  <1> QED  BY <1>6, <1>7, <1>8

\* The invariant holds at the start.
LEMMA InitHolds == Init => ProcInv
  <1> SUFFICES ASSUME Init  PROVE ProcInv
    OBVIOUS
  <1>1. TypeOK  BY InitFresh DEF TypeOK, Table, Process
  <1>2. Plain /\ OnCpu /\ InCall /\ Asleep  BY InitFresh DEF Plain, OnCpu, InCall, Asleep
  <1>3. Building /\ Built /\ StacksHeld  BY InitFresh DEF Building, Builds, Built, StacksHeld
  <1>4. Family /\ Reaped  BY InitFresh, Constants DEF Family, Reaped, Alive
  <1>5. Grounded
    <2> SUFFICES ASSUME NEW S \in SUBSET Slots, S # {},
                        \A p \in S : \E q \in S : ptable[q].parent = p
                 PROVE  FALSE
      BY DEF Grounded
    <2>1. PICK p \in S : TRUE  OBVIOUS
    <2>2. PICK q \in S : ptable[q].parent = p  BY <2>1
    <2>3. ptable[q].parent = None  BY InitFresh
    <2> QED  BY <2>2, <2>3, Constants
  <1> QED  BY <1>1, <1>2, <1>3, <1>4, <1>5 DEF ProcInv

\* The invariant holds in every reachable state, so that the process table stays
\* as fork, exit, wait and kill need it, whatever the interleaving.
THEOREM ProcInvariance ==
    ASSUME NoThreads
    PROVE  Spec => []ProcInv
  <1>1. ProcInv /\ [Next]_vars => ProcInv'
    <2> SUFFICES ASSUME ProcInv, [Next]_vars  PROVE ProcInv'
      OBVIOUS
    <2>1. CASE UNCHANGED vars
      <3>1. TypeOK'  BY <2>1 DEF vars, ProcInv, TypeOK
      <3>2. Plain' /\ OnCpu' /\ InCall'  BY <2>1 DEF vars, ProcInv, Plain, OnCpu, InCall, Alive
      <3>3. Asleep'  BY <2>1 DEF vars, ProcInv, Asleep
      <3>4. Building' /\ Built'  BY <2>1 DEF vars, ProcInv, Building, Builds, Built
      <3>5. StacksHeld'  BY <2>1 DEF vars, ProcInv, StacksHeld
      <3>6. Family'  BY <2>1 DEF vars, ProcInv, Family, Alive
      <3>7. Reaped'  BY <2>1 DEF vars, ProcInv, Reaped
      <3>8. Grounded'  BY <2>1 DEF vars, ProcInv, Grounded
      <3> QED  BY <3>1, <3>2, <3>3, <3>4, <3>5, <3>6, <3>7, <3>8 DEF ProcInv
    <2>2. ASSUME NEW p \in Slots, Trap(p) \/ Dispatch(p) \/ Yield(p)
          PROVE  ProcInv'
      BY <2>2, ByTrap, ByDispatch
    <2>3. ASSUME NEW p \in Slots, Step(p)
          PROVE  ProcInv'
      <3>1. \/ Fork(p) \/ AllocFail(p) \/ ForkSetup(p) \/ Start(p) \/ WaitScan(p)
            \/ Exit(p) \/ InitExit(p) \/ \E q \in Slots : Kill(p, q)
        BY <2>3, OnlyPlain
      <3> QED
        BY <3>1, ByFork, ByAllocFail, ByForkSetup, ByStart, ByWaitScan, ByExit, ByInitExit, ByKill
    <2> QED  BY <2>1, <2>2, <2>3 DEF Next
  <1> QED  BY <1>1, InitHolds, PTL DEF Spec

\* No process sleeps in wait() while one of its children is a zombie: exit()'s
\* wakeup is never missed.
THEOREM Wakeups ==
    ASSUME NoThreads
    PROVE  Spec => []NoMissedWakeup
  <1>1. ProcInv => NoMissedWakeup
    <2> SUFFICES ASSUME ProcInv, NEW p \in Slots, NEW q \in Slots,
                        ptable[p].state = "SLEEPING",
                        ptable[q].parent = p, ptable[q].state = "ZOMBIE"
                 PROVE  FALSE
      BY DEF NoMissedWakeup
    <2> QED  BY DEF ProcInv, Reaped
  <1> QED  BY <1>1, ProcInvariance, PTL

\* exit() and wait() leave no process to a parent that has exited or been
\* reaped: there is always somebody who can reap it.
THEOREM Parents ==
    ASSUME NoThreads
    PROVE  Spec => []ParentAlive
  <1>1. ProcInv => ParentAlive
    <2> SUFFICES ASSUME ProcInv, NEW q \in Slots \ {initproc},
                        ptable[q].state \notin {"UNUSED", "EMBRYO"}
                 PROVE  /\ ptable[q].parent # None
                        /\ ptable[ptable[q].parent].state \notin {"UNUSED", "EMBRYO", "ZOMBIE"}
      BY DEF ParentAlive
    <2>1. ptable[q].parent # None  BY DEF ProcInv, Family
    <2>2. Alive(ptable[q].parent)  BY <2>1 DEF ProcInv, Family
    <2> QED  BY <2>1, <2>2 DEF Alive
  <1> QED  BY <1>1, ProcInvariance, PTL

\* The processes never all wait for each other: until init panics one of them is
\* RUNNING or RUNNABLE.
THEOREM SomebodyRuns ==
    ASSUME NoThreads
    PROVE  Spec => []SomeoneRuns
  <1>1. ProcInv => SomeoneRuns
    <2> SUFFICES ASSUME ProcInv, ~SomeoneRuns  PROVE FALSE
      OBVIOUS
    <2> DEFINE S == {p \in Slots : ptable[p].state = "SLEEPING"}
    <2>1. \A p \in Slots : Alive(p) => p \in S  BY DEF SomeoneRuns, Alive
    <2>2. initproc \in S  BY <2>1, Constants DEF ProcInv, Family
    <2>3. ASSUME NEW p \in S  PROVE \E q \in S : ptable[q].parent = p
      <3>1. PICK q \in Slots : ptable[q].parent = p  BY DEF ProcInv, Asleep
      <3>2. ptable[q].state # "UNUSED"  BY <3>1, Constants DEF ProcInv, Family
      <3>3. ptable[q].state # "ZOMBIE"  BY <3>1 DEF ProcInv, Reaped
      <3>4. ptable[q].state # "EMBRYO"
        <4> SUFFICES ASSUME ptable[q].state = "EMBRYO"  PROVE FALSE
          OBVIOUS
        <4>1. PICK b \in Slots : Builds(b) /\ loc[b] = q  BY DEF ProcInv, Built
        <4>2. b = p  BY <3>1, <4>1, Constants DEF ProcInv, Building, Builds
        <4> QED  BY <4>1, <4>2 DEF ProcInv, Asleep, Builds
      <3>5. ptable[q].state \in States  BY DEF ProcInv, TypeOK
      <3>6. Alive(q)  BY <3>2, <3>3, <3>4, <3>5 DEF States, Alive
      <3> QED  BY <2>1, <3>1, <3>6
    <2>4. S \in SUBSET Slots  OBVIOUS
    <2> HIDE DEF S
    <2> QED  BY <2>2, <2>3, <2>4 DEF ProcInv, Grounded
  <1> QED  BY <1>1, ProcInvariance, PTL

\* A kernel stack is held exactly by the slots in use, and a slot is EMBRYO only
\* while the fork that took it builds it: no use after kfree and no leak, even
\* when memory runs out.
THEOREM Stacks ==
    ASSUME NoThreads
    PROVE  Spec => []StacksOwned
  <1>1. ProcInv => StacksOwned
    <2> SUFFICES ASSUME ProcInv  PROVE EmbryoOwned
      BY DEF ProcInv, StacksOwned
    <2> SUFFICES ASSUME NEW q \in Slots, ptable[q].state = "EMBRYO"
                 PROVE  \E p \in Slots :
                            /\ loc[p] = q /\ ptable[p].state \in {"RUNNABLE", "RUNNING"}
                            /\ pc[p] \in {"fork1", "thread1", "thread2", "start"}
      BY DEF EmbryoOwned
    <2>1. PICK p \in Slots : Builds(p) /\ loc[p] = q  BY DEF ProcInv, Built
    <2>2. pc[p] \in {"fork1", "start"}  BY <2>1 DEF Builds
    <2>3. Alive(p)  BY <2>2 DEF ProcInv, InCall
    <2>4. ptable[p].state # "SLEEPING"  BY <2>2 DEF ProcInv, Asleep
    <2> QED  BY <2>1, <2>2, <2>3, <2>4 DEF Alive
  <1> QED  BY <1>1, ProcInvariance, PTL

-----------------------------------------------------------------------------
(* Any mix of process and thread calls, on one processor.  (On two, exit() *)
(* frees the slot of a thread that executes on the other.)                 *)

\* The thread id of one slot.
SetTid(f, q, x) == [f EXCEPT ![q].tid = x]

\* p->tid = x.
LEMMA TidSet ==
    ASSUME NEW f \in Table, NEW q, NEW x \in Tids
    PROVE  /\ SetTid(f, q, x) \in Table
           /\ \A r \in Slots :
                 /\ SetTid(f, q, x)[r].state = f[r].state
                 /\ SetTid(f, q, x)[r].parent = f[r].parent
                 /\ SetTid(f, q, x)[r].chan = f[r].chan
                 /\ SetTid(f, q, x)[r].killed = f[r].killed
                 /\ SetTid(f, q, x)[r].kstack = f[r].kstack
                 /\ SetTid(f, q, x)[r].isThread = f[r].isThread
                 /\ SetTid(f, q, x)[r].t = f[r].t
  <1>1. \A r \in Slots : f[r] \in Process  BY DEF Table
  <1>2. ASSUME NEW r \in Slots
        PROVE  /\ SetTid(f, q, x)[r].state = f[r].state
               /\ SetTid(f, q, x)[r].parent = f[r].parent
               /\ SetTid(f, q, x)[r].chan = f[r].chan
               /\ SetTid(f, q, x)[r].killed = f[r].killed
               /\ SetTid(f, q, x)[r].kstack = f[r].kstack
               /\ SetTid(f, q, x)[r].isThread = f[r].isThread
               /\ SetTid(f, q, x)[r].t = f[r].t
    BY <1>1 DEF SetTid, Table, Process
  <1>3. ASSUME NEW r \in Slots  PROVE SetTid(f, q, x)[r] \in Process
    <2>1. [f[r] EXCEPT !.tid = x] \in Process  BY <1>1 DEF Process
    <2>2. SetTid(f, q, x)[r] = [f[r] EXCEPT !.tid = x] \/ SetTid(f, q, x)[r] = f[r]
      BY DEF SetTid, Table
    <2> QED  BY <1>1, <2>1, <2>2
  <1>4. SetTid(f, q, x) = [r \in Slots |-> SetTid(f, q, x)[r]]  BY DEF SetTid, Table
  <1>5. SetTid(f, q, x) \in Table  BY <1>3, <1>4 DEF Table
  <1> QED  BY <1>2, <1>5

\* The set of thread ids of one slot.
SetT(f, q, x) == [f EXCEPT ![q].t = x]

\* An assignment to entries of p->t[].
LEMMA TSet ==
    ASSUME NEW f \in Table, NEW q, NEW x \in SUBSET Tids
    PROVE  /\ SetT(f, q, x) \in Table
           /\ \A r \in Slots :
                 /\ SetT(f, q, x)[r].t = IF r = q THEN x ELSE f[r].t
                 /\ SetT(f, q, x)[r].state = f[r].state
                 /\ SetT(f, q, x)[r].parent = f[r].parent
                 /\ SetT(f, q, x)[r].chan = f[r].chan
                 /\ SetT(f, q, x)[r].killed = f[r].killed
                 /\ SetT(f, q, x)[r].kstack = f[r].kstack
                 /\ SetT(f, q, x)[r].isThread = f[r].isThread
  <1>1. \A r \in Slots : f[r] \in Process  BY DEF Table
  <1>2. ASSUME NEW r \in Slots
        PROVE  /\ SetT(f, q, x)[r].t = IF r = q THEN x ELSE f[r].t
               /\ SetT(f, q, x)[r].state = f[r].state
               /\ SetT(f, q, x)[r].parent = f[r].parent
               /\ SetT(f, q, x)[r].chan = f[r].chan
               /\ SetT(f, q, x)[r].killed = f[r].killed
               /\ SetT(f, q, x)[r].kstack = f[r].kstack
               /\ SetT(f, q, x)[r].isThread = f[r].isThread
    BY <1>1 DEF SetT, Table, Process
  <1>3. ASSUME NEW r \in Slots  PROVE SetT(f, q, x)[r] \in Process
    <2>1. [f[r] EXCEPT !.t = x] \in Process  BY <1>1 DEF Process
    <2>2. SetT(f, q, x)[r] = [f[r] EXCEPT !.t = x] \/ SetT(f, q, x)[r] = f[r]
      BY DEF SetT, Table
    <2> QED  BY <1>1, <2>1, <2>2
  <1>4. SetT(f, q, x) = [r \in Slots |-> SetT(f, q, x)[r]]  BY DEF SetT, Table
  <1>5. SetT(f, q, x) \in Table  BY <1>3, <1>4 DEF Table
  <1> QED  BY <1>2, <1>5

\* One slot made a thread.
MakeThread(f, q) == [f EXCEPT ![q].isThread = TRUE]

\* p->isThread = 1.
LEMMA MakeThreadSet ==
    ASSUME NEW f \in Table, NEW q
    PROVE  /\ MakeThread(f, q) \in Table
           /\ \A r \in Slots :
                 /\ MakeThread(f, q)[r].isThread <=> (r = q \/ f[r].isThread)
                 /\ MakeThread(f, q)[r].state = f[r].state
                 /\ MakeThread(f, q)[r].parent = f[r].parent
                 /\ MakeThread(f, q)[r].chan = f[r].chan
                 /\ MakeThread(f, q)[r].killed = f[r].killed
                 /\ MakeThread(f, q)[r].kstack = f[r].kstack
                 /\ MakeThread(f, q)[r].t = f[r].t
  <1>1. \A r \in Slots : f[r] \in Process  BY DEF Table
  <1>2. ASSUME NEW r \in Slots
        PROVE  /\ MakeThread(f, q)[r].isThread <=> (r = q \/ f[r].isThread)
               /\ MakeThread(f, q)[r].state = f[r].state
               /\ MakeThread(f, q)[r].parent = f[r].parent
               /\ MakeThread(f, q)[r].chan = f[r].chan
               /\ MakeThread(f, q)[r].killed = f[r].killed
               /\ MakeThread(f, q)[r].kstack = f[r].kstack
               /\ MakeThread(f, q)[r].t = f[r].t
    BY <1>1 DEF MakeThread, Table, Process
  <1>3. ASSUME NEW r \in Slots  PROVE MakeThread(f, q)[r] \in Process
    <2>1. [f[r] EXCEPT !.isThread = TRUE] \in Process  BY <1>1 DEF Process
    <2>2. MakeThread(f, q)[r] = [f[r] EXCEPT !.isThread = TRUE] \/ MakeThread(f, q)[r] = f[r]
      BY DEF MakeThread, Table
    <2> QED  BY <1>1, <2>1, <2>2
  <1>4. MakeThread(f, q) = [r \in Slots |-> MakeThread(f, q)[r]]  BY DEF MakeThread, Table
  <1>5. MakeThread(f, q) \in Table  BY <1>3, <1>4 DEF Table
  <1> QED  BY <1>2, <1>5

\* One slot made a process again.
NoThread(f, q) == [f EXCEPT ![q].isThread = FALSE]

\* p->isThread = 0.
LEMMA NoThreadSet ==
    ASSUME NEW f \in Table, NEW q
    PROVE  /\ NoThread(f, q) \in Table
           /\ \A r \in Slots :
                 /\ NoThread(f, q)[r].isThread <=> (r # q /\ f[r].isThread)
                 /\ NoThread(f, q)[r].state = f[r].state
                 /\ NoThread(f, q)[r].parent = f[r].parent
                 /\ NoThread(f, q)[r].chan = f[r].chan
                 /\ NoThread(f, q)[r].killed = f[r].killed
                 /\ NoThread(f, q)[r].kstack = f[r].kstack
                 /\ NoThread(f, q)[r].t = f[r].t
  <1>1. \A r \in Slots : f[r] \in Process  BY DEF Table
  <1>2. ASSUME NEW r \in Slots
        PROVE  /\ NoThread(f, q)[r].isThread <=> (r # q /\ f[r].isThread)
               /\ NoThread(f, q)[r].state = f[r].state
               /\ NoThread(f, q)[r].parent = f[r].parent
               /\ NoThread(f, q)[r].chan = f[r].chan
               /\ NoThread(f, q)[r].killed = f[r].killed
               /\ NoThread(f, q)[r].kstack = f[r].kstack
               /\ NoThread(f, q)[r].t = f[r].t
    BY <1>1 DEF NoThread, Table, Process
  <1>3. ASSUME NEW r \in Slots  PROVE NoThread(f, q)[r] \in Process
    <2>1. [f[r] EXCEPT !.isThread = FALSE] \in Process  BY <1>1 DEF Process
    <2>2. NoThread(f, q)[r] = [f[r] EXCEPT !.isThread = FALSE] \/ NoThread(f, q)[r] = f[r]
      BY DEF NoThread, Table
    <2> QED  BY <1>1, <2>1, <2>2
  <1>4. NoThread(f, q) = [r \in Slots |-> NoThread(f, q)[r]]  BY DEF NoThread, Table
  <1>5. NoThread(f, q) \in Table  BY <1>3, <1>4 DEF Table
  <1> QED  BY <1>2, <1>5

\* One entry of p->arr_ret[].
SetRet(f, q, i, x) == [f EXCEPT ![q].arr_ret[i] = x]

\* p->arr_ret[i] = x.
LEMMA RetSet ==
    ASSUME NEW f \in Table, NEW q, NEW i \in Tids, NEW x \in Values
    PROVE  /\ SetRet(f, q, i, x) \in Table
           /\ \A r \in Slots :
                 /\ SetRet(f, q, i, x)[r].state = f[r].state
                 /\ SetRet(f, q, i, x)[r].parent = f[r].parent
                 /\ SetRet(f, q, i, x)[r].chan = f[r].chan
                 /\ SetRet(f, q, i, x)[r].killed = f[r].killed
                 /\ SetRet(f, q, i, x)[r].kstack = f[r].kstack
                 /\ SetRet(f, q, i, x)[r].isThread = f[r].isThread
                 /\ SetRet(f, q, i, x)[r].t = f[r].t
  <1>1. \A r \in Slots : f[r] \in Process  BY DEF Table
  <1>2. ASSUME NEW r \in Slots
        PROVE  /\ SetRet(f, q, i, x)[r].state = f[r].state
               /\ SetRet(f, q, i, x)[r].parent = f[r].parent
               /\ SetRet(f, q, i, x)[r].chan = f[r].chan
               /\ SetRet(f, q, i, x)[r].killed = f[r].killed
               /\ SetRet(f, q, i, x)[r].kstack = f[r].kstack
               /\ SetRet(f, q, i, x)[r].isThread = f[r].isThread
               /\ SetRet(f, q, i, x)[r].t = f[r].t
    BY <1>1 DEF SetRet, Table, Process
  <1>3. ASSUME NEW r \in Slots  PROVE SetRet(f, q, i, x)[r] \in Process
    <2>1. [f[r] EXCEPT !.arr_ret[i] = x] \in Process  BY <1>1 DEF Process
    <2>2. SetRet(f, q, i, x)[r] = [f[r] EXCEPT !.arr_ret[i] = x] \/ SetRet(f, q, i, x)[r] = f[r]
      BY DEF SetRet, Table
    <2> QED  BY <1>1, <2>1, <2>2
  <1>4. SetRet(f, q, i, x) = [r \in Slots |-> SetRet(f, q, i, x)[r]]  BY DEF SetRet, Table
  <1>5. SetRet(f, q, i, x) \in Table  BY <1>3, <1>4 DEF Table
  <1> QED  BY <1>2, <1>5

\* With p on the CPU (None: nobody) the table is well formed: p alone is
\* RUNNING, who is killed is awake, nobody is its own parent, and initproc is a
\* process without parent.
Sane(f, p) ==
    /\ f \in Table
    /\ \A q \in Slots : /\ f[q].state = "RUNNING" <=> q = p
                        /\ f[q].killed => f[q].state # "SLEEPING"
                        /\ f[q].parent # q
    /\ f[initproc].state \notin {"UNUSED", "EMBRYO"}
    /\ f[initproc].parent = None /\ ~f[initproc].isThread

\* Only these four fields matter.
LEMMA SaneSame ==
    ASSUME NEW f, NEW g \in Table, NEW p, Sane(f, p),
           \A r \in Slots : /\ g[r].state = f[r].state /\ g[r].parent = f[r].parent
                            /\ g[r].killed <=> f[r].killed
                            /\ g[r].isThread <=> f[r].isThread
    PROVE  Sane(g, p)
  BY Constants DEF Sane

\* Another slot changes its state.
LEMMA SaneState ==
    ASSUME NEW f, NEW p, Sane(f, p), NEW q \in Slots, q # p,
           NEW x \in States \ {"RUNNING"}, x = "SLEEPING" => ~f[q].killed,
           q = initproc => x \notin {"UNUSED", "EMBRYO"}
    PROVE  Sane(SetState(f, q, x), p)
  <1>1. f \in Table  BY DEF Sane
  <1> QED  BY <1>1, StateSet, Constants DEF Sane

\* The slot on the CPU leaves it.
LEMMA SaneOff ==
    ASSUME NEW f, NEW p \in Slots, Sane(f, p),
           NEW x \in States \ {"RUNNING"}, x = "SLEEPING" => ~f[p].killed,
           p = initproc => x \notin {"UNUSED", "EMBRYO"}
    PROVE  Sane(SetState(f, p, x), None)
  <1>1. f \in Table  BY DEF Sane
  <1> QED  BY <1>1, StateSet, Constants DEF Sane

\* A slot other than initproc changes its parent.
LEMMA SaneParent ==
    ASSUME NEW f, NEW p, Sane(f, p), NEW q \in Slots \ {initproc},
           NEW x \in Slots \cup {None}, x # q
    PROVE  Sane(SetParent(f, q, x), p)
  <1>1. f \in Table  BY DEF Sane
  <1> QED  BY <1>1, ParentSet, Constants DEF Sane

\* A slot other than initproc becomes a thread.
LEMMA SaneThread ==
    ASSUME NEW f, NEW p, Sane(f, p), NEW q \in Slots \ {initproc}
    PROVE  Sane(MakeThread(f, q), p)
  <1>1. f \in Table  BY DEF Sane
  <1>2. /\ MakeThread(f, q) \in Table
        /\ \A r \in Slots : /\ MakeThread(f, q)[r].state = f[r].state
                            /\ MakeThread(f, q)[r].parent = f[r].parent
                            /\ MakeThread(f, q)[r].killed <=> f[r].killed
    BY <1>1, MakeThreadSet
  <1>3. ~MakeThread(f, q)[initproc].isThread  BY <1>1, MakeThreadSet, Constants DEF Sane
  <1> QED  BY <1>2, <1>3, Constants DEF Sane

\* A slot that does not run is given back.
LEMMA SaneFree ==
    ASSUME NEW f, NEW p, Sane(f, p), NEW q \in Slots \ {initproc}, q # p
    PROVE  Sane(Release(f, q), p)
  <1>1. f \in Table  BY DEF Sane
  <1>2. \A r \in Slots : r # q => Release(f, q)[r] = f[r]  BY <1>1, Released
  <1>3. /\ Release(f, q) \in Table /\ Release(f, q)[q].state = "UNUSED"
        /\ Release(f, q)[q].parent = None
    BY <1>1, Released
  <1> QED  BY <1>2, <1>3, Constants DEF Sane

\* wakeup1 puts nobody on the CPU and to sleep.
LEMMA SaneWake ==
    ASSUME NEW f, NEW p, Sane(f, p), NEW c
    PROVE  Sane(wakeup1(f, c), p)
  <1>1. f \in Table  BY DEF Sane
  <1> QED  BY <1>1, WokenUp, Constants DEF Sane

\* exit() hands children to initproc.
LEMMA SaneGive ==
    ASSUME NEW f, NEW p, Sane(f, p), NEW S, initproc \notin S
    PROVE  Sane(GiveToInit(f, S), p)
  <1>1. f \in Table  BY DEF Sane
  <1> QED  BY <1>1, GivenToInit, Constants DEF Sane

\* The kernel steps at which the local of the system call names a slot that the
\* call writes to: a new slot, or the thread that exit() is freeing.
UseSteps == {"fork1", "start", "thread1", "thread2", "exit_thread", "texit_sibling"}

\* The kernel steps of exit() that initproc never takes.
TexitSteps == {"exit_thread", "texit_sibling", "texit_parent", "texit_parents", "texit_self"}

\* The kernel steps at which the local names the main thread that exit() found.
ParentSteps == {"texit_parent", "texit_parents"}

\* The slot of the first kind is never the caller or initproc, that of the
\* second kind is never the caller.
Locals ==
    \A p \in Slots : /\ pc[p] \in UseSteps => loc[p] \in Slots \ {p, initproc}
                     /\ pc[p] \in TexitSteps => p # initproc
                     /\ pc[p] \in ParentSteps => loc[p] \in Slots \ {p}

\* The inductive invariant on one CPU.
AnyInv ==
    /\ \E p \in Slots \cup {None} : Sane(ptable, p) /\ on = {p} \ {None}
    /\ pc \in [Slots -> Steps] /\ Locals
    /\ loc \in [Slots -> Slots \cup Tids \cup {None}]
    /\ gave \in [Slots -> Values \cup {NoValue}]
    /\ got \in [Slots -> Values \cup {NoValue}]

\* On one CPU who executes is alone.
LEMMA Alone ==
    ASSUME AnyInv, NEW p \in Slots, p \in on
    PROVE  Sane(ptable, p) /\ on = {p}
  BY DEF AnyInv

\* p goes to another kernel step with a new local, on the CPU or off it.
LEMMA Moves ==
    ASSUME AnyInv, NEW p \in Slots, p \in on,
           NEW s \in Steps, Goto(p, s),
           NEW x \in Slots \cup Tids \cup {None},
           loc' = [loc EXCEPT ![p] = x],
           s \in UseSteps => x \in Slots \ {p, initproc},
           s \in TexitSteps => p # initproc /\ (s \in ParentSteps => x \in Slots \ {p}),
           \/ Sane(ptable', p) /\ on' = on
           \/ Sane(ptable', None) /\ on' = on \ {p},
           gave' \in [Slots -> Values \cup {NoValue}],
           got' \in [Slots -> Values \cup {NoValue}]
    PROVE  AnyInv'
  <1>1. Sane(ptable, p) /\ on = {p}  BY Alone
  <1>2. pc \in [Slots -> Steps] /\ Locals /\ loc \in [Slots -> Slots \cup Tids \cup {None}]
    BY DEF AnyInv
  <1>3. \E r \in Slots \cup {None} : Sane(ptable', r) /\ on' = {r} \ {None}
    <2>1. CASE Sane(ptable', p) /\ on' = on  BY <1>1, <2>1, Constants
    <2>2. CASE Sane(ptable', None) /\ on' = on \ {p}  BY <1>1, <2>2
    <2> QED  BY <2>1, <2>2
  <1>4. /\ pc' \in [Slots -> Steps] /\ loc' \in [Slots -> Slots \cup Tids \cup {None}]
        /\ pc'[p] = s /\ loc'[p] = x
        /\ \A q \in Slots : q # p => pc'[q] = pc[q] /\ loc'[q] = loc[q]
    BY <1>2 DEF Goto
  <1>5. ParentSteps \subseteq TexitSteps  BY DEF ParentSteps, TexitSteps
  <1>6. Locals'  BY <1>2, <1>4, <1>5 DEF Locals
  <1> QED  BY <1>3, <1>4, <1>6 DEF AnyInv

\* The same when the local stays.
LEMMA MovesOn ==
    ASSUME AnyInv, NEW p \in Slots, p \in on,
           NEW s \in Steps, Goto(p, s), loc' = loc,
           s \in UseSteps => pc[p] \in UseSteps,
           s \in TexitSteps => pc[p] \in TexitSteps /\ (s \in ParentSteps => pc[p] \in ParentSteps),
           \/ Sane(ptable', p) /\ on' = on
           \/ Sane(ptable', None) /\ on' = on \ {p},
           gave' = gave, got' = got
    PROVE  AnyInv'
  <1>1. loc \in [Slots -> Slots \cup Tids \cup {None}]
        /\ (s \in UseSteps => loc[p] \in Slots \ {p, initproc})
        /\ (s \in TexitSteps => p # initproc /\ (s \in ParentSteps => loc[p] \in Slots \ {p}))
        /\ gave' \in [Slots -> Values \cup {NoValue}]
        /\ got' \in [Slots -> Values \cup {NoValue}]
    BY DEF AnyInv, Locals
  <1>2. loc' = [loc EXCEPT ![p] = loc[p]] /\ loc[p] \in Slots \cup Tids \cup {None}
    BY <1>1
  <1> QED  BY <1>1, <1>2, Moves

\* The same when p returns to user space.
LEMMA MovesBack ==
    ASSUME AnyInv, NEW p \in Slots, p \in on, Return(p),
           \/ Sane(ptable', p) /\ on' = on
           \/ Sane(ptable', None) /\ on' = on \ {p},
           gave' \in [Slots -> Values \cup {NoValue}],
           got' \in [Slots -> Values \cup {NoValue}]
    PROVE  AnyInv'
  <1>1. "user" \in Steps /\ "user" \notin UseSteps /\ "user" \notin TexitSteps /\ Goto(p, "user")
        /\ loc' = [loc EXCEPT ![p] = None]
    BY DEF Steps, UseSteps, TexitSteps, Return
  <1> QED  BY <1>1, Moves

\* The trap changes the step of the caller only.
LEMMA AnyTrap ==
    ASSUME AnyInv, NEW p \in Slots, Trap(p)
    PROVE  AnyInv'
  <1>1. /\ p \in on /\ Goto(p, "sys") /\ "sys" \in Steps /\ "sys" \notin UseSteps \cup TexitSteps
        /\ ptable' = ptable /\ on' = on /\ loc' = loc /\ gave' = gave /\ got' = got
    BY DEF Trap, At, Steps, UseSteps, TexitSteps
  <1>2. Sane(ptable', p)  BY <1>1, Alone
  <1> QED  BY <1>1, <1>2, MovesOn

\* With one CPU the scheduler runs somebody only when nobody runs.
LEMMA AnyDispatch ==
    ASSUME NCPU = 1, AnyInv, NEW p \in Slots, Dispatch(p)
    PROVE  AnyInv'
  <1>1. /\ Cardinality(on) < NCPU /\ ptable[p].state = "RUNNABLE"
        /\ ptable' = SetState(ptable, p, "RUNNING") /\ on' = on \cup {p}
        /\ UNCHANGED <<pc, loc, gave, got>>
    BY DEF Dispatch, SetState
  <1>2. PICK r \in Slots \cup {None} : Sane(ptable, r) /\ on = {r} \ {None}
    BY DEF AnyInv
  <1>3. on = {}
    <2>1. ASSUME r # None  PROVE FALSE
      <3>1. on = {r}  BY <1>2, <2>1
      <3>2. Cardinality(on) = 1  BY <3>1, FS_Singleton
      <3> QED  BY <1>1, <3>2
    <2> QED  BY <1>2, <2>1
  <1>4. r = None  BY <1>2, <1>3
  <1>5. ptable \in Table /\ "RUNNING" \in States  BY <1>2 DEF Sane, States
  <1>6. Sane(ptable', p)  BY <1>1, <1>2, <1>4, <1>5, StateSet, Constants DEF Sane
  <1>7. on' = {p} \ {None}  BY <1>1, <1>3, Constants
  <1>8. Locals'  BY <1>1 DEF AnyInv, Locals
  <1> QED  BY <1>1, <1>6, <1>7, <1>8 DEF AnyInv

\* The clock takes the CPU away.
LEMMA AnyYield ==
    ASSUME AnyInv, NEW p \in Slots, Yield(p)
    PROVE  AnyInv'
  <1>1. /\ p \in on /\ ptable' = SetState(ptable, p, "RUNNABLE") /\ on' = on \ {p}
        /\ UNCHANGED <<pc, loc, gave, got>>
    BY DEF Yield, SetState
  <1>2. Sane(ptable, p) /\ on = {p}  BY <1>1, Alone
  <1>3. Sane(ptable', None)  BY <1>1, <1>2, SaneOff DEF States
  <1>4. on' = {None} \ {None}  BY <1>1, <1>2
  <1>5. Locals'  BY <1>1 DEF AnyInv, Locals
  <1> QED  BY <1>1, <1>3, <1>4, <1>5 DEF AnyInv

\* fork and thread_create take a slot that is UNUSED, hence neither the caller
\* nor initproc.
LEMMA AnyAlloc ==
    ASSUME AnyInv, NEW p \in Slots, NEW call, NEW next \in {"fork1", "thread1"},
           Alloc(p, call, next)
    PROVE  AnyInv'
  <1>1. p \in on /\ on' = on /\ gave' = gave /\ got' = got  BY DEF Alloc, Makes, At
  <1>2. Sane(ptable, p)  BY <1>1, Alone
  <1>3. /\ gave' \in [Slots -> Values \cup {NoValue}]
        /\ got' \in [Slots -> Values \cup {NoValue}]
    BY <1>1 DEF AnyInv
  <1>4. CASE ptable' = ptable /\ Return(p)
    BY <1>1, <1>2, <1>3, <1>4, MovesBack
  <1>5. CASE \E m \in Slots : /\ ptable[m].state = "UNUSED"
                              /\ ptable' = GivePid(SetState(ptable, m, "EMBRYO"), m)
                              /\ loc' = [loc EXCEPT ![p] = m]
                              /\ Goto(p, next)
    <2>1. PICK m \in Slots : /\ ptable[m].state = "UNUSED"
                             /\ ptable' = GivePid(SetState(ptable, m, "EMBRYO"), m)
                             /\ loc' = [loc EXCEPT ![p] = m]
                             /\ Goto(p, next)
      BY <1>5
    <2>2. m # p /\ m # initproc  BY <1>2, <2>1 DEF Sane
    <2>3. Sane(SetState(ptable, m, "EMBRYO"), p)
      <3>1. "EMBRYO" \in States \ {"RUNNING"}  BY DEF States
      <3> QED  BY <1>2, <2>2, <3>1, SaneState
    <2>4. Sane(ptable', p)
      <3> DEFINE f == SetState(ptable, m, "EMBRYO")
      <3>1. f \in Table  BY <2>3 DEF Sane
      <3> HIDE DEF f
      <3>2. /\ GivePid(f, m) \in Table
            /\ \A r \in Slots : /\ GivePid(f, m)[r].state = f[r].state
                                /\ GivePid(f, m)[r].parent = f[r].parent
                                /\ GivePid(f, m)[r].killed = f[r].killed
                                /\ GivePid(f, m)[r].isThread = f[r].isThread
        BY <3>1, GivePidSet
      <3>3. Sane(f, p)  BY <2>3 DEF f
      <3>4. ptable' = GivePid(f, m)  BY <2>1 DEF f
      <3> QED  BY <3>2, <3>3, <3>4, SaneSame
    <2>5. next \in Steps /\ next \notin TexitSteps  BY DEF Steps, TexitSteps
    <2> QED  BY <1>1, <1>3, <2>1, <2>2, <2>4, <2>5, Moves
  <1> QED  BY <1>4, <1>5, AllocTable

\* The slot is given back when memory runs out.
LEMMA AnyAllocFail ==
    ASSUME AnyInv, NEW p \in Slots, AllocFail(p)
    PROVE  AnyInv'
  <1>1. /\ p \in on /\ pc[p] \in UseSteps
        /\ ptable' = SetState(ptable, loc[p], "UNUSED")
        /\ Return(p) /\ on' = on /\ gave' = gave /\ got' = got
    BY DEF AllocFail, At, SetState, UseSteps
  <1>2. loc[p] \in Slots \ {p, initproc}  BY <1>1 DEF AnyInv, Locals
  <1>3. Sane(ptable', p)
    <2>1. "UNUSED" \in States \ {"RUNNING"} /\ "UNUSED" # "SLEEPING"  BY DEF States
    <2>2. Sane(ptable, p)  BY <1>1, Alone
    <2> QED  BY <1>1, <1>2, <2>1, <2>2, SaneState
  <1>4. /\ gave' \in [Slots -> Values \cup {NoValue}]
        /\ got' \in [Slots -> Values \cup {NoValue}]
    BY <1>1 DEF AnyInv
  <1> QED  BY <1>1, <1>3, <1>4, MovesBack

\* A kernel stack changes nothing of this.
LEMMA SaneStack ==
    ASSUME NEW f, NEW p, Sane(f, p), NEW q
    PROVE  Sane(GiveStack(f, q), p)
  <1>1. f \in Table  BY DEF Sane
  <1> QED  BY <1>1, GiveStackSet, SaneSame

\* Nor does a channel.
LEMMA SaneChan ==
    ASSUME NEW f, NEW p, Sane(f, p), NEW q, NEW x \in Slots \cup {None}
    PROVE  Sane(SetChan(f, q, x), p)
  <1>1. f \in Table  BY DEF Sane
  <1> QED  BY <1>1, ChanSet, SaneSame

\* Nor does t[].
LEMMA SaneT ==
    ASSUME NEW f, NEW p, Sane(f, p), NEW q, NEW x \in SUBSET Tids
    PROVE  Sane(SetT(f, q, x), p)
  <1>1. f \in Table  BY DEF Sane
  <1> QED  BY <1>1, TSet, SaneSame

\* Nor does a thread id.
LEMMA SaneTid ==
    ASSUME NEW f, NEW p, Sane(f, p), NEW q, NEW x \in Tids
    PROVE  Sane(SetTid(f, q, x), p)
  <1>1. f \in Table  BY DEF Sane
  <1> QED  BY <1>1, TidSet, SaneSame

\* Nor does arr_ret[].
LEMMA SaneRet ==
    ASSUME NEW f, NEW p, Sane(f, p), NEW q, NEW i \in Tids, NEW x \in Values
    PROVE  Sane(SetRet(f, q, i, x), p)
  <1>1. f \in Table  BY DEF Sane
  <1> QED  BY <1>1, RetSet, SaneSame

\* fork sets the new slot up.
LEMMA AnyForkSetup ==
    ASSUME AnyInv, NEW p \in Slots, ForkSetup(p)
    PROVE  AnyInv'
  <1>1. /\ p \in on /\ pc[p] \in UseSteps
        /\ Goto(p, "start") /\ loc' = loc /\ on' = on /\ gave' = gave /\ got' = got
    BY DEF ForkSetup, At, UseSteps
  <1>2. loc[p] \in Slots \ {p, initproc}  BY <1>1 DEF AnyInv, Locals
  <1>3. Sane(GiveStack(ptable, loc[p]), p)  BY <1>1, Alone, SaneStack
  <1>4. Sane(ptable', p)  BY <1>2, <1>3, SaneParent, ForkSetupTable
  <1>5. "start" \in Steps /\ "start" \notin TexitSteps  BY DEF Steps, TexitSteps
  <1> QED  BY <1>1, <1>4, <1>5, MovesOn

\* thread_create sets the new slot up, with a tid or without.
LEMMA AnyThreadSetup ==
    ASSUME AnyInv, NEW p \in Slots, ThreadSetup(p)
    PROVE  AnyInv'
  <1> DEFINE np == loc[p]
             free == Tids \ ptable[p].t
             i == IF free = {} THEN ptable[np].tid ELSE Min(free)
             t == IF free = {} THEN ptable[p].t ELSE ptable[p].t \cup {i}
             a == GiveStack(ptable, np)
             b == SetParent(a, np, p)
             c == MakeThread(b, np)
             d == SetTid(c, np, i)
  <1>1. /\ p \in on /\ pc[p] \in UseSteps
        /\ Goto(p, "thread2") /\ loc' = loc /\ on' = on /\ gave' = gave /\ got' = got
    BY DEF ThreadSetup, At, UseSteps
  <1>2. np \in Slots \ {p, initproc}  BY <1>1 DEF AnyInv, Locals
  <1>3. Sane(ptable, p)  BY <1>1, Alone
  <1>4. i \in Tids /\ t \in SUBSET Tids
    <2>1. ptable[p].t \in SUBSET Tids /\ ptable[np].tid \in Tids
      BY <1>2, <1>3 DEF Sane, Table, Process
    <2>2. free # {} => Min(free) \in free  BY Least, Constants
    <2> QED  BY <2>1, <2>2
  <1>5. ptable' = SetT(d, p, t)
    BY <1>2, <1>3 DEF ThreadSetup, GiveStack, SetParent, MakeThread, SetTid, SetT, Sane, Table, Process
  <1> HIDE DEF np, i, t
  <1>6. Sane(a, p)  BY <1>3, SaneStack
  <1>7. Sane(b, p)  BY <1>2, <1>6, SaneParent
  <1>8. Sane(c, p)  BY <1>2, <1>7, SaneThread
  <1>9. Sane(d, p)  BY <1>4, <1>8, SaneTid
  <1>10. Sane(ptable', p)  BY <1>4, <1>5, <1>9, SaneT
  <1>11. "thread2" \in Steps /\ "thread2" \notin TexitSteps  BY DEF Steps, TexitSteps
  <1> QED  BY <1>1, <1>10, <1>11, MovesOn

\* The new slot becomes RUNNABLE.
LEMMA AnyStart ==
    ASSUME AnyInv, NEW p \in Slots, Start(p)
    PROVE  AnyInv'
  <1> DEFINE m == loc[p]
  <1>1. /\ p \in on /\ pc[p] \in UseSteps /\ on' = on /\ gave' = gave /\ got' = got
        /\ ptable' = SetState(ptable, m, "RUNNABLE")
        /\ pc' = [pc EXCEPT ![p] = "user", ![m] = "user"]
        /\ loc' = [loc EXCEPT ![p] = None, ![m] = None]
    BY DEF Start, At, SetState, UseSteps
  <1>2. m \in Slots \ {p, initproc}  BY <1>1 DEF AnyInv, Locals
  <1> HIDE DEF m
  <1>3. Sane(ptable', p)
    <2>1. "RUNNABLE" \in States \ {"RUNNING"}  BY DEF States
    <2> QED  BY <1>1, <1>2, <2>1, Alone, SaneState
  <1>4. on' = {p} \ {None}  BY <1>1, Alone, Constants
  <1>5. pc \in [Slots -> Steps] /\ Locals /\ loc \in [Slots -> Slots \cup Tids \cup {None}]
    BY DEF AnyInv
  <1>6. "user" \in Steps  BY DEF Steps
  <1>7. /\ pc' \in [Slots -> Steps] /\ loc' \in [Slots -> Slots \cup Tids \cup {None}]
        /\ \A q \in Slots : \/ pc'[q] = "user"
                            \/ pc'[q] = pc[q] /\ loc'[q] = loc[q]
    BY <1>1, <1>5, <1>6
  <1>8. Locals'  BY <1>5, <1>7 DEF Locals, UseSteps, TexitSteps, ParentSteps
  <1>9. /\ gave' \in [Slots -> Values \cup {NoValue}]
        /\ got' \in [Slots -> Values \cup {NoValue}]
    BY <1>1 DEF AnyInv
  <1> QED  BY <1>3, <1>4, <1>7, <1>8, <1>9 DEF AnyInv

\* The new thread gets its user stack, or thread_create gives up.
LEMMA AnyStack ==
    ASSUME AnyInv, NEW p \in Slots, StackFail(p) \/ StackDone(p)
    PROVE  AnyInv'
  <1>1. /\ p \in on /\ pc[p] \in UseSteps
        /\ ptable' = ptable /\ on' = on /\ gave' = gave /\ got' = got
        /\ \/ Return(p)
           \/ (Goto(p, "start") /\ loc' = loc)
    BY DEF StackFail, StackDone, At, UseSteps
  <1>2. Sane(ptable', p)  BY <1>1, Alone
  <1>3. /\ gave' \in [Slots -> Values \cup {NoValue}]
        /\ got' \in [Slots -> Values \cup {NoValue}]
    BY <1>1 DEF AnyInv
  <1>4. "start" \in Steps /\ "start" \notin TexitSteps  BY DEF Steps, TexitSteps
  <1>5. CASE Return(p)  BY <1>1, <1>2, <1>3, <1>5, MovesBack
  <1>6. CASE Goto(p, "start") /\ loc' = loc  BY <1>1, <1>2, <1>4, <1>6, MovesOn
  <1> QED  BY <1>1, <1>5, <1>6

\* Who is not killed falls asleep.
LEMMA Fallen ==
    ASSUME NEW f, NEW p \in Slots, Sane(f, p), ~f[p].killed
    PROVE  Sane(SetChan(SetState(f, p, "SLEEPING"), p, p), None)
  <1>1. "SLEEPING" \in States \ {"RUNNING"} /\ "SLEEPING" \notin {"UNUSED", "EMBRYO"}
    BY DEF States
  <1>2. Sane(SetState(f, p, "SLEEPING"), None)  BY <1>1, SaneOff
  <1> QED  BY <1>2, SaneChan

\* wait() frees a child, returns or sleeps.
LEMMA AnyWaitScan ==
    ASSUME AnyInv, NEW p \in Slots, WaitScan(p)
    PROVE  AnyInv'
  <1> DEFINE kids == {q \in Slots : ptable[q].parent = p}
             dead == {q \in kids : ptable[q].state = "ZOMBIE" /\ ~ptable[q].isThread}
  <1>1. p \in on /\ gave' = gave /\ got' = got  BY DEF WaitScan, Makes, At
  <1>2. Sane(ptable, p)  BY <1>1, Alone
  <1>3. /\ gave' \in [Slots -> Values \cup {NoValue}]
        /\ got' \in [Slots -> Values \cup {NoValue}]
    BY <1>1 DEF AnyInv
  <1>4. ASSUME NEW d \in dead, ptable' = SetChan(Release(ptable, d), p, None),
               Return(p), on' = on
        PROVE  AnyInv'
    <2>1. d \in Slots \ {initproc} /\ d # p  BY <1>2, Constants DEF Sane
    <2>2. Sane(ptable', p)  BY <1>2, <1>4, <2>1, SaneFree, SaneChan
    <2> QED  BY <1>1, <1>3, <1>4, <2>2, MovesBack
  <1>5. CASE ptable' = SetChan(ptable, p, None) /\ Return(p) /\ on' = on
    <2>1. Sane(ptable', p)  BY <1>2, <1>5, SaneChan
    <2> QED  BY <1>1, <1>3, <1>5, <2>1, MovesBack
  <1>6. CASE /\ ~ptable[p].killed
             /\ ptable' = SetChan(SetState(ptable, p, "SLEEPING"), p, p)
             /\ on' = on \ {p} /\ Goto(p, "wait") /\ loc' = loc
    <2>1. Sane(ptable', None)  BY <1>2, <1>6, Fallen
    <2>2. "wait" \in Steps /\ "wait" \notin UseSteps \cup TexitSteps
      BY DEF Steps, UseSteps, TexitSteps
    <2> QED  BY <1>1, <1>6, <2>1, <2>2, MovesOn
  <1>7. \/ \E d \in dead : /\ ptable' = SetChan(Release(ptable, d), p, None)
                           /\ Return(p) /\ on' = on
        \/ ptable' = SetChan(ptable, p, None) /\ Return(p) /\ on' = on
        \/ /\ ~ptable[p].killed
           /\ ptable' = SetChan(SetState(ptable, p, "SLEEPING"), p, p)
           /\ on' = on \ {p} /\ Goto(p, "wait") /\ loc' = loc
    BY WaitTable
  <1> HIDE DEF dead
  <1> QED  BY <1>4, <1>5, <1>6, <1>7

\* A slot is a thread no longer.
LEMMA SaneNoThread ==
    ASSUME NEW f, NEW p, Sane(f, p), NEW q
    PROVE  Sane(NoThread(f, q), p)
  <1>1. f \in Table  BY DEF Sane
  <1>2. /\ NoThread(f, q) \in Table
        /\ \A r \in Slots : /\ NoThread(f, q)[r].state = f[r].state
                            /\ NoThread(f, q)[r].parent = f[r].parent
                            /\ NoThread(f, q)[r].killed <=> f[r].killed
    BY <1>1, NoThreadSet
  <1>3. ~NoThread(f, q)[initproc].isThread  BY <1>1, NoThreadSet, Constants DEF Sane
  <1> QED  BY <1>2, <1>3, Constants DEF Sane

\* thread_join frees a zombie of that tid, whosever it is, returns or sleeps.
LEMMA AnyJoinScan ==
    ASSUME AnyInv, NEW p \in Slots, NEW thread \in Tids, JoinScan(p, thread)
    PROVE  AnyInv'
  <1> DEFINE kids == Joinable(p)
             dead == {q \in kids : ptable[q].state = "ZOMBIE" /\ ptable[q].tid = thread}
  <1>1. p \in on /\ gave' = gave  BY DEF JoinScan, Makes, At
  <1>2. Sane(ptable, p)  BY <1>1, Alone
  <1>3. gave' \in [Slots -> Values \cup {NoValue}] /\ got \in [Slots -> Values \cup {NoValue}]
    BY <1>1 DEF AnyInv
  <1>4. CASE dead # {}
    <2> DEFINE m == Min(dead)
               f == NoThread(Release(ptable, m), m)
               g == SetTid(f, m, 0)
               t == ptable[p].t \ {thread}
               h == SetT(g, p, t)
    <2>1. m \in dead  BY <1>4, Least, Constants DEF Joinable
    <2>2. m \in Slots \ {initproc} /\ m # p
      <3>1. m \in Slots /\ ptable[m].state = "ZOMBIE" /\ (ptable[m].parent = p \/ ptable[m].isThread)
        BY <2>1 DEF Joinable
      <3> HIDE DEF m
      <3> QED  BY <1>2, <3>1, Constants DEF Sane
    <2>3. /\ got' = [got EXCEPT ![p] = ptable[p].arr_ret[thread]]
          /\ Return(p) /\ on' = on
      BY <1>4 DEF JoinScan
    <2>4. ptable' = SetChan(h, p, None)
      <3>1. ptable' = [ptable EXCEPT
                          ![m] = [Freed(ptable[m]) EXCEPT !.isThread = FALSE, !.tid = 0],
                          ![p].t = @ \ {thread}, ![p].chan = None]
        BY <1>4 DEF JoinScan
      <3> HIDE DEF m
      <3>2. ptable \in Table  BY <1>2 DEF Sane
      <3> QED
        BY <2>2, <3>1, <3>2 DEF SetChan, SetT, SetTid, NoThread, Release, Freed, Table, Process
    <2>5. t \in SUBSET Tids /\ ptable[p].arr_ret[thread] \in Values \cup {NoValue}
      BY <1>2 DEF Sane, Table, Process
    <2> HIDE DEF m, t
    <2>6. Sane(f, p)  BY <1>2, <2>2, SaneFree, SaneNoThread
    <2>7. Sane(g, p)  BY <2>6, SaneTid, Constants
    <2>8. Sane(ptable', p)  BY <2>4, <2>5, <2>7, SaneT, SaneChan
    <2>9. got' \in [Slots -> Values \cup {NoValue}]  BY <1>3, <2>3, <2>5
    <2> QED  BY <1>1, <1>3, <2>3, <2>8, <2>9, MovesBack
  <1>5. CASE ptable' = SetChan(ptable, p, None) /\ Return(p) /\ on' = on /\ got' = got
    <2>1. Sane(ptable', p)  BY <1>2, <1>5, SaneChan
    <2> QED  BY <1>1, <1>3, <1>5, <2>1, MovesBack
  <1>6. CASE /\ ~ptable[p].killed
             /\ ptable' = SetChan(SetState(ptable, p, "SLEEPING"), p, p)
             /\ on' = on \ {p} /\ Goto(p, "join")
             /\ loc' = [loc EXCEPT ![p] = thread] /\ got' = got
    <2>1. Sane(ptable', None)  BY <1>2, <1>6, Fallen
    <2>2. "join" \in Steps /\ "join" \notin UseSteps \cup TexitSteps
      BY DEF Steps, UseSteps, TexitSteps
    <2> QED  BY <1>1, <1>3, <1>6, <2>1, <2>2, Moves
  <1>7. dead = {} => \/ ptable' = SetChan(ptable, p, None) /\ Return(p) /\ on' = on /\ got' = got
                     \/ /\ ~ptable[p].killed
                        /\ ptable' = SetChan(SetState(ptable, p, "SLEEPING"), p, p)
                        /\ on' = on \ {p} /\ Goto(p, "join")
                        /\ loc' = [loc EXCEPT ![p] = thread] /\ got' = got
    BY DEF JoinScan, Sleep, SetChan, SetState
  <1> QED  BY <1>4, <1>5, <1>6, <1>7

\* kill() marks a slot, the caller's own included, and wakes it.
LEMMA AnyKill ==
    ASSUME AnyInv, NEW p \in Slots, NEW q \in Slots, Kill(p, q)
    PROVE  AnyInv'
  <1> DEFINE f == MarkKilled(ptable, q)
             x == IF ptable[q].state = "SLEEPING" THEN "RUNNABLE" ELSE ptable[q].state
  <1>1. p \in on /\ Return(p) /\ on' = on /\ gave' = gave /\ got' = got
    BY DEF Kill, Makes, At
  <1>2. Sane(ptable, p) /\ ptable \in Table  BY <1>1, Alone DEF Sane
  <1>3. x \in States  BY <1>2 DEF Table, Process, States
  <1>4. /\ f \in Table
        /\ \A r \in Slots : /\ f[r].killed <=> (r = q \/ ptable[r].killed)
                            /\ f[r].state = ptable[r].state
                            /\ f[r].parent = ptable[r].parent
                            /\ f[r].isThread <=> ptable[r].isThread
    BY <1>2, MarkKilledSet
  <1>5. ptable' = SetState(f, q, x)  BY KillTable
  <1>6. x # "SLEEPING" /\ (x = "RUNNING" <=> q = p)
        /\ (x \in {"UNUSED", "EMBRYO"} => ptable[q].state \in {"UNUSED", "EMBRYO"})
    BY <1>2 DEF Sane
  <1> HIDE DEF f, x
  <1>7. /\ ptable' \in Table
        /\ \A r \in Slots : /\ ptable'[r].state = IF r = q THEN x ELSE ptable[r].state
                            /\ ptable'[r].killed <=> (r = q \/ ptable[r].killed)
                            /\ ptable'[r].parent = ptable[r].parent
                            /\ ptable'[r].isThread <=> ptable[r].isThread
    BY <1>3, <1>4, <1>5, StateSet
  <1>8. Sane(ptable', p)  BY <1>2, <1>6, <1>7, Constants DEF Sane
  <1>9. /\ gave' \in [Slots -> Values \cup {NoValue}]
        /\ got' \in [Slots -> Values \cup {NoValue}]
    BY <1>1 DEF AnyInv
  <1> QED  BY <1>1, <1>8, <1>9, MovesBack

\* thread_exit stores its value, wakes its parent and becomes a ZOMBIE.
LEMMA AnyThreadExit ==
    ASSUME AnyInv, NEW p \in Slots, NEW v \in Values, ThreadExit(p, v)
    PROVE  AnyInv'
  <1> DEFINE m == ptable[p].parent
             w == wakeup1(ptable, m)
             i == ptable[p].tid
             a == SetRet(w, m, i, v)
  <1>1. /\ p \in on /\ Return(p) /\ on' = on \ {p} /\ p # initproc
        /\ gave' = [gave EXCEPT ![p] = v] /\ got' = got
    BY DEF ThreadExit, Makes, At
  <1>2. Sane(ptable, p)  BY <1>1, Alone
  <1>3. ptable' = SetState(a, p, "ZOMBIE")
    <2>1. ptable' = [w EXCEPT ![m].arr_ret[ptable[p].tid] = v, ![p].state = "ZOMBIE"]
      BY DEF ThreadExit
    <2> HIDE DEF w, m
    <2> QED  BY <2>1 DEF SetState, SetRet
  <1>4. i \in Tids  BY <1>2 DEF Sane, Table, Process
  <1> HIDE DEF i, m
  <1>5. Sane(w, p)  BY <1>2, SaneWake
  <1> HIDE DEF w
  <1>6. Sane(a, p)  BY <1>4, <1>5, SaneRet
  <1>7. "ZOMBIE" \in States \ {"RUNNING"} /\ "ZOMBIE" # "SLEEPING"  BY DEF States
  <1> HIDE DEF a
  <1>8. Sane(ptable', None)  BY <1>1, <1>3, <1>6, <1>7, SaneOff
  <1>9. /\ gave' \in [Slots -> Values \cup {NoValue}]
        /\ got' \in [Slots -> Values \cup {NoValue}]
    BY <1>1 DEF AnyInv
  <1> QED  BY <1>1, <1>8, <1>9, MovesBack

\* The first slot of a set is in it, or None.
LEMMA FirstIs ==
    ASSUME NEW S, S \subseteq Slots, NEW i
    PROVE  First(S, i) \in S \cup {None}
  <1>1. CASE \E q \in S : q >= i
    <2> DEFINE T == {q \in S : q >= i}
    <2>1. T \subseteq Nat /\ T # {}  BY <1>1, Constants
    <2>2. First(S, i) = Min(T)  BY <1>1 DEF First
    <2>3. T \subseteq S  OBVIOUS
    <2> HIDE DEF T
    <2> QED  BY <2>1, <2>2, <2>3, Least
  <1> QED  BY <1>1 DEF First

\* exit()'s loop over the table, up to the next thread or to the end: initproc has
\* no parent, so that it is never among the children.
LEMMA AnyExitLoop ==
    ASSUME AnyInv, NEW p \in Slots, p \in on, p # initproc,
           NEW f, Sane(f, p), NEW i,
           ExitLoop(f, p, i), gave' = gave, got' = got
    PROVE  AnyInv'
  <1> DEFINE kids == {q \in Slots : q >= i /\ f[q].parent = p}
             lost == {q \in kids : f[q].isThread}
             j == First(lost, i)
             seen == IF j = None THEN kids ELSE {q \in kids : q <= j}
             given == GiveToInit(f, seen)
             woken == IF \E q \in seen : f[q].state = "ZOMBIE"
                      THEN wakeup1(given, initproc) ELSE given
  <1>1. initproc \notin kids  BY Constants DEF Sane
  <1>2. initproc \notin seen  BY <1>1
  <1>3. j \in lost \cup {None}  BY FirstIs
  <1>4. j # None => j \in Slots \ {p, initproc}
    <2> HIDE DEF j
    <2> QED  BY <1>1, <1>3 DEF Sane
  <1>5. \/ /\ j # None /\ ptable' = woken /\ loc' = [loc EXCEPT ![p] = j]
           /\ Goto(p, "exit_thread") /\ on' = on
        \/ /\ ptable' = SetState(woken, p, "ZOMBIE") /\ on' = on \ {p} /\ Return(p)
    BY DEF ExitLoop, GiveToInit, SetState
  <1> HIDE DEF kids, lost, j, seen
  <1>6. Sane(given, p)  BY <1>2, SaneGive
  <1>7. Sane(woken, p)
    <2> HIDE DEF given
    <2>1. Sane(wakeup1(given, initproc), p)  BY <1>6, SaneWake
    <2> QED  BY <1>6, <2>1
  <1> HIDE DEF woken
  <1>8. /\ gave' \in [Slots -> Values \cup {NoValue}]
        /\ got' \in [Slots -> Values \cup {NoValue}]
    BY DEF AnyInv
  <1>9. CASE /\ j # None /\ ptable' = woken /\ loc' = [loc EXCEPT ![p] = j]
             /\ Goto(p, "exit_thread") /\ on' = on
    <2>1. "exit_thread" \in Steps  BY DEF Steps
    <2> QED  BY <1>4, <1>7, <1>8, <1>9, <2>1, Moves
  <1>10. CASE ptable' = SetState(woken, p, "ZOMBIE") /\ on' = on \ {p} /\ Return(p)
    <2>1. "ZOMBIE" \in States \ {"RUNNING"} /\ "ZOMBIE" # "SLEEPING"  BY DEF States
    <2>2. Sane(ptable', None)  BY <1>7, <1>10, <2>1, SaneOff
    <2> QED  BY <1>8, <1>10, <2>2, MovesBack
  <1> QED  BY <1>5, <1>9, <1>10

\* exit() of a process starts the loop.
LEMMA AnyExit ==
    ASSUME AnyInv, NEW p \in Slots, Exit(p)
    PROVE  AnyInv'
  <1>1. /\ p \in on /\ p # initproc /\ gave' = gave /\ got' = got
        /\ ExitLoop(wakeup1(ptable, ptable[p].parent), p, 1)
    BY DEF Exit, MayExit, Makes, At
  <1>2. Sane(wakeup1(ptable, ptable[p].parent), p)  BY <1>1, Alone, SaneWake
  <1> QED  BY <1>1, <1>2, AnyExitLoop

\* exit() frees a thread and goes on.
LEMMA AnyExitThread ==
    ASSUME AnyInv, NEW p \in Slots, ExitThread(p)
    PROVE  AnyInv'
  <1>1. /\ p \in on /\ pc[p] = "exit_thread" /\ gave' = gave /\ got' = got
        /\ ExitLoop(Release(ptable, loc[p]), p, loc[p] + 1)
    BY DEF ExitThread, At, Release
  <1>2. loc[p] \in Slots \ {p, initproc} /\ p # initproc
    BY <1>1 DEF AnyInv, Locals, UseSteps, TexitSteps
  <1>3. Sane(Release(ptable, loc[p]), p)  BY <1>1, <1>2, Alone, SaneFree
  <1> QED  BY <1>1, <1>2, <1>3, AnyExitLoop

\* panic("init exiting").
LEMMA AnyInitExit ==
    ASSUME AnyInv, NEW p \in Slots, InitExit(p)
    PROVE  AnyInv'
  <1>1. /\ p \in on /\ Goto(p, "panic") /\ "panic" \in Steps
        /\ "panic" \notin UseSteps \cup TexitSteps
        /\ ptable' = ptable /\ on' = on /\ loc' = loc /\ gave' = gave /\ got' = got
    BY DEF InitExit, MayExit, Makes, At, Steps, UseSteps, TexitSteps
  <1>2. Sane(ptable', p)  BY <1>1, Alone
  <1> QED  BY <1>1, <1>2, MovesOn

\* The killed flag cleared.
LEMMA SaneUnkilled ==
    ASSUME NEW f, NEW p, Sane(f, p), NEW q
    PROVE  Sane(Unkilled(f, q), p)
  <1>1. f \in Table  BY DEF Sane
  <1> QED  BY <1>1, UnkilledSet, Constants DEF Sane

\* The pid cleared.
LEMMA SanePid ==
    ASSUME NEW f, NEW p, Sane(f, p), NEW q
    PROVE  Sane(TakePid(f, q), p)
  <1>1. f \in Table  BY DEF Sane
  <1> QED  BY <1>1, TakePidSet, SaneSame

\* exit()'s search for the main thread of a thread.
LEMMA AnyParentLoop ==
    ASSUME AnyInv, NEW p \in Slots, p \in on, p # initproc,
           NEW f, Sane(f, p), NEW i,
           ParentLoop(f, p, i), on' = on, gave' = gave, got' = got
    PROVE  AnyInv'
  <1> DEFINE mains == {q \in Slots : q = f[p].parent}
             j == First(mains, i)
             s == IF j # None THEN "texit_parent" ELSE "texit_self"
  <1>1. j \in mains \cup {None}  BY FirstIs
  <1>2. f[p].parent # p  BY DEF Sane
  <1>3. j # None => j \in Slots \ {p}
    <2> HIDE DEF j
    <2> QED  BY <1>1, <1>2
  <1>4. ptable' = f /\ loc' = [loc EXCEPT ![p] = j] /\ Goto(p, s)
    BY DEF ParentLoop
  <1>5. s \in Steps /\ s \notin UseSteps /\ (s \in ParentSteps => j # None)
    BY DEF Steps, UseSteps, ParentSteps
  <1>6. j \in Slots \cup {None}
    <2> HIDE DEF j
    <2> QED  BY <1>3
  <1>7. /\ gave' \in [Slots -> Values \cup {NoValue}]
        /\ got' \in [Slots -> Values \cup {NoValue}]
    BY DEF AnyInv
  <1> HIDE DEF s, j
  <1> QED  BY <1>3, <1>4, <1>5, <1>6, <1>7, Moves

\* exit()'s loop over the siblings of a thread.
LEMMA AnySiblingLoop ==
    ASSUME AnyInv, NEW p \in Slots, p \in on, p # initproc,
           NEW f, Sane(f, p), NEW i,
           SiblingLoop(f, p, i), on' = on, gave' = gave, got' = got
    PROVE  AnyInv'
  <1> DEFINE mates == {q \in Slots \ {p} : f[q].isThread /\ f[q].parent = f[p].parent}
             j == First(mates, i)
  <1>1. j \in mates \cup {None}  BY FirstIs
  <1>2. CASE j = None
    BY <1>2, AnyParentLoop DEF SiblingLoop
  <1>3. CASE j # None
    <2>1. j \in Slots \ {p, initproc}
      <3> HIDE DEF j
      <3> QED  BY <1>1, <1>3 DEF Sane
    <2>2. ptable' = f /\ loc' = [loc EXCEPT ![p] = j] /\ Goto(p, "texit_sibling")
      BY <1>3 DEF SiblingLoop
    <2>3. "texit_sibling" \in Steps /\ "texit_sibling" \notin ParentSteps
      BY DEF Steps, ParentSteps
    <2>4. /\ gave' \in [Slots -> Values \cup {NoValue}]
          /\ got' \in [Slots -> Values \cup {NoValue}]
      BY DEF AnyInv
    <2> HIDE DEF j
    <2> QED  BY <2>1, <2>2, <2>3, <2>4, Moves
  <1> QED  BY <1>2, <1>3

\* exit() of a thread starts the loop.
LEMMA AnyThreadProcExit ==
    ASSUME AnyInv, NEW p \in Slots, ThreadProcExit(p)
    PROVE  AnyInv'
  <1>1. /\ p \in on /\ ptable[p].isThread /\ on' = on /\ gave' = gave /\ got' = got
        /\ SiblingLoop(ptable, p, 1)
    BY DEF ThreadProcExit, MayExit, Makes, At
  <1>2. Sane(ptable, p)  BY <1>1, Alone
  <1>3. p # initproc  BY <1>1, <1>2 DEF Sane
  <1> QED  BY <1>1, <1>2, <1>3, AnySiblingLoop

\* exit() frees a sibling and goes on.
LEMMA AnyTexitSibling ==
    ASSUME AnyInv, NEW p \in Slots, TexitSibling(p)
    PROVE  AnyInv'
  <1>1. /\ p \in on /\ pc[p] = "texit_sibling" /\ on' = on /\ gave' = gave /\ got' = got
        /\ SiblingLoop(Release(ptable, loc[p]), p, loc[p] + 1)
    BY DEF TexitSibling, At, Release
  <1>2. loc[p] \in Slots \ {p, initproc} /\ p # initproc
    BY <1>1 DEF AnyInv, Locals, UseSteps, TexitSteps
  <1>3. Sane(Release(ptable, loc[p]), p)  BY <1>1, <1>2, Alone, SaneFree
  <1> QED  BY <1>1, <1>2, <1>3, AnySiblingLoop

\* The main thread that exit() found is made a ZOMBIE: on one CPU it is not the
\* one that runs.
LEMMA AnyTexitParent ==
    ASSUME AnyInv, NEW p \in Slots, TexitParent(p)
    PROVE  AnyInv'
  <1>1. /\ p \in on /\ pc[p] = "texit_parent" /\ Goto(p, "texit_parents")
        /\ loc' = loc /\ on' = on /\ gave' = gave /\ got' = got
        /\ ptable' = SetState(ptable, loc[p], "ZOMBIE")
    BY DEF TexitParent, At, SetState
  <1>2. Sane(ptable, p)  BY <1>1, Alone
  <1>3. loc[p] \in Slots /\ loc[p] # p
    BY <1>1 DEF AnyInv, Locals, ParentSteps
  <1>4. "ZOMBIE" \in States \ {"RUNNING"} /\ "ZOMBIE" # "SLEEPING"  BY DEF States
  <1>5. Sane(ptable', p)  BY <1>1, <1>2, <1>3, <1>4, SaneState
  <1>6. /\ "texit_parents" \in Steps /\ "texit_parents" \notin UseSteps
        /\ "texit_parent" \in TexitSteps /\ "texit_parent" \in ParentSteps
    BY DEF Steps, UseSteps, TexitSteps, ParentSteps
  <1> QED  BY <1>1, <1>5, <1>6, MovesOn

\* The search for the main thread goes on.
LEMMA AnyTexitParents ==
    ASSUME AnyInv, NEW p \in Slots, TexitParents(p)
    PROVE  AnyInv'
  <1>1. /\ p \in on /\ pc[p] = "texit_parents" /\ on' = on /\ gave' = gave /\ got' = got
        /\ ParentLoop(ptable, p, loc[p] + 1)
    BY DEF TexitParents, At
  <1>2. p # initproc  BY <1>1 DEF AnyInv, Locals, TexitSteps
  <1>3. Sane(ptable, p)  BY <1>1, Alone
  <1> QED  BY <1>1, <1>2, <1>3, AnyParentLoop

\* The thread frees its own slot and leaves the CPU.
LEMMA AnyTexitSelf ==
    ASSUME AnyInv, NEW p \in Slots, TexitSelf(p)
    PROVE  AnyInv'
  <1> DEFINE a == SetState(Unkilled(TakePid(ptable, p), p), p, "UNUSED")
  <1>1. /\ p \in on /\ pc[p] = "texit_self" /\ Return(p)
        /\ on' = on \ {p} /\ gave' = gave /\ got' = got
    BY DEF TexitSelf, At
  <1>2. Sane(ptable, p)  BY <1>1, Alone
  <1>3. p # initproc  BY <1>1 DEF AnyInv, Locals, TexitSteps
  <1>4. PICK chan \in Slots \cup {None} : ptable' = SetParent(wakeup1(a, chan), p, None)
    <2>1. a = [ptable EXCEPT ![p].pid = FALSE, ![p].killed = FALSE, ![p].state = "UNUSED"]
      BY <1>2 DEF SetState, Unkilled, TakePid, Sane, Table, Process
    <2> HIDE DEF a
    <2>2. PICK chan \in Slots \cup {None} : ptable' = [wakeup1(a, chan) EXCEPT ![p].parent = None]
      BY <2>1 DEF TexitSelf
    <2> QED  BY <2>2 DEF SetParent
  <1>5. Sane(Unkilled(TakePid(ptable, p), p), p)  BY <1>2, SanePid, SaneUnkilled
  <1>6. "UNUSED" \in States \ {"RUNNING"} /\ "UNUSED" # "SLEEPING"  BY DEF States
  <1>7. Sane(a, None)  BY <1>3, <1>5, <1>6, SaneOff
  <1> HIDE DEF a
  <1>8. Sane(wakeup1(a, chan), None)  BY <1>7, SaneWake
  <1>9. Sane(ptable', None)
    <2> DEFINE g == wakeup1(a, chan)
    <2> HIDE DEF g
    <2>1. Sane(g, None)  BY <1>8 DEF g
    <2>2. None # p /\ None \in Slots \cup {None}  BY Constants
    <2>3. ptable' = SetParent(g, p, None)  BY <1>4 DEF g
    <2> QED  BY <1>3, <2>1, <2>2, <2>3, SaneParent
  <1>10. /\ gave' \in [Slots -> Values \cup {NoValue}]
         /\ got' \in [Slots -> Values \cup {NoValue}]
    BY <1>1 DEF AnyInv
  <1> QED  BY <1>1, <1>9, <1>10, MovesBack
\* Every kernel step keeps the invariant.
LEMMA AnyStep ==
    ASSUME AnyInv, NEW p \in Slots, Step(p)
    PROVE  AnyInv'
  <1>1. CASE Fork(p)
    BY <1>1, AnyAlloc DEF Fork
  <1>2. CASE ThreadCreate(p)
    BY <1>2, AnyAlloc DEF ThreadCreate
  <1>3. CASE AllocFail(p) \/ ForkSetup(p) \/ Start(p) \/ ThreadSetup(p) \/ StackFail(p) \/ StackDone(p)
    BY <1>3, AnyAllocFail, AnyForkSetup, AnyStart, AnyThreadSetup, AnyStack
  <1>4. CASE WaitScan(p)
    BY <1>4, AnyWaitScan
  <1>5. CASE Join(p)
    BY <1>5, AnyJoinScan DEF Join
  <1>6. CASE Leave(p)
    BY <1>6, AnyExit, AnyInitExit, AnyExitThread, AnyThreadProcExit, AnyTexitSibling,
       AnyTexitParent, AnyTexitParents, AnyTexitSelf
    DEF Leave
  <1>7. CASE \E q \in Slots : Kill(p, q)
    BY <1>7, AnyKill
  <1>8. CASE \E v \in Values : ThreadExit(p, v)
    BY <1>8, AnyThreadExit
  <1> QED
    BY <1>1, <1>2, <1>3, <1>4, <1>5, <1>6, <1>7, <1>8 DEF Step, Create

\* It holds at the start.
LEMMA AnyInitHolds == Init => AnyInv
  <1> SUFFICES ASSUME Init  PROVE AnyInv
    OBVIOUS
  <1>1. Sane(ptable, None)  BY InitFresh, Constants DEF Sane
  <1>2. on = {None} \ {None}  BY InitFresh
  <1>3. Locals  BY InitFresh DEF Locals, UseSteps, TexitSteps, ParentSteps
  <1> QED  BY <1>1, <1>2, <1>3, InitFresh DEF AnyInv

\* On one CPU, whatever mix of process and thread calls programs make, the table
\* stays well formed, a killed process is awake, and the slot that executes is the
\* one that is RUNNING: no exit() frees or ends the slot that executes.
THEOREM AnyMix ==
    ASSUME NCPU = 1
    PROVE  Spec => []AnyMixSound
  <1>1. AnyInv /\ [Next]_vars => AnyInv'
    <2> SUFFICES ASSUME AnyInv, [Next]_vars  PROVE AnyInv'
      OBVIOUS
    <2>1. CASE UNCHANGED vars
      <3>1. Locals'  BY <2>1 DEF AnyInv, Locals, vars
      <3> QED  BY <2>1, <3>1 DEF AnyInv, vars
    <2>2. ASSUME NEW p \in Slots, Trap(p) \/ Dispatch(p) \/ Yield(p)
          PROVE  AnyInv'
      BY <2>2, AnyTrap, AnyDispatch, AnyYield
    <2>3. ASSUME NEW p \in Slots, Step(p)
          PROVE  AnyInv'
      BY <2>3, AnyStep
    <2> QED  BY <2>1, <2>2, <2>3 DEF Next
  <1>2. AnyInv => AnyMixSound
    <2> SUFFICES ASSUME AnyInv  PROVE AnyMixSound
      OBVIOUS
    <2>1. PICK r \in Slots \cup {None} : Sane(ptable, r) /\ on = {r} \ {None}
      BY DEF AnyInv
    <2>2. KilledAwake  BY <2>1 DEF Sane, KilledAwake
    <2>3. OnCpu  BY <2>1, Constants DEF Sane, OnCpu
    <2>4. on \subseteq Slots  BY <2>1
    <2>5. TypeOK  BY <2>1, <2>4, TypedIs DEF AnyInv, Sane, Typed
    <2> QED  BY <2>2, <2>3, <2>5 DEF AnyMixSound
  <1> QED  BY <1>1, <1>2, AnyInitHolds, PTL DEF Spec
=============================================================================
