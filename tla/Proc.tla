-------------------------------- MODULE Proc --------------------------------
(***************************************************************************)
(* The process table of OS_project/xv6-public/proc.c: allocproc, fork,     *)
(* exit, wait, kill, sleep, wakeup1, yield and the scheduler, and the      *)
(* threads added to them (thread_create, thread_exit, thread_join, and     *)
(* what exit does to the threads of a process).  One action is one         *)
(* critical section of ptable.lock, or one unlocked run of writes between  *)
(* two of them; the processes in `on' execute on different CPUs.           *)
(***************************************************************************)
EXTENDS Naturals, FiniteSets, FiniteSetsExt

CONSTANTS
    NPROC,     \* param.h: slots of the process table
    NCPU,      \* param.h: processors
    NTID,      \* length of proc.t[] and proc.arr_ret[]
    Values,    \* what a thread hands to thread_exit
    NoValue,   \* contents of an arr_ret[] entry nobody wrote
    Calls,       \* system calls the processes make
    ThreadCalls, \* system calls their threads make
    Threaded,    \* slots whose program creates threads
    Disciplined, \* TRUE: a program joins only its own threads, all of them
                 \* before it exits, and has no child process meanwhile
    OutOfMemory  \* TRUE: kalloc() may find no free page

ASSUME ProcConstants ==
    /\ NPROC \in Nat \ {0} /\ NCPU \in Nat \ {0} /\ NTID \in Nat \ {0}
    /\ Disciplined \in BOOLEAN /\ OutOfMemory \in BOOLEAN

Slots == 1 .. NPROC
Tids  == 0 .. NTID - 1
None  == 0            \* the null struct proc pointer
initproc == 1

VARIABLES
    ptable,    \* struct proc of every slot (pid: whether it is nonzero)
    on,        \* slots executing on some CPU
    pc, loc,   \* kernel step of a slot and its local (np, p or thread)
    gave, got  \* last argument of thread_exit, last *retval of thread_join

vars == <<ptable, on, pc, loc, gave, got>>

Fresh == [state |-> "UNUSED", pid |-> FALSE, parent |-> None, chan |-> None, killed |-> FALSE,
          kstack |-> FALSE, isThread |-> FALSE, tid |-> 0,
          t |-> {}, arr_ret |-> [i \in Tids |-> NoValue]]

-----------------------------------------------------------------------------
(* Functions of the table.                                                 *)

\* wakeup1(chan): every sleeper on chan becomes RUNNABLE.
wakeup1(pt, chan) ==
    [q \in Slots |-> IF pt[q].state = "SLEEPING" /\ pt[q].chan = chan
                     THEN [pt[q] EXCEPT !.state = "RUNNABLE"] ELSE pt[q]]

\* Mutant: the kernel stack is not given back.
Freed_leaks(r) == [r EXCEPT !.pid = FALSE, !.parent = None, !.killed = FALSE,
                            !.state = "UNUSED"]

\* The fields that wait, thread_join and exit clear when they free a slot.
Freed(r) == [r EXCEPT !.kstack = FALSE, !.pid = FALSE, !.parent = None,
                      !.killed = FALSE, !.state = "UNUSED"]

\* The first slot at or after i that satisfies the set's test, or None.
First(S, i) == IF \E q \in S : q >= i THEN Min({q \in S : q >= i}) ELSE None

Unused == {q \in Slots : ptable[q].state = "UNUSED"}

-----------------------------------------------------------------------------
(* A process that executes: p is on a CPU, at kernel step s.               *)
At(p, s) == p \in on /\ pc[p] = s

Goto(p, s) == pc' = [pc EXCEPT ![p] = s]

\* Back to user space; the locals of the system call are gone.
Return(p) == Goto(p, "user") /\ loc' = [loc EXCEPT ![p] = None]

\* The program that runs in slot p makes this system call.
Makes(p, call) ==
    At(p, "sys") /\ call \in (IF ptable[p].isThread THEN ThreadCalls ELSE Calls)

\* trap(): a killed process exits instead of entering the system call.
Trap(p) == /\ At(p, "user") /\ ~ptable[p].killed
           /\ Goto(p, "sys")
           /\ UNCHANGED <<ptable, on, loc, gave, got>>

\* scheduler(): a CPU runs a RUNNABLE process.
Dispatch(p) == /\ Cardinality(on) < NCPU
               /\ ptable[p].state = "RUNNABLE"
               /\ ptable' = [ptable EXCEPT ![p].state = "RUNNING"]
               /\ on' = on \cup {p}
               /\ UNCHANGED <<pc, loc, gave, got>>

\* yield(), called by trap() on a clock tick.
Yield(p) == /\ p \in on /\ ptable[p].state = "RUNNING"
            /\ pc[p] \notin {"wait", "join", "panic"}   \* interrupts are off
            /\ ptable' = [ptable EXCEPT ![p].state = "RUNNABLE"]
            /\ on' = on \ {p}
            /\ UNCHANGED <<pc, loc, gave, got>>

-----------------------------------------------------------------------------
(* allocproc, fork, thread_create.                                         *)

\* allocproc: the slot is taken under the lock, then set up without it.
Alloc(p, call, next) ==
    /\ Makes(p, call)
    /\ IF Unused = {}
       THEN Return(p) /\ UNCHANGED ptable
       ELSE /\ ptable' = [ptable EXCEPT ![Min(Unused)].state = "EMBRYO",
                                        ![Min(Unused)].pid = TRUE]
            /\ loc' = [loc EXCEPT ![p] = Min(Unused)]
            /\ Goto(p, next)
    /\ UNCHANGED <<on, gave, got>>

Fork(p) == (Disciplined => ptable[p].t = {}) /\ Alloc(p, "fork", "fork1")

\* Mutant: the early return leaves the slot EMBRYO.
AllocFail_forgets(p) ==
    /\ OutOfMemory /\ (At(p, "fork1") \/ At(p, "thread1"))
    /\ Return(p)
    /\ UNCHANGED <<ptable, on, gave, got>>

\* kalloc() or copyuvm() finds no memory: the slot is given back.
AllocFail(p) ==
    /\ OutOfMemory /\ (At(p, "fork1") \/ At(p, "thread1"))
    /\ ptable' = [ptable EXCEPT ![loc[p]].state = "UNUSED"]
    /\ Return(p)
    /\ UNCHANGED <<on, gave, got>>

ForkSetup(p) ==
    /\ At(p, "fork1")
    /\ ptable' = [ptable EXCEPT ![loc[p]].kstack = TRUE, ![loc[p]].parent = p]
    /\ Goto(p, "start")
    /\ UNCHANGED <<on, loc, gave, got>>

\* The last critical section of fork and of thread_create.
Start(p) ==
    /\ At(p, "start")
    /\ ptable' = [ptable EXCEPT ![loc[p]].state = "RUNNABLE"]
    /\ pc' = [pc EXCEPT ![p] = "user", ![loc[p]] = "user"]
    /\ loc' = [loc EXCEPT ![p] = None, ![loc[p]] = None]
    /\ UNCHANGED <<on, gave, got>>

ThreadCreate(p) ==
    /\ p \in Threaded
    /\ Disciplined => \A q \in Slots : ptable[q].parent = p => ptable[q].isThread
    /\ Alloc(p, "thread_create", "thread1")

\* Mutant: the search for a free tid runs past the end of t[].
ThreadSetup_past_end(p) ==
    LET i == Min((Tids \cup {NTID}) \ ptable[p].t)
    IN  /\ At(p, "thread1")
        /\ ptable' = [ptable EXCEPT ![loc[p]].kstack = TRUE, ![loc[p]].parent = p,
                                    ![loc[p]].isThread = TRUE, ![loc[p]].tid = i,
                                    ![p].t = @ \cup {i}]
        /\ Goto(p, "thread2")
        /\ UNCHANGED <<on, loc, gave, got>>

\* The new slot is a thread of p, with the first tid free in p->t[]; when
\* none is, np->tid keeps its old value.
ThreadSetup(p) ==
    LET np == loc[p]
        free == Tids \ ptable[p].t
        i == IF free = {} THEN ptable[np].tid ELSE Min(free)
    IN  /\ At(p, "thread1")
        /\ ptable' = [ptable EXCEPT ![np].kstack = TRUE, ![np].parent = p,
                                    ![np].isThread = TRUE, ![np].tid = i,
                                    ![p].t = IF free = {} THEN @ ELSE @ \cup {i}]
        /\ Goto(p, "thread2")
        /\ UNCHANGED <<on, loc, gave, got>>

\* allocuvm() finds no memory for the stack: -1, and np stays EMBRYO.
StackFail(p) ==
    /\ OutOfMemory /\ At(p, "thread2")
    /\ Return(p)
    /\ UNCHANGED <<ptable, on, gave, got>>

StackDone(p) ==
    /\ At(p, "thread2")
    /\ Goto(p, "start")
    /\ UNCHANGED <<ptable, on, loc, gave, got>>

-----------------------------------------------------------------------------
(* Sleeping on oneself, as wait and thread_join do with ptable.lock held.  *)
Sleep(p, s) ==
    /\ ptable' = [ptable EXCEPT ![p].state = "SLEEPING", ![p].chan = p]
    /\ on' = on \ {p}
    /\ Goto(p, s)

\* Mutant: havekids is not tested.
WaitScan_childless(p) ==
    LET dead == {q \in Slots : ptable[q].parent = p /\ ptable[q].state = "ZOMBIE"}
    IN  /\ Makes(p, "wait") \/ At(p, "wait")
        /\ UNCHANGED <<gave, got>>
        /\ IF dead = {} /\ ~ptable[p].killed
           THEN Sleep(p, "wait") /\ UNCHANGED loc
           ELSE /\ ptable' = [q \in Slots |-> IF dead # {} /\ q = Min(dead)
                                              THEN Freed(ptable[q]) ELSE ptable[q]]
                /\ Return(p) /\ UNCHANGED on

\* One scan of wait()'s loop: reap the first exited child, or give up, or
\* sleep until an exit wakes p.
WaitScan(p) ==
    LET kids == {q \in Slots : ptable[q].parent = p}
        dead == {q \in kids : ptable[q].state = "ZOMBIE" /\ ~ptable[q].isThread}
    IN  /\ Makes(p, "wait") \/ At(p, "wait")
        /\ UNCHANGED <<gave, got>>
        /\ \/ /\ dead # {}
              /\ ptable' = [ptable EXCEPT ![Min(dead)] = Freed(@), ![p].chan = None]
              /\ Return(p) /\ UNCHANGED on
           \/ /\ dead = {} /\ (kids = {} \/ ptable[p].killed)
              /\ ptable' = [ptable EXCEPT ![p].chan = None]
              /\ Return(p) /\ UNCHANGED on
           \/ /\ dead = {} /\ kids # {} /\ ~ptable[p].killed
              /\ Sleep(p, "wait") /\ UNCHANGED loc

\* thread_join's filter: skip what is neither a child of p nor a thread.
Joinable(p) == {q \in Slots : ptable[q].parent = p \/ ptable[q].isThread}

\* Mutant: proc->t[thread] stays set.
JoinScan_keeps_t(p, thread) ==
    LET dead == {q \in Joinable(p) : ptable[q].state = "ZOMBIE" /\ ptable[q].tid = thread}
    IN  /\ Makes(p, "thread_join") /\ dead # {}
        /\ got' = [got EXCEPT ![p] = ptable[p].arr_ret[thread]]
        /\ ptable' = [ptable EXCEPT
              ![Min(dead)] = [Freed(@) EXCEPT !.isThread = FALSE, !.tid = 0]]
        /\ Return(p)
        /\ UNCHANGED <<on, gave>>

\* One scan of thread_join(thread, retval)'s loop.
JoinScan(p, thread) ==
    LET kids == Joinable(p)
        dead == {q \in kids : ptable[q].state = "ZOMBIE" /\ ptable[q].tid = thread}
    IN  /\ \/ Makes(p, "thread_join") /\ (Disciplined => thread \in ptable[p].t)
           \/ At(p, "join") /\ loc[p] = thread
        /\ UNCHANGED gave
        /\ \/ /\ dead # {}
              /\ got' = [got EXCEPT ![p] = ptable[p].arr_ret[thread]]
              /\ LET r == Freed(ptable[Min(dead)])
                 IN ptable' = [ptable EXCEPT
                       ![Min(dead)] = [r EXCEPT !.isThread = FALSE, !.tid = 0],
                       ![p].t = @ \ {thread}, ![p].chan = None]
              /\ Return(p) /\ UNCHANGED on
           \/ /\ dead = {} /\ (kids = {} \/ ptable[p].killed)
              /\ ptable' = [ptable EXCEPT ![p].chan = None]
              /\ Return(p) /\ UNCHANGED <<on, got>>
           \/ /\ dead = {} /\ kids # {} /\ ~ptable[p].killed
              /\ Sleep(p, "join")
              /\ loc' = [loc EXCEPT ![p] = thread] /\ UNCHANGED got

\* Mutant: a sleeping process is not woken.
Kill_no_wakeup(p, q) ==
    /\ Makes(p, "kill")
    /\ ptable[q].pid \/ \A r \in 1 .. q - 1 : ptable[r].pid
    /\ ptable' = [ptable EXCEPT ![q].killed = TRUE]
    /\ Return(p)
    /\ UNCHANGED <<on, gave, got>>

\* Mutant: the state is set without testing for SLEEPING.
Kill_any_state(p, q) ==
    /\ Makes(p, "kill") /\ ptable[q].pid
    /\ ptable' = [ptable EXCEPT ![q].killed = TRUE, ![q].state = "RUNNABLE"]
    /\ Return(p)
    /\ UNCHANGED <<on, gave, got>>

\* kill(pid) finds slot q: by its own pid, or as the first slot whose pid is 0.
Kill(p, q) ==
    /\ Makes(p, "kill")
    /\ ptable[q].pid \/ \A r \in 1 .. q - 1 : ptable[r].pid
    /\ ptable' = [ptable EXCEPT
          ![q].killed = TRUE,
          ![q].state = IF @ = "SLEEPING" THEN "RUNNABLE" ELSE @]
    /\ Return(p)
    /\ UNCHANGED <<on, gave, got>>

-----------------------------------------------------------------------------
\* Mutant: the joiner is not woken.
ThreadExit_no_wakeup(p, v) ==
    /\ Makes(p, "thread_exit") /\ p # initproc
    /\ ptable' = [ptable EXCEPT ![ptable[p].parent].arr_ret[ptable[p].tid] = v,
                                ![p].state = "ZOMBIE"]
    /\ gave' = [gave EXCEPT ![p] = v]
    /\ on' = on \ {p}
    /\ Return(p)
    /\ UNCHANGED got

\* Mutant: retval is not delivered.
ThreadExit_drops_value(p, v) ==
    /\ Makes(p, "thread_exit") /\ p # initproc
    /\ ptable' = [wakeup1(ptable, ptable[p].parent) EXCEPT ![p].state = "ZOMBIE"]
    /\ gave' = [gave EXCEPT ![p] = v]
    /\ on' = on \ {p}
    /\ Return(p)
    /\ UNCHANGED got

(* thread_exit(retval).  For a slot whose parent was cleared meanwhile the *)
(* store into arr_ret[] hits no struct proc.                               *)
ThreadExit(p, v) ==
    /\ Makes(p, "thread_exit") /\ p # initproc
    /\ LET m == ptable[p].parent
           w == wakeup1(ptable, m)
       IN ptable' = [w EXCEPT ![m].arr_ret[ptable[p].tid] = v,
                              ![p].state = "ZOMBIE"]
    /\ gave' = [gave EXCEPT ![p] = v]
    /\ on' = on \ {p}
    /\ Return(p)
    /\ UNCHANGED got

-----------------------------------------------------------------------------
(* exit() of a process that is no thread.                                  *)

\* Mutant: the children are not passed to init.
ExitLoop_keeps_children(pt, p, i) ==
    /\ ptable' = [pt EXCEPT ![p].state = "ZOMBIE"]
    /\ on' = on \ {p}
    /\ Return(p)

\* The loop over the table from slot i on: children go to init; at a thread
\* the loop stops to release the lock, at the end the process is a ZOMBIE.
ExitLoop(pt, p, i) ==
    LET kids == {q \in Slots : q >= i /\ pt[q].parent = p}
        j == First({q \in kids : pt[q].isThread}, i)
        seen == IF j = None THEN kids ELSE {q \in kids : q <= j}
        given == [q \in Slots |-> IF q \in seen
                                  THEN [pt[q] EXCEPT !.parent = initproc] ELSE pt[q]]
        woken == IF \E q \in seen : pt[q].state = "ZOMBIE"
                 THEN wakeup1(given, initproc) ELSE given
    IN  IF j # None
        THEN /\ ptable' = woken
             /\ loc' = [loc EXCEPT ![p] = j]
             /\ Goto(p, "exit_thread")
             /\ UNCHANGED on
        ELSE /\ ptable' = [woken EXCEPT ![p].state = "ZOMBIE"]
             /\ on' = on \ {p}
             /\ Return(p)

\* The program calls exit, or trap() does for a killed process.
MayExit(p) == \/ Makes(p, "exit") /\ (Disciplined => ptable[p].t = {})
              \/ At(p, "user") /\ ptable[p].killed

\* Mutant: the parent is not woken.
Exit_no_wakeup(p) ==
    /\ MayExit(p) /\ ~ptable[p].isThread /\ p # initproc
    /\ ExitLoop(ptable, p, 1)
    /\ UNCHANGED <<gave, got>>

\* Mutant: the test for init is missing.
Exit(p) ==
    /\ MayExit(p) /\ ~ptable[p].isThread /\ p # initproc
    /\ ExitLoop(wakeup1(ptable, ptable[p].parent), p, 1)
    /\ UNCHANGED <<gave, got>>

\* panic("init exiting"), in exit and in thread_exit: this CPU stops.
InitExit(p) ==
    /\ p = initproc /\ ~ptable[p].isThread
    /\ MayExit(p) \/ Makes(p, "thread_exit")
    /\ Goto(p, "panic")
    /\ UNCHANGED <<ptable, on, loc, gave, got>>

\* With the thread's files closed: its stacks are freed and the loop goes on.
ExitThread(p) ==
    /\ At(p, "exit_thread")
    /\ ExitLoop([ptable EXCEPT ![loc[p]] = Freed(@)], p, loc[p] + 1)
    /\ UNCHANGED <<gave, got>>

-----------------------------------------------------------------------------
(* exit() called by a thread: its siblings are freed, then the main thread *)
(* is made a ZOMBIE, then the thread itself goes.                          *)

\* The search for proc->parent from slot i on: the loop keeps the slot that it
\* finds, and compares it with proc->parent under the lock.
ParentLoop(pt, p, i) ==
    LET j == First({q \in Slots : q = pt[p].parent}, i)
    IN  /\ ptable' = pt
        /\ loc' = [loc EXCEPT ![p] = j]
        /\ Goto(p, IF j # None THEN "texit_parent" ELSE "texit_self")

\* The search for siblings from slot i on; when none is left the next loop starts.
SiblingLoop(pt, p, i) ==
    LET j == First({q \in Slots \ {p} : pt[q].isThread /\ pt[q].parent = pt[p].parent}, i)
    IN  IF j = None
        THEN ParentLoop(pt, p, 1)
        ELSE ptable' = pt /\ loc' = [loc EXCEPT ![p] = j] /\ Goto(p, "texit_sibling")

ThreadProcExit(p) ==
    /\ MayExit(p) /\ ptable[p].isThread
    /\ SiblingLoop(ptable, p, 1)
    /\ UNCHANGED <<on, gave, got>>

TexitSibling(p) ==
    /\ At(p, "texit_sibling")
    /\ SiblingLoop([ptable EXCEPT ![loc[p]] = Freed(@)], p, loc[p] + 1)
    /\ UNCHANGED <<on, gave, got>>

\* p->state = ZOMBIE, without ptable.lock, to the slot found before the lock was
\* released: proc->parent may be another by now.
TexitParent(p) ==
    /\ At(p, "texit_parent")
    /\ ptable' = [ptable EXCEPT ![loc[p]].state = "ZOMBIE"]
    /\ Goto(p, "texit_parents")
    /\ UNCHANGED <<on, loc, gave, got>>

\* With the lock again the loop goes on, and finds a proc->parent that was
\* changed to a later slot meanwhile.
TexitParents(p) ==
    /\ At(p, "texit_parents")
    /\ ParentLoop(ptable, p, loc[p] + 1)
    /\ UNCHANGED <<on, gave, got>>

\* The thread's own kernel stack is not freed.  If its parent was cleared
\* meanwhile, proc->parent->parent is whatever lies at that user address.
TexitSelf(p) ==
    /\ At(p, "texit_self")
    /\ \E chan \in Slots \cup {None} :
          /\ ptable[p].parent # None => chan = ptable[ptable[p].parent].parent
          /\ LET pt == [ptable EXCEPT ![p].pid = FALSE, ![p].killed = FALSE,
                                      ![p].state = "UNUSED"]
             IN ptable' = [wakeup1(pt, chan) EXCEPT ![p].parent = None]
    /\ on' = on \ {p}
    /\ Return(p)
    /\ UNCHANGED <<gave, got>>

-----------------------------------------------------------------------------
\* userinit(): one RUNNABLE process, which then runs init.
Init == /\ ptable = [q \in Slots |-> IF q = initproc
                        THEN [Fresh EXCEPT !.state = "RUNNABLE", !.pid = TRUE,
                                           !.kstack = TRUE]
                        ELSE Fresh]
        /\ on = {}
        /\ pc = [q \in Slots |-> "user"]
        /\ loc = [q \in Slots |-> None]
        /\ gave = [q \in Slots |-> NoValue]
        /\ got = [q \in Slots |-> NoValue]

Create(p) == \/ Fork(p) \/ AllocFail(p) \/ ForkSetup(p) \/ Start(p)
             \/ ThreadCreate(p) \/ ThreadSetup(p) \/ StackFail(p) \/ StackDone(p)

Leave(p) == \/ Exit(p) \/ InitExit(p) \/ ExitThread(p) \/ ThreadProcExit(p)
            \/ TexitSibling(p) \/ TexitParent(p) \/ TexitParents(p) \/ TexitSelf(p)

Join(p) == \E thread \in Tids : JoinScan(p, thread)

\* What p does in the kernel once it has trapped, or when it was killed.
Step(p) == \/ Create(p) \/ WaitScan(p) \/ Join(p) \/ Leave(p)
           \/ \E q \in Slots : Kill(p, q)
           \/ \E v \in Values : ThreadExit(p, v)

Next == \E p \in Slots : Trap(p) \/ Dispatch(p) \/ Yield(p) \/ Step(p)

Spec == Init /\ [][Next]_vars

(* Each CPU's scan of the table comes round to every RUNNABLE process, the *)
(* clock takes the CPU away again, and a process that gets the CPU time    *)
(* and again gets on with its system call.  No program is obliged to make  *)
(* a call, except init, which calls wait after every fork (init.c).        *)
Fairness ==
    /\ \A p \in Slots : SF_vars(Dispatch(p)) /\ WF_vars(Yield(p)) /\ SF_vars(Step(p))
    /\ SF_vars(Trap(initproc)) /\ SF_vars(WaitScan(initproc))

LiveSpec == Spec /\ Fairness
-----------------------------------------------------------------------------
(***************************************************************************)
(* Properties                                                              *)
(***************************************************************************)
States == {"UNUSED", "EMBRYO", "SLEEPING", "RUNNABLE", "RUNNING", "ZOMBIE"}
Steps  == {"user", "sys", "fork1", "start", "thread1", "thread2", "wait", "join",
           "panic", "exit_thread", "texit_sibling", "texit_parent",
           "texit_parents", "texit_self"}

\* Every field of struct proc and every local holds a value of its type.
TypeOK ==
    /\ ptable \in [Slots -> [state : States, pid : BOOLEAN, parent : Slots \cup {None},
                             chan : Slots \cup {None}, killed : BOOLEAN,
                             kstack : BOOLEAN, isThread : BOOLEAN, tid : Tids,
                             t : SUBSET Tids,
                             arr_ret : [Tids -> Values \cup {NoValue}]]]
    /\ on \subseteq Slots
    /\ pc \in [Slots -> Steps]
    /\ loc \in [Slots -> Slots \cup Tids \cup {None}]
    /\ gave \in [Slots -> Values \cup {NoValue}]
    /\ got \in [Slots -> Values \cup {NoValue}]

\* A killed process never sleeps on: sleep() tests killed and kill() wakes
\* under one lock, so that the process gets back to trap() and exits.
KilledAwake == \A p \in Slots : ptable[p].killed => ptable[p].state # "SLEEPING"

\* A process asleep in wait() has no exited child to reap and one asleep in
\* thread_join has no exited thread of that id: no wakeup1 of exit or of
\* thread_exit is missed.
NoMissedWakeup ==
    \A p, q \in Slots :
        (/\ ptable[p].state = "SLEEPING"
         /\ ptable[q].parent = p /\ ptable[q].state = "ZOMBIE")
        => /\ pc[p] = "wait" => ptable[q].isThread
           /\ pc[p] = "join" => ~(ptable[q].isThread /\ ptable[q].tid = loc[p])

\* Until init panics somebody is RUNNABLE or RUNNING: the processes never all
\* wait for each other in wait().
SomeoneRuns ==
    \/ pc[initproc] = "panic"
    \/ \E p \in Slots : ptable[p].state \in {"RUNNABLE", "RUNNING"}

\* A slot is EMBRYO only while the fork or thread_create that took it is
\* setting it up: no early return forgets one.
EmbryoOwned ==
    \A q \in Slots : ptable[q].state = "EMBRYO" =>
        \E p \in Slots : loc[p] = q /\ ptable[p].state \in {"RUNNABLE", "RUNNING"}
                         /\ pc[p] \in {"fork1", "thread1", "thread2", "start"}

\* exit() and wait() never leave a process to a parent that is gone, so that
\* somebody can reap it.
ParentAlive ==
    \A q \in Slots \ {initproc} : ptable[q].state \notin {"UNUSED", "EMBRYO"} =>
        /\ ptable[q].parent # None
        /\ ptable[ptable[q].parent].state \notin {"UNUSED", "EMBRYO", "ZOMBIE"}

\* The CPUs run what the table says is RUNNING: nobody frees a slot, or
\* makes it a ZOMBIE, under the process that executes in it.
OnCpu == on = {p \in Slots : ptable[p].state = "RUNNING"}

\* Every process has its kernel stack until it is reaped, and a free slot
\* holds none: no use after kfree, no leak.
StacksHeld ==
    \A p \in Slots \ {q \in Slots : ptable[q].state = "EMBRYO"} :
        ptable[p].kstack <=> ptable[p].state # "UNUSED"

\* Every slot in use has its kernel stack until it is reaped and a free one
\* has none, and a slot under construction belongs to the fork or
\* thread_create that allocates it: no use after kfree, no leak.
StacksOwned == StacksHeld /\ EmbryoOwned

\* p->t[] lists exactly the ids of p's threads, and no id twice.
TidsExact ==
    \A p \in Slots : ptable[p].state \notin {"UNUSED", "EMBRYO"} =>
        LET mine == {q \in Slots : ptable[q].isThread /\ ptable[q].parent = p}
        IN  /\ \A q \in mine : ptable[q].tid \in ptable[p].t
            /\ \A q, r \in mine : ptable[q].tid = ptable[r].tid => q = r
            /\ \A i \in ptable[p].t : \E q \in mine : ptable[q].tid = i

\* thread_join(thread) frees the caller's thread of that id, no other slot,
\* and hands over the value which that thread passed to thread_exit.
JoinOwnThread ==
    [][\A p, q \in Slots : \A thread \in Tids :
          (/\ JoinScan(p, thread)
           /\ ptable[q].state = "ZOMBIE" /\ ptable'[q].state = "UNUSED")
          => /\ ptable[q].isThread /\ ptable[q].parent = p
             /\ ptable[q].tid = thread /\ got'[p] = gave[q]]_vars

\* A ZOMBIE that belongs to init is reaped, unless init panicked or an exited
\* child in a lower slot comes first: wait() takes the first it finds, and
\* init may fork again into that slot.
OrphanReaped ==
    \A q \in Slots :
        LET Orphan(r) == ptable[r].state = "ZOMBIE" /\ ptable[r].parent = initproc
        IN  Orphan(q) ~> (~Orphan(q) \/ pc[initproc] = "panic"
                          \/ \E r \in 1 .. q - 1 : Orphan(r))

\* kill(): a killed process leaves, wherever it was when it was killed.
KilledLeaves ==
    \A q \in Slots : (ptable[q].killed /\ ptable[q].state # "UNUSED")
                     ~> (ptable[q].state \in {"ZOMBIE", "UNUSED"}
                         \/ pc[initproc] = "panic")

\* Whatever mix of process and thread calls a program makes on one CPU, the
\* table is well formed, a killed process is awake, and what executes on the
\* CPU is the slot that is RUNNING: no exit frees or ends it (proc.c).
AnyMixSound == TypeOK /\ KilledAwake /\ OnCpu
=============================================================================
