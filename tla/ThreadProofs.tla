---------------------------- MODULE ThreadProofs ----------------------------
(***************************************************************************)
(* Proofs about the threads of disciplined programs, on any number of      *)
(* processors: one process at a time creates threads, joins only its own,  *)
(* all of them before it exits, and forks only while it has none; nobody   *)
(* is killed.  What goes wrong without these conditions is what the runs   *)
(* on other programs show.  kalloc() may fail.                             *)
(***************************************************************************)
EXTENDS ProcProofs

\* The programs: one slot creates threads, t[] is long enough for all of its
\* threads (init, the slot itself and the new slot are not among them), and a
\* thread only computes and calls thread_exit.
JoinsOwn ==
    /\ \E m \in Slots \ {initproc} : Threaded \subseteq {m}
    /\ Disciplined /\ "kill" \notin Calls /\ "thread_exit" \notin Calls
    /\ ThreadCalls \subseteq {"thread_exit"}
    /\ NPROC <= NTID + 2

\* The slot whose program creates threads.
main == CHOOSE m \in Slots \ {initproc} : Threaded \subseteq {m}

\* A process in fork or thread_create, from taking the slot to starting it.
Making(p) == pc[p] \in {"fork1", "thread1", "thread2", "start"}

\* Nobody is killed; nobody is the child of itself or of a thread.
Tidy == \A q \in Slots : /\ ~ptable[q].killed /\ ptable[q].parent # q
                          /\ \A r \in Slots : ptable[r].isThread => ptable[q].parent # r

\* A thread belongs to main, is never UNUSED or asleep, and its only kernel
\* step is the entry of a system call.
Threads == \A q \in Slots : ptable[q].isThread =>
    /\ q # main /\ q # initproc /\ ptable[q].parent = main
    /\ ptable[q].state \in {"EMBRYO", "RUNNABLE", "RUNNING", "ZOMBIE"}
    /\ pc[q] \in {"user", "sys"}

\* main->t[] lists the ids of the threads, each once; no other t[] is used.
Ids == /\ \A q \in Slots : q # main => ptable[q].t = {}
       /\ \A q \in Slots : ptable[q].isThread => ptable[q].tid \in ptable[main].t
       /\ \A q, r \in Slots : /\ ptable[q].isThread /\ ptable[r].isThread
                              /\ ptable[q].tid = ptable[r].tid
                              => q = r
       /\ \A i \in ptable[main].t : \E q \in Slots : ptable[q].isThread /\ ptable[q].tid = i

\* The slot under construction is EMBRYO and nobody else's; it is free of a
\* former life until the second half of fork or thread_create.
Hatching ==
    /\ \A p \in Slots : Making(p) =>
          /\ loc[p] \in Slots /\ ptable[loc[p]].state = "EMBRYO"
          /\ pc[p] \in {"fork1", "thread1"} =>
                /\ ~ptable[loc[p]].kstack /\ ptable[loc[p]].parent = None
                /\ ~ptable[loc[p]].isThread
          /\ pc[p] \in {"thread2", "start"} =>
                ptable[loc[p]].kstack /\ ptable[loc[p]].parent = p
          /\ pc[p] \in {"thread1", "thread2"} => p = main
    /\ \A p, q \in Slots : Making(p) /\ Making(q) /\ loc[p] = loc[q] => p = q

\* With memory enough every EMBRYO slot is under construction.
Hatched == OutOfMemory \/ \A q \in Slots : ptable[q].state = "EMBRYO" =>
                              \E p \in Slots : Making(p) /\ loc[p] = q

\* While main has a thread, or makes one, all its children are threads.
OnlyThreads ==
    /\ ptable[main].t # {} \/ pc[main] \in {"thread1", "thread2"} =>
          \A q \in Slots : ptable[q].parent = main => ptable[q].isThread
    /\ pc[main] = "fork1" => ptable[main].t = {}

\* Only main joins, a thread it still has; exit() never meets a thread.
Joining == \A q \in Slots :
    /\ pc[q] = "join" => q = main /\ loc[q] \in ptable[main].t
    /\ pc[q] \notin {"exit_thread", "texit_sibling", "texit_parent", "texit_parents",
                   "texit_self"}

\* Who sleeps does so in wait() or thread_join, on itself.
Sleepers == \A q \in Slots : ptable[q].state = "SLEEPING" =>
                ptable[q].chan = q /\ pc[q] \in {"wait", "join"}

\* main->arr_ret[] holds what each thread that is gone passed to thread_exit.
Delivered == \A q \in Slots : ptable[q].isThread /\ ptable[q].state = "ZOMBIE" =>
                 ptable[main].arr_ret[ptable[q].tid] = gave[q]

\* The inductive invariant.
ThreadInv == /\ TypeOK /\ OnCpu /\ InCall /\ Family /\ Tidy /\ Threads /\ Ids
             /\ Hatching /\ Hatched /\ OnlyThreads /\ Joining /\ Sleepers
             /\ Delivered /\ NoMissedWakeup /\ StacksHeld
-----------------------------------------------------------------------------
\* What the hypothesis says of main.
LEMMA MainIs ==
    ASSUME JoinsOwn
    PROVE  main \in Slots /\ main # initproc /\ Threaded \subseteq {main}
  <1>1. \E m \in Slots \ {initproc} : Threaded \subseteq {m}  BY DEF JoinsOwn
  <1> QED  BY <1>1 DEF main

\* A table is what is made of its entries.
LEMMA InTable ==
    ASSUME NEW g, g = [r \in Slots |-> g[r]], \A r \in Slots : g[r] \in Process
    PROVE  g \in Table
  BY DEF Table

\* Who executes is RUNNING.
LEMMA Executes ==
    ASSUME ThreadInv, NEW p \in Slots, p \in on
    PROVE  ptable[p].state = "RUNNING" /\ Alive(p)
  BY DEF ThreadInv, OnCpu, Alive

\* TypeOK with the table folded.
LEMMA Shapes ==
    ASSUME ThreadInv
    PROVE  /\ ptable \in Table /\ on \subseteq Slots /\ pc \in [Slots -> Steps]
           /\ loc \in [Slots -> Slots \cup Tids \cup {None}]
           /\ gave \in [Slots -> Values \cup {NoValue}]
           /\ got \in [Slots -> Values \cup {NoValue}]
  BY TypedIs DEF ThreadInv, Typed

\* When the parent links stay and nobody dies, the families stay.
LEMMA KinStays ==
    ASSUME ThreadInv,
           \A q \in Slots : /\ ptable'[q].parent \in {ptable[q].parent, None}
                            /\ Alive(q) => Alive(q)'
                            /\ ptable'[q].state = "UNUSED" => ptable'[q].parent = None
                            /\ ptable'[q].state \notin {"UNUSED", "EMBRYO"} =>
                                  ptable'[q].parent # None \/ q = initproc
    PROVE  Family'
  <1>1. \A q \in Slots : ptable[q].parent \in Slots \cup {None}
    BY Shapes DEF Table, Process
  <1>2. ASSUME NEW q \in Slots, ptable'[q].parent # None
        PROVE  /\ ptable'[ptable'[q].parent].state \in {"RUNNABLE", "RUNNING", "SLEEPING"}
               /\ ptable'[q].state # "UNUSED"
    <2>1. ptable[q].parent \in Slots /\ ptable'[q].parent = ptable[q].parent  BY <1>1, <1>2
    <2>2. PICK r \in Slots : r = ptable[q].parent  BY <2>1
    <2>3. Alive(r)  BY <2>1, <2>2, Constants DEF ThreadInv, Family
    <2>4. Alive(r)'  BY <2>3
    <2>5. ptable'[q].parent = r  BY <2>1, <2>2
    <2>6. ptable'[r].state \in {"RUNNABLE", "RUNNING", "SLEEPING"}  BY <2>4 DEF Alive
    <2>7. ptable'[q].state # "UNUSED"  BY <1>2
    <2> QED  BY <2>5, <2>6, <2>7
  <1>3. \A q \in Slots \ {initproc} :
            ptable'[q].state \notin {"UNUSED", "EMBRYO"} => ptable'[q].parent # None
    OBVIOUS
  <1>4. Alive(initproc)' /\ ptable'[initproc].parent = None
    BY Constants DEF ThreadInv, Family
  <1> QED  BY <1>2, <1>3, <1>4 DEF Family, Alive

\* Ids speaks of three fields.
LEMMA IdsStay ==
    ASSUME Ids, main \in Slots,
           \A q \in Slots : /\ ptable'[q].isThread <=> ptable[q].isThread
                            /\ ptable'[q].tid = ptable[q].tid
                            /\ ptable'[q].t = ptable[q].t
    PROVE  Ids'
  BY DEF Ids

\* Who makes a slot after the step made it before, and the slot is as it was.
LEMMA HatchStays ==
    ASSUME Hatching,
           \A q \in Slots : Making(q)' =>
              /\ Making(q) /\ pc'[q] = pc[q] /\ loc'[q] = loc[q]
              /\ ptable'[loc[q]].state = ptable[loc[q]].state
              /\ ptable'[loc[q]].parent = ptable[loc[q]].parent
              /\ ptable'[loc[q]].kstack <=> ptable[loc[q]].kstack
              /\ ptable'[loc[q]].isThread <=> ptable[loc[q]].isThread
    PROVE  Hatching'
  <1>1. ASSUME NEW q \in Slots, Making(q)'
        PROVE  /\ loc'[q] \in Slots /\ ptable'[loc'[q]].state = "EMBRYO"
               /\ pc'[q] \in {"fork1", "thread1"} =>
                     /\ ~ptable'[loc'[q]].kstack /\ ptable'[loc'[q]].parent = None
                     /\ ~ptable'[loc'[q]].isThread
               /\ pc'[q] \in {"thread2", "start"} =>
                     ptable'[loc'[q]].kstack /\ ptable'[loc'[q]].parent = q
               /\ pc'[q] \in {"thread1", "thread2"} => q = main
    BY <1>1 DEF Hatching
  <1>2. \A p, q \in Slots : Making(p)' /\ Making(q)' /\ loc'[p] = loc'[q] => p = q
    BY DEF Hatching
  <1> QED  BY <1>1, <1>2 DEF Hatching, Making

\* A step of p that leaves the table alone and ends or begins a system call.
LEMMA Quiet ==
    ASSUME JoinsOwn, ThreadInv, NEW p \in Slots, p \in on, NEW s \in {"user", "sys", "panic"},
           Goto(p, s), ptable' = ptable, on' = on, gave' = gave, got' = got,
           loc' = loc \/ loc' = [loc EXCEPT ![p] = None],
           pc[p] \in {"user", "sys"} \/ (pc[p] = "thread2" /\ OutOfMemory),
           s = "panic" => ~ptable[p].isThread
    PROVE  ThreadInv'
  <1>1. ptable[p].state = "RUNNING" /\ Alive(p)  BY Executes
  <1>2. /\ pc \in [Slots -> Steps] /\ loc \in [Slots -> Slots \cup Tids \cup {None}]
        /\ main \in Slots
    BY Shapes, MainIs
  <1>3. /\ \A q \in Slots : pc'[q] = IF q = p THEN s ELSE pc[q]
        /\ \A q \in Slots : q # p => loc'[q] = loc[q]
    BY <1>2 DEF Goto
  <1>4. TypeOK'
    <2>1. pc' \in [Slots -> Steps] /\ loc' \in [Slots -> Slots \cup Tids \cup {None}]
      BY <1>2 DEF Goto, Steps
    <2> QED  BY <2>1 DEF ThreadInv, TypeOK
  <1>5. OnCpu' /\ Family' /\ Tidy' /\ Ids' /\ Delivered' /\ StacksHeld'
    BY DEF ThreadInv, OnCpu, Family, Alive, Tidy, Ids, Delivered, StacksHeld
  <1>6. InCall'  BY <1>1, <1>3 DEF ThreadInv, InCall, Alive
  <1>7. Threads'  BY <1>3 DEF ThreadInv, Threads
  <1>8. \A q \in Slots : Making(q)' <=> (Making(q) /\ q # p)  BY <1>3 DEF Making
  <1>9. Hatching'
    <2>1. \A q \in Slots : Making(q)' => /\ Making(q) /\ pc'[q] = pc[q] /\ loc'[q] = loc[q]
      BY <1>3, <1>8
    <2> QED  BY <2>1, HatchStays DEF ThreadInv
  <1>10. Hatched'
    <2>1. CASE OutOfMemory  BY <2>1 DEF Hatched
    <2>2. CASE ~OutOfMemory
      <3>1. ~Making(p)  BY <2>2 DEF Making
      <3> QED  BY <1>3, <1>8, <3>1 DEF ThreadInv, Hatched
    <2> QED  BY <2>1, <2>2
  <1>11. OnlyThreads'  BY <1>2, <1>3 DEF ThreadInv, OnlyThreads
  <1>12. Joining'  BY <1>3 DEF ThreadInv, Joining
  <1>13. Sleepers'  BY <1>1, <1>3 DEF ThreadInv, Sleepers
  <1>14. NoMissedWakeup'  BY <1>1, <1>3 DEF ThreadInv, NoMissedWakeup
  <1> QED  BY <1>4, <1>5, <1>6, <1>7, <1>9, <1>10, <1>11, <1>12, <1>13, <1>14 DEF ThreadInv

\* trap() into a system call.
LEMMA ThTrap ==
    ASSUME JoinsOwn, ThreadInv, NEW p \in Slots, Trap(p)
    PROVE  ThreadInv'
  BY Quiet DEF Trap, At

\* init panics when it exits.
LEMMA ThInitExit ==
    ASSUME JoinsOwn, ThreadInv, NEW p \in Slots, InitExit(p)
    PROVE  ThreadInv'
  <1>1. /\ p \in on /\ pc[p] \in {"user", "sys"} /\ ~ptable[p].isThread
        /\ Goto(p, "panic") /\ UNCHANGED <<ptable, on, loc, gave, got>>
    BY DEF InitExit, MayExit, Makes, At
  <1> QED  BY <1>1, Quiet

\* thread_create gives up for want of a stack and forgets the slot.
LEMMA ThStackFail ==
    ASSUME JoinsOwn, ThreadInv, NEW p \in Slots, StackFail(p)
    PROVE  ThreadInv'
  BY Quiet DEF StackFail, At, Return

\* thread_create has its stack.
LEMMA ThStackDone ==
    ASSUME JoinsOwn, ThreadInv, NEW p \in Slots, StackDone(p)
    PROVE  ThreadInv'
  <1>1. /\ p \in on /\ pc[p] = "thread2" /\ pc' = [pc EXCEPT ![p] = "start"]
        /\ ptable' = ptable /\ on' = on /\ loc' = loc /\ gave' = gave /\ got' = got
    BY DEF StackDone, At, Goto
  <1>2. ptable[p].state = "RUNNING" /\ Alive(p)  BY <1>1, Executes
  <1>3. pc \in [Slots -> Steps] /\ main \in Slots  BY Shapes, MainIs
  <1>4. \A q \in Slots : pc'[q] = IF q = p THEN "start" ELSE pc[q]  BY <1>1, <1>3
  <1>5. TypeOK'
    <2>1. pc' \in [Slots -> Steps]  BY <1>1, <1>3 DEF Steps
    <2> QED  BY <1>1, <2>1 DEF ThreadInv, TypeOK
  <1>6. OnCpu' /\ Family' /\ Tidy' /\ Ids' /\ Delivered' /\ StacksHeld'
    BY <1>1 DEF ThreadInv, OnCpu, Family, Alive, Tidy, Ids, Delivered, StacksHeld
  <1>7. InCall'  BY <1>1, <1>2, <1>4 DEF ThreadInv, InCall, Alive
  <1>8. Threads'  BY <1>1, <1>4 DEF ThreadInv, Threads
  <1>9. \A q \in Slots : Making(q)' <=> Making(q)  BY <1>1, <1>4 DEF Making
  <1>10. Hatching'
    <2>1. ASSUME NEW q \in Slots, Making(q)'
          PROVE  /\ loc'[q] \in Slots /\ ptable'[loc'[q]].state = "EMBRYO"
                 /\ pc'[q] \in {"fork1", "thread1"} =>
                       /\ ~ptable'[loc'[q]].kstack /\ ptable'[loc'[q]].parent = None
                       /\ ~ptable'[loc'[q]].isThread
                 /\ pc'[q] \in {"thread2", "start"} =>
                       ptable'[loc'[q]].kstack /\ ptable'[loc'[q]].parent = q
                 /\ pc'[q] \in {"thread1", "thread2"} => q = main
      BY <1>1, <1>4, <1>9, <2>1 DEF ThreadInv, Hatching
    <2> QED  BY <1>1, <1>9, <2>1 DEF ThreadInv, Hatching, Making
  <1>11. Hatched'  BY <1>1, <1>9 DEF ThreadInv, Hatched
  <1>12. OnlyThreads'  BY <1>1, <1>3, <1>4 DEF ThreadInv, OnlyThreads
  <1>13. Joining'  BY <1>1, <1>4 DEF ThreadInv, Joining
  <1>14. Sleepers'  BY <1>1, <1>2, <1>4 DEF ThreadInv, Sleepers
  <1>15. NoMissedWakeup'  BY <1>1, <1>2, <1>4 DEF ThreadInv, NoMissedWakeup
  <1> QED  BY <1>5, <1>6, <1>7, <1>8, <1>10, <1>11, <1>12, <1>13, <1>14, <1>15 DEF ThreadInv

\* The scheduler and yield exchange RUNNING and RUNNABLE.
LEMMA ThDispatch ==
    ASSUME JoinsOwn, ThreadInv, NEW p \in Slots, Dispatch(p) \/ Yield(p)
    PROVE  ThreadInv'
  <1> PICK x \in {"RUNNING", "RUNNABLE"} : ptable' = [ptable EXCEPT ![p].state = x]
           /\ (x = "RUNNING" => on' = on \cup {p})
           /\ (x = "RUNNABLE" => on' = on \ {p})
    BY DEF Dispatch, Yield
  <1>1. pc' = pc /\ loc' = loc /\ gave' = gave /\ got' = got
        /\ ptable[p].state \in {"RUNNING", "RUNNABLE"}
    BY DEF Dispatch, Yield
  <1>2. ptable \in Table /\ main \in Slots  BY Shapes, MainIs
  <1>3. \A r \in Slots :
           /\ ptable'[r].state = IF r = p THEN x ELSE ptable[r].state
           /\ ptable'[r].parent = ptable[r].parent
           /\ ptable'[r].chan = ptable[r].chan
           /\ ptable'[r].killed = ptable[r].killed
           /\ ptable'[r].kstack = ptable[r].kstack
           /\ ptable'[r].isThread = ptable[r].isThread
           /\ ptable'[r].tid = ptable[r].tid
           /\ ptable'[r].t = ptable[r].t
           /\ ptable'[r].arr_ret = ptable[r].arr_ret
    BY <1>2 DEF Table, Process
  <1>4. TypeOK'
    <2>1. ptable' = SetState(ptable, p, x) /\ x \in States  BY DEF SetState, States
    <2>2. SetState(ptable, p, x) \in Table  BY <1>2, <2>1, StateSet
    <2>3. on' \subseteq Slots  BY Shapes
    <2>4. ptable' \in Table  BY <2>1, <2>2
    <2> QED  BY <1>1, <2>3, <2>4 DEF ThreadInv, TypeOK, Table, Process
  <1>5. OnCpu'  BY <1>3 DEF ThreadInv, OnCpu
  <1>6. InCall'  BY <1>1, <1>3 DEF ThreadInv, InCall, Alive
  <1>7. Family'
    <2>1. \A q \in Slots : Alive(q) => Alive(q)'  BY <1>3 DEF Alive
    <2>2. \A q \in Slots : /\ ptable'[q].state = "UNUSED" => ptable'[q].parent = None
                           /\ ptable'[q].state \notin {"UNUSED", "EMBRYO"} =>
                                 ptable'[q].parent # None \/ q = initproc
      BY <1>1, <1>3 DEF ThreadInv, Family
    <2> QED  BY <1>3, <2>1, <2>2, KinStays
  <1>8. Tidy'  BY <1>3 DEF ThreadInv, Tidy
  <1>9. Threads'  BY <1>1, <1>3 DEF ThreadInv, Threads
  <1>10. Ids'  BY <1>2, <1>3, IdsStay DEF ThreadInv
  <1>11. Hatching'
    <2>1. \A q \in Slots : Making(q) => loc[q] \in Slots /\ loc[q] # p
      BY <1>1 DEF ThreadInv, Hatching
    <2> QED  BY <1>1, <1>3, <2>1, HatchStays DEF ThreadInv, Making
  <1>12. Hatched'  BY <1>1, <1>3 DEF ThreadInv, Hatched, Making
  <1>13. OnlyThreads'  BY <1>1, <1>2, <1>3 DEF ThreadInv, OnlyThreads
  <1>14. Joining'  BY <1>1, <1>2, <1>3 DEF ThreadInv, Joining
  <1>15. Sleepers'  BY <1>1, <1>3 DEF ThreadInv, Sleepers
  <1>16. Delivered'  BY <1>1, <1>2, <1>3 DEF ThreadInv, Delivered
  <1>17. NoMissedWakeup'  BY <1>1, <1>3 DEF ThreadInv, NoMissedWakeup
  <1>18. StacksHeld'  BY <1>1, <1>3 DEF ThreadInv, StacksHeld
  <1> QED  BY <1>4, <1>5, <1>6, <1>7, <1>8, <1>9, <1>10, <1>11, <1>12, <1>13, <1>14, <1>15,
              <1>16, <1>17, <1>18 DEF ThreadInv

\* allocproc takes an UNUSED slot, which nobody else builds.
LEMMA ThAlloc ==
    ASSUME JoinsOwn, ThreadInv, NEW p \in Slots, NEW call, NEW next \in {"fork1", "thread1"},
           Alloc(p, call, next), ~ptable[p].isThread,
           next = "fork1" => ptable[p].t = {},
           next = "thread1" =>
              p = main /\ \A q \in Slots : ptable[q].parent = main => ptable[q].isThread
    PROVE  ThreadInv'
  <1>1. /\ on' = on /\ gave' = gave /\ got' = got /\ p \in on /\ pc[p] = "sys"
    BY DEF Alloc, Makes, At
  <1>2. ptable[p].state = "RUNNING" /\ Alive(p)  BY <1>1, Executes
  <1>3. /\ ptable \in Table /\ main \in Slots /\ pc \in [Slots -> Steps]
        /\ loc \in [Slots -> Slots \cup Tids \cup {None}]
    BY Shapes, MainIs
  <1>4. CASE Unused = {}
    <2>1. Return(p) /\ ptable' = ptable  BY <1>4 DEF Alloc
    <2> QED  BY <1>1, <2>1, Quiet DEF Return
  <1>5. CASE Unused # {}
    <2>1. Min(Unused) \in Unused  BY <1>5, Least, Constants DEF Unused
    <2>2. PICK m \in Slots : m = Min(Unused) /\ ptable[m].state = "UNUSED"
      BY <2>1 DEF Unused
    <2>3. /\ ptable' = [ptable EXCEPT ![m].state = "EMBRYO", ![m].pid = TRUE]
          /\ loc' = [loc EXCEPT ![p] = m] /\ pc' = [pc EXCEPT ![p] = next]
      BY <1>5, <2>2 DEF Alloc, Goto
    <2>4. \A r \in Slots :
             /\ ptable'[r].state = IF r = m THEN "EMBRYO" ELSE ptable[r].state
             /\ ptable'[r].parent = ptable[r].parent
             /\ ptable'[r].chan = ptable[r].chan
             /\ ptable'[r].killed = ptable[r].killed
             /\ ptable'[r].kstack = ptable[r].kstack
             /\ ptable'[r].isThread = ptable[r].isThread
             /\ ptable'[r].tid = ptable[r].tid
             /\ ptable'[r].t = ptable[r].t
             /\ ptable'[r].arr_ret = ptable[r].arr_ret
      BY <1>3, <2>3 DEF Table, Process
    <2>5. /\ \A q \in Slots : pc'[q] = IF q = p THEN next ELSE pc[q]
          /\ \A q \in Slots : loc'[q] = IF q = p THEN m ELSE loc[q]
          /\ m # p
      BY <1>2, <1>3, <2>2, <2>3
    <2>6. ptable[m].parent = None /\ ~ptable[m].kstack /\ ~ptable[m].isThread /\ m # initproc
      BY <2>2, Constants DEF ThreadInv, Family, StacksHeld, Threads, Alive
    <2>7. TypeOK'
      <3>1. GivePid(SetState(ptable, m, "EMBRYO"), m) \in Table
        BY <1>3, StateSet, GivePidSet DEF States
      <3>2. ptable' = GivePid(SetState(ptable, m, "EMBRYO"), m)
        BY <2>3 DEF GivePid, SetState
      <3>3. pc' \in [Slots -> Steps] /\ loc' \in [Slots -> Slots \cup Tids \cup {None}]
        BY <1>3, <2>3 DEF Steps
      <3>4. ptable' \in Table  BY <3>1, <3>2
      <3> QED  BY <1>1, <3>3, <3>4 DEF ThreadInv, TypeOK, Table, Process
    <2>8. OnCpu'  BY <1>1, <2>2, <2>4 DEF ThreadInv, OnCpu
    <2>9. InCall'  BY <1>2, <2>2, <2>4, <2>5 DEF ThreadInv, InCall, Alive
    <2>10. Family'
      <3>1. \A q \in Slots : Alive(q) => Alive(q)'  BY <2>2, <2>4 DEF Alive
      <3>2. \A q \in Slots : /\ ptable'[q].state = "UNUSED" => ptable'[q].parent = None
                             /\ ptable'[q].state \notin {"UNUSED", "EMBRYO"} =>
                                   ptable'[q].parent # None \/ q = initproc
        BY <2>4 DEF ThreadInv, Family
      <3> QED  BY <2>4, <3>1, <3>2, KinStays
    <2>11. Tidy'  BY <2>4 DEF ThreadInv, Tidy
    <2>12. Threads'  BY <2>4, <2>5, <2>6 DEF ThreadInv, Threads
    <2>13. Ids'  BY <1>3, <2>4, IdsStay DEF ThreadInv
    <2>14. \A q \in Slots : /\ q # p => (Making(q)' <=> Making(q)) /\ pc'[q] = pc[q]
                                                                   /\ loc'[q] = loc[q]
                            /\ Making(q) => loc[q] \in Slots /\ loc[q] # m
                            /\ ~Making(p) /\ Making(p)'
      BY <1>1, <2>2, <2>5 DEF ThreadInv, Hatching, Making
    <2>15. Hatching'
      <3>1. ASSUME NEW q \in Slots, Making(q)'
            PROVE  /\ loc'[q] \in Slots /\ ptable'[loc'[q]].state = "EMBRYO"
                   /\ pc'[q] \in {"fork1", "thread1"} =>
                         /\ ~ptable'[loc'[q]].kstack /\ ptable'[loc'[q]].parent = None
                         /\ ~ptable'[loc'[q]].isThread
                   /\ pc'[q] \in {"thread2", "start"} =>
                         ptable'[loc'[q]].kstack /\ ptable'[loc'[q]].parent = q
                   /\ pc'[q] \in {"thread1", "thread2"} => q = main
        <4>1. CASE q = p  BY <2>4, <2>5, <2>6, <4>1
        <4>2. CASE q # p  BY <2>4, <2>5, <2>14, <3>1, <4>2 DEF ThreadInv, Hatching
        <4> QED  BY <4>1, <4>2
      <3>2. \A q, r \in Slots : Making(q)' /\ Making(r)' /\ loc'[q] = loc'[r] => q = r
        BY <2>5, <2>14 DEF ThreadInv, Hatching
      <3> QED  BY <3>1, <3>2 DEF Hatching, Making
    <2>16. Hatched'  BY <2>4, <2>5, <2>14 DEF ThreadInv, Hatched
    <2>17. OnlyThreads'  BY <1>3, <2>4, <2>5, <2>6 DEF ThreadInv, OnlyThreads
    <2>18. Joining'  BY <1>3, <2>4, <2>5 DEF ThreadInv, Joining
    <2>19. Sleepers'  BY <1>2, <2>4, <2>5 DEF ThreadInv, Sleepers
    <2>20. Delivered'  BY <1>1, <1>3, <2>4 DEF ThreadInv, Delivered
    <2>21. NoMissedWakeup'  BY <1>2, <2>4, <2>5 DEF ThreadInv, NoMissedWakeup
    <2>22. StacksHeld'  BY <2>4 DEF ThreadInv, StacksHeld
    <2> QED  BY <2>7, <2>8, <2>9, <2>10, <2>11, <2>12, <2>13, <2>15, <2>16, <2>17, <2>18,
                <2>19, <2>20, <2>21, <2>22 DEF ThreadInv
  <1> QED  BY <1>4, <1>5

\* fork, in a process that has no threads.
LEMMA ThFork ==
    ASSUME JoinsOwn, ThreadInv, NEW p \in Slots, Fork(p)
    PROVE  ThreadInv'
  <1>1. ptable[p].t = {} /\ Alloc(p, "fork", "fork1")  BY DEF Fork, JoinsOwn
  <1>2. ~ptable[p].isThread  BY <1>1 DEF Alloc, Makes, JoinsOwn
  <1> QED  BY <1>1, <1>2, ThAlloc

\* thread_create, in a process without children that are processes.
LEMMA ThCreate ==
    ASSUME JoinsOwn, ThreadInv, NEW p \in Slots, ThreadCreate(p)
    PROVE  ThreadInv'
  <1>1. /\ p = main /\ \A q \in Slots : ptable[q].parent = p => ptable[q].isThread
        /\ Alloc(p, "thread_create", "thread1")
    BY MainIs DEF ThreadCreate, JoinsOwn
  <1>2. ~ptable[p].isThread  BY <1>1 DEF ThreadInv, Threads
  <1> QED  BY <1>1, <1>2, ThAlloc

\* allocproc or copyuvm finds no memory: the slot is given back.
LEMMA ThAllocFail ==
    ASSUME JoinsOwn, ThreadInv, NEW p \in Slots, AllocFail(p)
    PROVE  ThreadInv'
  <1>1. /\ p \in on /\ pc[p] \in {"fork1", "thread1"} /\ Making(p) /\ OutOfMemory
        /\ on' = on /\ gave' = gave /\ got' = got
    BY DEF AllocFail, At, Making
  <1>2. ptable[p].state = "RUNNING" /\ Alive(p)  BY <1>1, Executes
  <1>3. /\ ptable \in Table /\ main \in Slots /\ pc \in [Slots -> Steps]
        /\ loc \in [Slots -> Slots \cup Tids \cup {None}]
    BY Shapes, MainIs
  <1>4. PICK m \in Slots : /\ loc[p] = m /\ ptable[m].state = "EMBRYO" /\ ~ptable[m].isThread
                           /\ ~ptable[m].kstack /\ ptable[m].parent = None
    BY <1>1 DEF ThreadInv, Hatching
  <1>5. /\ ptable' = [ptable EXCEPT ![m].state = "UNUSED"]
        /\ pc' = [pc EXCEPT ![p] = "user"] /\ loc' = [loc EXCEPT ![p] = None]
    BY <1>4 DEF AllocFail, Return, Goto
  <1>6. \A r \in Slots :
           /\ ptable'[r].state = IF r = m THEN "UNUSED" ELSE ptable[r].state
           /\ ptable'[r].parent = ptable[r].parent
           /\ ptable'[r].chan = ptable[r].chan
           /\ ptable'[r].killed = ptable[r].killed
           /\ ptable'[r].kstack = ptable[r].kstack
           /\ ptable'[r].isThread = ptable[r].isThread
           /\ ptable'[r].tid = ptable[r].tid
           /\ ptable'[r].t = ptable[r].t
           /\ ptable'[r].arr_ret = ptable[r].arr_ret
    BY <1>3, <1>5 DEF Table, Process
  <1>7. /\ \A q \in Slots : pc'[q] = IF q = p THEN "user" ELSE pc[q]
        /\ \A q \in Slots : loc'[q] = IF q = p THEN None ELSE loc[q]
        /\ m # p /\ m # initproc
    BY <1>2, <1>3, <1>4, <1>5 DEF ThreadInv, Family, Alive
  <1>8. TypeOK'
    <2>1. SetState(ptable, m, "UNUSED") \in Table  BY <1>3, StateSet DEF States
    <2>2. ptable' = SetState(ptable, m, "UNUSED")  BY <1>5 DEF SetState
    <2>3. pc' \in [Slots -> Steps] /\ loc' \in [Slots -> Slots \cup Tids \cup {None}]
      BY <1>3, <1>5 DEF Steps
    <2>4. ptable' \in Table  BY <2>1, <2>2
    <2> QED  BY <1>1, <2>3, <2>4 DEF ThreadInv, TypeOK, Table, Process
  <1>9. OnCpu'  BY <1>1, <1>4, <1>6 DEF ThreadInv, OnCpu
  <1>10. InCall'  BY <1>4, <1>6, <1>7 DEF ThreadInv, InCall, Alive
  <1>11. Family'
    <2>1. \A q \in Slots : Alive(q) => Alive(q)'  BY <1>4, <1>6 DEF Alive
    <2>2. \A q \in Slots : /\ ptable'[q].state = "UNUSED" => ptable'[q].parent = None
                           /\ ptable'[q].state \notin {"UNUSED", "EMBRYO"} =>
                                 ptable'[q].parent # None \/ q = initproc
      BY <1>4, <1>6 DEF ThreadInv, Family
    <2> QED  BY <1>6, <2>1, <2>2, KinStays
  <1>12. Tidy'  BY <1>6 DEF ThreadInv, Tidy
  <1>13. Threads'  BY <1>4, <1>6, <1>7 DEF ThreadInv, Threads
  <1>14. Ids'  BY <1>3, <1>6, IdsStay DEF ThreadInv
  <1>15. Hatching'
    <2>1. \A q \in Slots : Making(q)' => /\ Making(q) /\ pc'[q] = pc[q] /\ loc'[q] = loc[q]
                                         /\ loc[q] \in Slots /\ loc[q] # m
      BY <1>1, <1>4, <1>7 DEF ThreadInv, Hatching, Making
    <2> QED  BY <1>6, <2>1, HatchStays DEF ThreadInv
  <1>16. Hatched'  BY <1>1 DEF Hatched
  <1>17. OnlyThreads'  BY <1>3, <1>6, <1>7 DEF ThreadInv, OnlyThreads
  <1>18. Joining'  BY <1>3, <1>6, <1>7 DEF ThreadInv, Joining
  <1>19. Sleepers'  BY <1>2, <1>6, <1>7 DEF ThreadInv, Sleepers
  <1>20. Delivered'  BY <1>1, <1>3, <1>6 DEF ThreadInv, Delivered
  <1>21. NoMissedWakeup'  BY <1>2, <1>6, <1>7 DEF ThreadInv, NoMissedWakeup
  <1>22. StacksHeld'  BY <1>4, <1>6 DEF ThreadInv, StacksHeld
  <1> QED  BY <1>8, <1>9, <1>10, <1>11, <1>12, <1>13, <1>14, <1>15, <1>16, <1>17, <1>18, <1>19,
              <1>20, <1>21, <1>22 DEF ThreadInv

\* fork gives the slot its stack and its parent.
LEMMA ThForkSetup ==
    ASSUME JoinsOwn, ThreadInv, NEW p \in Slots, ForkSetup(p)
    PROVE  ThreadInv'
  <1>1. /\ p \in on /\ pc[p] = "fork1" /\ Making(p)
        /\ on' = on /\ loc' = loc /\ gave' = gave /\ got' = got
    BY DEF ForkSetup, At, Making
  <1>2. ptable[p].state = "RUNNING" /\ Alive(p)  BY <1>1, Executes
  <1>3. ptable \in Table /\ main \in Slots /\ pc \in [Slots -> Steps] /\ p # None
    BY Shapes, MainIs, Constants
  <1>4. PICK m \in Slots : /\ loc[p] = m /\ ptable[m].state = "EMBRYO" /\ ~ptable[m].isThread
                           /\ ~ptable[m].kstack /\ ptable[m].parent = None
    BY <1>1 DEF ThreadInv, Hatching
  <1>5. /\ ptable' = [ptable EXCEPT ![m].kstack = TRUE, ![m].parent = p]
        /\ pc' = [pc EXCEPT ![p] = "start"]
    BY <1>4 DEF ForkSetup, Goto
  <1>6. \A r \in Slots :
           /\ ptable'[r].state = ptable[r].state
           /\ ptable'[r].parent = IF r = m THEN p ELSE ptable[r].parent
           /\ ptable'[r].chan = ptable[r].chan
           /\ ptable'[r].killed = ptable[r].killed
           /\ ptable'[r].kstack <=> (r = m \/ ptable[r].kstack)
           /\ ptable'[r].isThread = ptable[r].isThread
           /\ ptable'[r].tid = ptable[r].tid
           /\ ptable'[r].t = ptable[r].t
           /\ ptable'[r].arr_ret = ptable[r].arr_ret
    BY <1>3, <1>5 DEF Table, Process
  <1>7. /\ \A q \in Slots : pc'[q] = IF q = p THEN "start" ELSE pc[q]
        /\ m # p /\ m # initproc
    BY <1>2, <1>3, <1>4, <1>5 DEF ThreadInv, Family, Alive
  <1>8. TypeOK'
    <2>1. GiveStack(ptable, m) \in Table  BY <1>3, GiveStackSet
    <2>2. SetParent(GiveStack(ptable, m), m, p) \in Table  BY <2>1, ParentSet
    <2>3. ptable' = SetParent(GiveStack(ptable, m), m, p)  BY <1>5 DEF SetParent, GiveStack
    <2>4. pc' \in [Slots -> Steps]  BY <1>3, <1>5 DEF Steps
    <2>5. ptable' \in Table  BY <2>2, <2>3
    <2> QED  BY <1>1, <2>4, <2>5 DEF ThreadInv, TypeOK, Table, Process
  <1>9. OnCpu'  BY <1>1, <1>6 DEF ThreadInv, OnCpu
  <1>10. InCall'  BY <1>2, <1>6, <1>7 DEF ThreadInv, InCall, Alive
  <1>11. Family'
    <2>1. \A q \in Slots : Alive(q) <=> Alive(q)'  BY <1>6 DEF Alive
    <2>2. ASSUME NEW q \in Slots, ptable'[q].parent # None
          PROVE  /\ ptable'[ptable'[q].parent].state \in {"RUNNABLE", "RUNNING", "SLEEPING"}
                 /\ ptable'[q].state # "UNUSED"
      <3>1. CASE q = m
        <4>1. ptable'[q].parent = p /\ ptable'[q].state = "EMBRYO"  BY <1>4, <1>6, <3>1
        <4>2. ptable'[p].state = "RUNNING"  BY <1>2, <1>6
        <4> QED  BY <4>1, <4>2
      <3>2. CASE q # m
        <4>1. ptable[q].parent # None /\ ptable'[q].parent = ptable[q].parent
          BY <1>6, <2>2, <3>2
        <4>2. ptable[q].parent \in Slots  BY <1>3, <4>1 DEF Table, Process
        <4>3. PICK r \in Slots : r = ptable[q].parent  BY <4>2
        <4>4. Alive(r) /\ ptable[q].state # "UNUSED"  BY <4>1, <4>3 DEF ThreadInv, Family
        <4>5. ptable'[r].state = ptable[r].state /\ ptable'[q].state = ptable[q].state
          BY <1>6
        <4> QED  BY <4>1, <4>3, <4>4, <4>5 DEF Alive
      <3> QED  BY <3>1, <3>2
    <2>3. \A q \in Slots \ {initproc} :
              ptable'[q].state \notin {"UNUSED", "EMBRYO"} => ptable'[q].parent # None
      BY <1>3, <1>4, <1>6 DEF ThreadInv, Family
    <2>4. Alive(initproc)' /\ ptable'[initproc].parent = None
      BY <1>6, <1>7, <2>1, Constants DEF ThreadInv, Family
    <2> QED  BY <2>2, <2>3, <2>4 DEF Family, Alive
  <1>12. Tidy'
    <2>1. ~ptable[p].isThread  BY <1>1 DEF ThreadInv, Threads
    <2> QED  BY <1>6, <1>7, <2>1 DEF ThreadInv, Tidy
  <1>13. Threads'
    <2>1. ~ptable[p].isThread  BY <1>1 DEF ThreadInv, Threads
    <2> QED  BY <1>4, <1>6, <1>7, <2>1 DEF ThreadInv, Threads
  <1>14. Ids'  BY <1>3, <1>6, IdsStay DEF ThreadInv
  <1>15. \A q \in Slots : /\ Making(q)' <=> Making(q)
                          /\ Making(q) /\ q # p => loc[q] \in Slots /\ loc[q] # m
    BY <1>1, <1>4, <1>7 DEF ThreadInv, Hatching, Making
  <1>16. Hatching'
    <2>1. ASSUME NEW q \in Slots, Making(q)'
          PROVE  /\ loc'[q] \in Slots /\ ptable'[loc'[q]].state = "EMBRYO"
                 /\ pc'[q] \in {"fork1", "thread1"} =>
                       /\ ~ptable'[loc'[q]].kstack /\ ptable'[loc'[q]].parent = None
                       /\ ~ptable'[loc'[q]].isThread
                 /\ pc'[q] \in {"thread2", "start"} =>
                       ptable'[loc'[q]].kstack /\ ptable'[loc'[q]].parent = q
                 /\ pc'[q] \in {"thread1", "thread2"} => q = main
      <3>1. CASE q = p  BY <1>1, <1>4, <1>6, <1>7, <3>1
      <3>2. CASE q # p
        <4>1. loc[q] \in Slots /\ loc[q] # m /\ pc'[q] = pc[q] /\ Making(q)
          BY <1>7, <1>15, <2>1, <3>2
        <4> QED  BY <1>1, <1>6, <4>1 DEF ThreadInv, Hatching
      <3> QED  BY <3>1, <3>2
    <2>2. \A q, r \in Slots : Making(q)' /\ Making(r)' /\ loc'[q] = loc'[r] => q = r
      BY <1>1, <1>15 DEF ThreadInv, Hatching
    <2> QED  BY <2>1, <2>2 DEF Hatching, Making
  <1>17. Hatched'  BY <1>1, <1>6, <1>15 DEF ThreadInv, Hatched
  <1>18. OnlyThreads'  BY <1>1, <1>3, <1>6, <1>7 DEF ThreadInv, OnlyThreads
  <1>19. Joining'  BY <1>1, <1>3, <1>6, <1>7 DEF ThreadInv, Joining
  <1>20. Sleepers'  BY <1>2, <1>6, <1>7 DEF ThreadInv, Sleepers
  <1>21. Delivered'  BY <1>1, <1>3, <1>6 DEF ThreadInv, Delivered
  <1>22. NoMissedWakeup'  BY <1>1, <1>2, <1>4, <1>6, <1>7 DEF ThreadInv, NoMissedWakeup
  <1>23. StacksHeld'  BY <1>4, <1>6 DEF ThreadInv, StacksHeld
  <1> QED  BY <1>8, <1>9, <1>10, <1>11, <1>12, <1>13, <1>14, <1>16, <1>17, <1>18, <1>19,
              <1>20, <1>21, <1>22, <1>23 DEF ThreadInv

\* The new process or thread is RUNNABLE, and starts in user space.
LEMMA ThStart ==
    ASSUME JoinsOwn, ThreadInv, NEW p \in Slots, Start(p)
    PROVE  ThreadInv'
  <1>1. /\ p \in on /\ pc[p] = "start" /\ Making(p) /\ on' = on /\ gave' = gave /\ got' = got
    BY DEF Start, At, Making
  <1>2. ptable[p].state = "RUNNING" /\ Alive(p)  BY <1>1, Executes
  <1>3. /\ ptable \in Table /\ main \in Slots /\ pc \in [Slots -> Steps] /\ p # None
        /\ loc \in [Slots -> Slots \cup Tids \cup {None}]
    BY Shapes, MainIs, Constants
  <1>4. PICK m \in Slots : /\ loc[p] = m /\ ptable[m].state = "EMBRYO"
                           /\ ptable[m].kstack /\ ptable[m].parent = p
    BY <1>1 DEF ThreadInv, Hatching
  <1>5. /\ ptable' = [ptable EXCEPT ![m].state = "RUNNABLE"]
        /\ pc' = [pc EXCEPT ![p] = "user", ![m] = "user"]
        /\ loc' = [loc EXCEPT ![p] = None, ![m] = None]
    BY <1>4 DEF Start
  <1>6. \A r \in Slots :
           /\ ptable'[r].state = IF r = m THEN "RUNNABLE" ELSE ptable[r].state
           /\ ptable'[r].parent = ptable[r].parent
           /\ ptable'[r].chan = ptable[r].chan
           /\ ptable'[r].killed = ptable[r].killed
           /\ ptable'[r].kstack = ptable[r].kstack
           /\ ptable'[r].isThread = ptable[r].isThread
           /\ ptable'[r].tid = ptable[r].tid
           /\ ptable'[r].t = ptable[r].t
           /\ ptable'[r].arr_ret = ptable[r].arr_ret
    BY <1>3, <1>5 DEF Table, Process
  <1>7. /\ \A q \in Slots : pc'[q] = IF q = p \/ q = m THEN "user" ELSE pc[q]
        /\ \A q \in Slots : q # p /\ q # m => loc'[q] = loc[q]
        /\ m # p /\ m # initproc /\ pc[m] = "user"
    BY <1>2, <1>3, <1>4, <1>5 DEF ThreadInv, Family, Alive, InCall
  <1>8. TypeOK'
    <2>1. SetState(ptable, m, "RUNNABLE") \in Table  BY <1>3, StateSet DEF States
    <2>2. ptable' = SetState(ptable, m, "RUNNABLE")  BY <1>5 DEF SetState
    <2>3. pc' \in [Slots -> Steps] /\ loc' \in [Slots -> Slots \cup Tids \cup {None}]
      BY <1>3, <1>5 DEF Steps
    <2>4. ptable' \in Table  BY <2>1, <2>2
    <2> QED  BY <1>1, <2>3, <2>4 DEF ThreadInv, TypeOK, Table, Process
  <1>9. OnCpu'  BY <1>1, <1>4, <1>6 DEF ThreadInv, OnCpu
  <1>10. InCall'  BY <1>6, <1>7 DEF ThreadInv, InCall, Alive
  <1>11. Family'
    <2>1. \A q \in Slots : Alive(q) => Alive(q)'  BY <1>6 DEF Alive
    <2>2. \A q \in Slots : /\ ptable'[q].state = "UNUSED" => ptable'[q].parent = None
                           /\ ptable'[q].state \notin {"UNUSED", "EMBRYO"} =>
                                 ptable'[q].parent # None \/ q = initproc
      BY <1>3, <1>4, <1>6 DEF ThreadInv, Family
    <2> QED  BY <1>6, <2>1, <2>2, KinStays
  <1>12. Tidy'  BY <1>6 DEF ThreadInv, Tidy
  <1>13. Threads'  BY <1>6, <1>7 DEF ThreadInv, Threads
  <1>14. Ids'  BY <1>3, <1>6, IdsStay DEF ThreadInv
  <1>15. \A q \in Slots : /\ Making(q)' <=> (Making(q) /\ q # p)
                          /\ Making(q) => q # m
                          /\ Making(q) /\ q # p => loc[q] \in Slots /\ loc[q] # m
    BY <1>1, <1>4, <1>7 DEF ThreadInv, Hatching, Making
  <1>16. Hatching'
    <2>1. \A q \in Slots : Making(q)' => /\ Making(q) /\ pc'[q] = pc[q] /\ loc'[q] = loc[q]
                                         /\ loc[q] \in Slots /\ loc[q] # m
      BY <1>7, <1>15
    <2> QED  BY <1>6, <2>1, HatchStays DEF ThreadInv
  <1>17. Hatched'
    <2>1. \A q \in Slots : Making(q) /\ q # p => Making(q)' /\ loc'[q] = loc[q]
      BY <1>7, <1>15
    <2>2. \A q \in Slots : ptable'[q].state = "EMBRYO" => ptable[q].state = "EMBRYO" /\ q # loc[p]
      BY <1>4, <1>6
    <2> QED  BY <2>1, <2>2 DEF ThreadInv, Hatched
  <1>18. OnlyThreads'  BY <1>1, <1>3, <1>6, <1>7 DEF ThreadInv, OnlyThreads
  <1>19. Joining'  BY <1>3, <1>6, <1>7 DEF ThreadInv, Joining
  <1>20. Sleepers'  BY <1>2, <1>4, <1>6, <1>7 DEF ThreadInv, Sleepers
  <1>21. Delivered'  BY <1>1, <1>3, <1>6 DEF ThreadInv, Delivered
  <1>22. NoMissedWakeup'
    <2>1. \A q \in Slots : ptable'[q].state = "SLEEPING" =>
             ptable[q].state = "SLEEPING" /\ pc'[q] = pc[q] /\ loc'[q] = loc[q]
      BY <1>2, <1>4, <1>6, <1>7
    <2>2. \A q \in Slots : ptable'[q].state = "ZOMBIE" => ptable[q].state = "ZOMBIE"
      BY <1>6
    <2> QED  BY <1>6, <2>1, <2>2 DEF ThreadInv, NoMissedWakeup
  <1>23. StacksHeld'  BY <1>4, <1>6 DEF ThreadInv, StacksHeld
  <1> QED  BY <1>8, <1>9, <1>10, <1>11, <1>12, <1>13, <1>14, <1>16, <1>17, <1>18, <1>19,
              <1>20, <1>21, <1>22, <1>23 DEF ThreadInv

\* The search for a free thread id succeeds: t[] is long enough.
LEMMA FreeTid ==
    ASSUME JoinsOwn, ThreadInv, NEW m \in Slots, m # main, m # initproc, ~ptable[m].isThread
    PROVE  Tids \ ptable[main].t # {}
  <1> DEFINE S == {q \in Slots : ptable[q].isThread}  T == ptable[main].t
             A == Slots \ {initproc}  B == A \ {main}  C == B \ {m}
             f == [q \in S |-> ptable[q].tid]
  <1>1. main \in Slots /\ main # initproc /\ initproc \in Slots  BY MainIs, Constants
  <1>2. S \subseteq C  BY DEF ThreadInv, Threads
  <1>3. IsFiniteSet(Slots) /\ Cardinality(Slots) = NPROC
    BY FS_Interval, ProcConstants DEF Slots
  <1>4. IsFiniteSet(A) /\ Cardinality(A) = NPROC - 1  BY <1>1, <1>3, FS_RemoveElement
  <1>5. IsFiniteSet(B) /\ Cardinality(B) = NPROC - 1 - 1
    <2>1. main \in A  BY <1>1
    <2> QED  BY <1>4, <2>1, FS_RemoveElement
  <1>6. IsFiniteSet(C) /\ Cardinality(C) = NPROC - 1 - 1 - 1
    <2>1. m \in B  OBVIOUS
    <2> QED  BY <1>5, <2>1, FS_RemoveElement
  <1>7. IsFiniteSet(S) /\ Cardinality(S) <= NPROC - 3
    <2>1. IsFiniteSet(S) /\ Cardinality(S) <= Cardinality(C)
      <3> HIDE DEF S, C
      <3> QED  BY <1>2, <1>6, FS_Subset
    <2> QED  BY <1>6, <2>1, FS_CardinalityType, ProcConstants
  <1>8. f \in Surjection(S, T)
    <2>1. \A q \in S : ptable[q].tid \in T  BY DEF ThreadInv, Ids
    <2>2. \A i \in T : \E q \in S : ptable[q].tid = i  BY DEF ThreadInv, Ids
    <2> HIDE DEF S, T
    <2> QED  BY <2>1, <2>2 DEF Surjection
  <1>9. IsFiniteSet(T) /\ Cardinality(T) <= NPROC - 3
    <2>1. IsFiniteSet(T) /\ Cardinality(T) <= Cardinality(S)
      <3> HIDE DEF f, S, T
      <3> QED  BY <1>7, <1>8, FS_Surjection
    <2> QED  BY <1>7, <2>1, FS_CardinalityType, ProcConstants
  <1>10. IsFiniteSet(Tids) /\ Cardinality(Tids) = NTID
    BY FS_Interval, ProcConstants DEF Tids
  <1>11. ASSUME Tids \subseteq T  PROVE FALSE
    <2>1. Cardinality(Tids) <= Cardinality(T)
      <3> HIDE DEF T
      <3> QED  BY <1>9, <1>11, FS_Subset
    <2> QED  BY <1>9, <1>10, <2>1, FS_CardinalityType, ProcConstants DEF JoinsOwn
  <1> QED  BY <1>11

\* The slot becomes a thread of main, with an id no other thread has.
LEMMA ThThreadSetup ==
    ASSUME JoinsOwn, ThreadInv, NEW p \in Slots, ThreadSetup(p)
    PROVE  ThreadInv'
  <1>1. /\ p \in on /\ pc[p] = "thread1" /\ Making(p) /\ p = main
        /\ on' = on /\ loc' = loc /\ gave' = gave /\ got' = got
    BY DEF ThreadSetup, At, Making, ThreadInv, Hatching
  <1>2. ptable[p].state = "RUNNING" /\ Alive(p)  BY <1>1, Executes
  <1>3. ptable \in Table /\ main \in Slots /\ pc \in [Slots -> Steps] /\ p # None
        /\ main # initproc
    BY Shapes, MainIs, Constants
  <1>4. PICK m \in Slots : /\ loc[p] = m /\ ptable[m].state = "EMBRYO" /\ ~ptable[m].isThread
                           /\ ~ptable[m].kstack /\ ptable[m].parent = None
    BY <1>1 DEF ThreadInv, Hatching
  <1>5. m # main /\ m # initproc
    BY <1>1, <1>2, <1>4 DEF ThreadInv, Family, Alive
  <1>6. PICK i \in Tids : i = Min(Tids \ ptable[main].t) /\ i \notin ptable[main].t
    <2>1. Tids \ ptable[main].t # {}  BY <1>4, <1>5, FreeTid
    <2> HIDE DEF main
    <2>2. Min(Tids \ ptable[main].t) \in Tids \ ptable[main].t  BY <2>1, Least, Constants
    <2> QED  BY <2>2
  <1>7. /\ ptable' = [ptable EXCEPT ![m].kstack = TRUE, ![m].parent = main,
                                    ![m].isThread = TRUE, ![m].tid = i,
                                    ![main].t = ptable[main].t \cup {i}]
        /\ pc' = [pc EXCEPT ![main] = "thread2"]
    <2>1. Tids \ ptable[main].t # {}  BY <1>6
    <2> QED  BY <1>1, <1>3, <1>4, <1>6, <2>1 DEF ThreadSetup, Goto, Table
  <1>8. \A r \in Slots :
           /\ ptable'[r].state = ptable[r].state
           /\ ptable'[r].parent = IF r = m THEN main ELSE ptable[r].parent
           /\ ptable'[r].chan = ptable[r].chan
           /\ ptable'[r].killed = ptable[r].killed
           /\ ptable'[r].kstack <=> (r = m \/ ptable[r].kstack)
           /\ ptable'[r].isThread <=> (r = m \/ ptable[r].isThread)
           /\ ptable'[r].tid = IF r = m THEN i ELSE ptable[r].tid
           /\ ptable'[r].t = IF r = main THEN ptable[main].t \cup {i} ELSE ptable[r].t
           /\ ptable'[r].arr_ret = ptable[r].arr_ret
    BY <1>3, <1>5, <1>7 DEF Table, Process
  <1>9. \A q \in Slots : pc'[q] = IF q = main THEN "thread2" ELSE pc[q]
    BY <1>3, <1>7
  <1>10. TypeOK'
    <2>1. ptable[main].t \cup {i} \in SUBSET Tids  BY <1>3 DEF Table, Process
    <2> DEFINE a == GiveStack(ptable, m)  b == SetParent(a, m, main)  c == MakeThread(b, m)
               d == SetTid(c, m, i)  e == SetT(d, main, ptable[main].t \cup {i})
    <2>2. a \in Table /\ b \in Table /\ c \in Table /\ d \in Table
      BY <1>3, GiveStackSet, ParentSet, MakeThreadSet, TidSet
    <2>3. e \in Table
      <3> HIDE DEF d
      <3> QED  BY <2>1, <2>2, TSet
    <2>4. ptable' = e  BY <1>7 DEF SetT, SetTid, MakeThread, SetParent, GiveStack
    <2>5. pc' \in [Slots -> Steps]  BY <1>3, <1>7 DEF Steps
    <2> HIDE DEF e
    <2>6. ptable' \in Table  BY <2>3, <2>4
    <2> QED  BY <1>1, <2>5, <2>6 DEF ThreadInv, TypeOK, Table, Process
  <1>11. OnCpu'  BY <1>1, <1>8 DEF ThreadInv, OnCpu
  <1>12. InCall'  BY <1>1, <1>2, <1>8, <1>9 DEF ThreadInv, InCall, Alive
  <1>13. Family'
    <2>1. \A q \in Slots : Alive(q) <=> Alive(q)'  BY <1>8 DEF Alive
    <2>2. ASSUME NEW q \in Slots, ptable'[q].parent # None
          PROVE  /\ ptable'[ptable'[q].parent].state \in {"RUNNABLE", "RUNNING", "SLEEPING"}
                 /\ ptable'[q].state # "UNUSED"
      <3>1. CASE q = m
        <4>1. ptable'[q].parent = main /\ ptable'[q].state = "EMBRYO"  BY <1>4, <1>8, <3>1
        <4>2. ptable'[main].state = "RUNNING"  BY <1>1, <1>2, <1>8
        <4> QED  BY <4>1, <4>2
      <3>2. CASE q # m
        <4>1. ptable[q].parent # None /\ ptable'[q].parent = ptable[q].parent
          BY <1>8, <2>2, <3>2
        <4>2. ptable[q].parent \in Slots  BY <1>3, <4>1 DEF Table, Process
        <4>3. PICK r \in Slots : r = ptable[q].parent  BY <4>2
        <4>4. Alive(r) /\ ptable[q].state # "UNUSED"  BY <4>1, <4>3 DEF ThreadInv, Family
        <4>5. ptable'[r].state = ptable[r].state /\ ptable'[q].state = ptable[q].state
          BY <1>8
        <4> QED  BY <4>1, <4>3, <4>4, <4>5 DEF Alive
      <3> QED  BY <3>1, <3>2
    <2>3. \A q \in Slots \ {initproc} :
              ptable'[q].state \notin {"UNUSED", "EMBRYO"} => ptable'[q].parent # None
      BY <1>1, <1>3, <1>4, <1>8 DEF ThreadInv, Family
    <2>4. Alive(initproc)' /\ ptable'[initproc].parent = None
      BY <1>5, <1>8, <2>1, Constants DEF ThreadInv, Family
    <2> QED  BY <2>2, <2>3, <2>4 DEF Family, Alive
  <1>14. Tidy'
    <2>1. ~ptable[main].isThread  BY <1>3 DEF ThreadInv, Threads
    <2>2. \A q \in Slots : ptable[q].parent # m
      BY <1>4, Constants DEF ThreadInv, Family, Alive
    <2> QED  BY <1>3, <1>5, <1>8, <2>1, <2>2 DEF ThreadInv, Tidy
  <1>15. pc[m] = "user"  BY <1>4 DEF ThreadInv, InCall, Alive
  <1>16. Threads'
    <2>1. ~ptable[main].isThread  BY <1>3 DEF ThreadInv, Threads
    <2> QED  BY <1>3, <1>4, <1>5, <1>8, <1>9, <1>15, <2>1 DEF ThreadInv, Threads
  <1>17. Ids'
    <2>1. \A q \in Slots : q # main => ptable'[q].t = {}  BY <1>8 DEF ThreadInv, Ids
    <2>2. \A q \in Slots : ptable'[q].isThread => ptable'[q].tid \in ptable'[main].t
      BY <1>3, <1>8 DEF ThreadInv, Ids
    <2>3. ASSUME NEW q \in Slots, NEW r \in Slots, ptable'[q].isThread, ptable'[r].isThread,
                 ptable'[q].tid = ptable'[r].tid
          PROVE  q = r
      <3>1. \A s \in Slots : ptable[s].isThread => ptable[s].tid # i
        BY <1>6 DEF ThreadInv, Ids
      <3>2. q = m <=> r = m  BY <1>8, <2>3, <3>1
      <3> QED  BY <1>8, <2>3, <3>2 DEF ThreadInv, Ids
    <2>4. ASSUME NEW j \in ptable'[main].t
          PROVE  \E q \in Slots : ptable'[q].isThread /\ ptable'[q].tid = j
      <3>1. CASE j = i  BY <1>8, <3>1
      <3>2. CASE j # i
        <4>1. j \in ptable[main].t  BY <1>3, <1>8, <2>4, <3>2
        <4>2. PICK q \in Slots : ptable[q].isThread /\ ptable[q].tid = j
          BY <4>1 DEF ThreadInv, Ids
        <4> QED  BY <1>4, <1>8, <4>2
      <3> QED  BY <3>1, <3>2
    <2> QED  BY <2>1, <2>2, <2>3, <2>4 DEF Ids
  <1>18. \A q \in Slots : /\ Making(q)' <=> Making(q)
                          /\ Making(q) /\ q # main => loc[q] \in Slots /\ loc[q] # m
    BY <1>1, <1>4, <1>9 DEF ThreadInv, Hatching, Making
  <1>19. Hatching'
    <2>1. ASSUME NEW q \in Slots, Making(q)'
          PROVE  /\ loc'[q] \in Slots /\ ptable'[loc'[q]].state = "EMBRYO"
                 /\ pc'[q] \in {"fork1", "thread1"} =>
                       /\ ~ptable'[loc'[q]].kstack /\ ptable'[loc'[q]].parent = None
                       /\ ~ptable'[loc'[q]].isThread
                 /\ pc'[q] \in {"thread2", "start"} =>
                       ptable'[loc'[q]].kstack /\ ptable'[loc'[q]].parent = q
                 /\ pc'[q] \in {"thread1", "thread2"} => q = main
      <3>1. CASE q = main  BY <1>1, <1>4, <1>8, <1>9, <3>1
      <3>2. CASE q # main
        <4>1. loc[q] \in Slots /\ loc[q] # m /\ pc'[q] = pc[q] /\ Making(q)
          BY <1>9, <1>18, <2>1, <3>2
        <4> QED  BY <1>1, <1>8, <4>1 DEF ThreadInv, Hatching
      <3> QED  BY <3>1, <3>2
    <2>2. \A q, r \in Slots : Making(q)' /\ Making(r)' /\ loc'[q] = loc'[r] => q = r
      BY <1>1, <1>18 DEF ThreadInv, Hatching
    <2> QED  BY <2>1, <2>2 DEF Hatching, Making
  <1>20. Hatched'  BY <1>1, <1>8, <1>18 DEF ThreadInv, Hatched
  <1>21. OnlyThreads'
    <2>1. \A q \in Slots : ptable[q].parent = main => ptable[q].isThread
      BY <1>1 DEF ThreadInv, OnlyThreads
    <2> QED  BY <1>3, <1>8, <1>9, <2>1 DEF OnlyThreads
  <1>22. Joining'
    <2>1. \A q \in Slots : pc'[q] = "join" => pc[q] = "join" /\ q # main  BY <1>9
    <2> QED  BY <1>9, <2>1 DEF ThreadInv, Joining
  <1>23. Sleepers'  BY <1>1, <1>2, <1>8, <1>9 DEF ThreadInv, Sleepers
  <1>24. Delivered'  BY <1>1, <1>3, <1>4, <1>8 DEF ThreadInv, Delivered
  <1>25. NoMissedWakeup'  BY <1>1, <1>2, <1>4, <1>8, <1>9 DEF ThreadInv, NoMissedWakeup
  <1>26. StacksHeld'  BY <1>4, <1>8 DEF ThreadInv, StacksHeld
  <1> QED  BY <1>10, <1>11, <1>12, <1>13, <1>14, <1>16, <1>17, <1>19, <1>20, <1>21, <1>22,
              <1>23, <1>24, <1>25, <1>26 DEF ThreadInv

\* wait() returns, having freed the slots in D: one zombie child, or none.
LEMMA Reaps ==
    ASSUME JoinsOwn, ThreadInv, NEW p \in Slots, p \in on, pc[p] \in {"sys", "wait"},
           Return(p), on' = on, gave' = gave, got' = got, NEW D \in SUBSET Slots,
           \A d \in D : ptable[d].state = "ZOMBIE" /\ ~ptable[d].isThread,
           ptable' \in Table,
           \A r \in Slots :
              /\ ptable'[r].state = IF r \in D THEN "UNUSED" ELSE ptable[r].state
              /\ ptable'[r].parent = IF r \in D THEN None ELSE ptable[r].parent
              /\ ptable'[r].chan = IF r = p THEN None ELSE ptable[r].chan
              /\ ptable'[r].killed => ptable[r].killed
              /\ ptable'[r].kstack <=> (r \notin D /\ ptable[r].kstack)
              /\ ptable'[r].isThread = ptable[r].isThread
              /\ ptable'[r].tid = ptable[r].tid
              /\ ptable'[r].t = ptable[r].t
              /\ ptable'[r].arr_ret = ptable[r].arr_ret
    PROVE  ThreadInv'
  <1>1. ptable[p].state = "RUNNING" /\ Alive(p)  BY Executes
  <1>2. /\ main \in Slots /\ pc \in [Slots -> Steps]
        /\ loc \in [Slots -> Slots \cup Tids \cup {None}]
    BY Shapes, MainIs
  <1>3. /\ \A q \in Slots : pc'[q] = IF q = p THEN "user" ELSE pc[q]
        /\ \A q \in Slots : q # p => loc'[q] = loc[q]
        /\ p \notin D /\ initproc \notin D
    BY <1>1, <1>2, Constants DEF Return, Goto, ThreadInv, Family, Alive
  <1>4. TypeOK'
    <2>1. pc' \in [Slots -> Steps] /\ loc' \in [Slots -> Slots \cup Tids \cup {None}]
      BY <1>2 DEF Return, Goto, Steps
    <2> QED  BY <2>1 DEF ThreadInv, TypeOK, Table, Process
  <1>5. OnCpu'
    <2>1. \A r \in Slots : ptable'[r].state = "RUNNING" <=> ptable[r].state = "RUNNING"
      OBVIOUS
    <2> QED  BY <2>1 DEF ThreadInv, OnCpu
  <1>6. InCall'
    <2>1. \A r \in Slots : Alive(r) => Alive(r)'  BY DEF Alive
    <2> QED  BY <1>3, <2>1 DEF ThreadInv, InCall
  <1>7. Family'
    <2>1. \A q \in Slots : Alive(q) => Alive(q)'  BY DEF Alive
    <2>2. \A q \in Slots : /\ ptable'[q].state = "UNUSED" => ptable'[q].parent = None
                           /\ ptable'[q].state \notin {"UNUSED", "EMBRYO"} =>
                                 ptable'[q].parent # None \/ q = initproc
      BY DEF ThreadInv, Family
    <2> QED  BY <2>1, <2>2, KinStays
  <1>8. Tidy'  BY Constants DEF ThreadInv, Tidy
  <1>9. Threads'  BY <1>3 DEF ThreadInv, Threads
  <1>10. Ids'  BY <1>2, IdsStay DEF ThreadInv
  <1>11. \A q \in Slots : /\ Making(q)' <=> Making(q)
                          /\ Making(q) => /\ pc'[q] = pc[q] /\ loc'[q] = loc[q]
                                          /\ loc[q] \in Slots /\ loc[q] \notin D
    BY <1>3 DEF ThreadInv, Hatching, Making
  <1>12. Hatching'  BY <1>11, HatchStays DEF ThreadInv
  <1>13. Hatched'  BY <1>11 DEF ThreadInv, Hatched
  <1>14. OnlyThreads'
    <2>1. \A q \in Slots : ptable'[q].parent = main => ptable[q].parent = main
      BY <1>2, Constants
    <2>2. pc'[main] \in {"thread1", "thread2", "fork1"} => pc'[main] = pc[main]
      BY <1>2, <1>3
    <2> QED  BY <1>2, <2>1, <2>2 DEF ThreadInv, OnlyThreads
  <1>15. Joining'  BY <1>2, <1>3 DEF ThreadInv, Joining
  <1>16. Sleepers'  BY <1>1, <1>3 DEF ThreadInv, Sleepers
  <1>17. Delivered'  BY <1>2 DEF ThreadInv, Delivered
  <1>18. NoMissedWakeup'
    <2>1. \A q \in Slots : ptable'[q].state = "SLEEPING" =>
             ptable[q].state = "SLEEPING" /\ pc'[q] = pc[q] /\ loc'[q] = loc[q]
      BY <1>1, <1>3
    <2>2. \A q, r \in Slots : ptable'[q].state = "ZOMBIE" /\ ptable'[q].parent = r =>
             ptable[q].state = "ZOMBIE" /\ ptable[q].parent = r
      OBVIOUS
    <2> QED  BY <2>1, <2>2 DEF ThreadInv, NoMissedWakeup
  <1>19. StacksHeld'  BY DEF ThreadInv, StacksHeld
  <1> QED  BY <1>4, <1>5, <1>6, <1>7, <1>8, <1>9, <1>10, <1>12, <1>13, <1>14, <1>15, <1>16,
              <1>17, <1>18, <1>19 DEF ThreadInv

\* A process goes to sleep in wait() or in thread_join: nothing it waits for
\* has happened yet.
LEMMA Sleeps ==
    ASSUME JoinsOwn, ThreadInv, NEW p \in Slots, p \in on, NEW s \in {"wait", "join"},
           pc[p] \in {"sys", s}, ~ptable[p].isThread, Sleep(p, s), gave' = gave, got' = got,
           loc' \in [Slots -> Slots \cup Tids \cup {None}],
           \A q \in Slots : q # p => loc'[q] = loc[q],
           s = "join" => p = main /\ loc'[p] \in ptable[main].t,
           \A q \in Slots : ptable[q].parent = p /\ ptable[q].state = "ZOMBIE" =>
              /\ s = "wait" => ptable[q].isThread
              /\ s = "join" => ~(ptable[q].isThread /\ ptable[q].tid = loc'[p])
    PROVE  ThreadInv'
  <1>1. ptable[p].state = "RUNNING" /\ Alive(p)  BY Executes
  <1>2. ptable \in Table /\ main \in Slots /\ pc \in [Slots -> Steps]  BY Shapes, MainIs
  <1>3. /\ ptable' = [ptable EXCEPT ![p].state = "SLEEPING", ![p].chan = p]
        /\ on' = on \ {p} /\ pc' = [pc EXCEPT ![p] = s]
    BY DEF Sleep, Goto
  <1>4. \A q \in Slots : pc'[q] = IF q = p THEN s ELSE pc[q]  BY <1>2, <1>3
  <1>5. \A r \in Slots :
           /\ ptable'[r].state = IF r = p THEN "SLEEPING" ELSE ptable[r].state
           /\ ptable'[r].parent = ptable[r].parent
           /\ ptable'[r].chan = IF r = p THEN p ELSE ptable[r].chan
           /\ ptable'[r].killed = ptable[r].killed
           /\ ptable'[r].kstack = ptable[r].kstack
           /\ ptable'[r].isThread = ptable[r].isThread
           /\ ptable'[r].tid = ptable[r].tid
           /\ ptable'[r].t = ptable[r].t
           /\ ptable'[r].arr_ret = ptable[r].arr_ret
    BY <1>2, <1>3 DEF Table, Process
  <1>6. TypeOK'
    <2>1. SetState(ptable, p, "SLEEPING") \in Table  BY <1>2, StateSet DEF States
    <2>2. SetChan(SetState(ptable, p, "SLEEPING"), p, p) \in Table  BY <2>1, ChanSet
    <2>3. ptable' = SetChan(SetState(ptable, p, "SLEEPING"), p, p)
      BY <1>3 DEF SetChan, SetState
    <2>4. pc' \in [Slots -> Steps] /\ on' \subseteq Slots
      BY <1>2, <1>3, Shapes DEF Steps
    <2>5. ptable' \in Table  BY <2>2, <2>3
    <2> QED  BY <2>4, <2>5 DEF ThreadInv, TypeOK, Table, Process
  <1>7. OnCpu'
    <2>1. \A r \in Slots : ptable'[r].state = "RUNNING" <=> r # p /\ ptable[r].state = "RUNNING"
      BY <1>5
    <2> QED  BY <1>3, <2>1 DEF ThreadInv, OnCpu
  <1>8. InCall'  BY <1>4, <1>5 DEF ThreadInv, InCall, Alive
  <1>9. Family'
    <2>1. \A q \in Slots : Alive(q) => Alive(q)'  BY <1>5 DEF Alive
    <2>2. \A q \in Slots : /\ ptable'[q].state = "UNUSED" => ptable'[q].parent = None
                           /\ ptable'[q].state \notin {"UNUSED", "EMBRYO"} =>
                                 ptable'[q].parent # None \/ q = initproc
      BY <1>1, <1>5 DEF ThreadInv, Family
    <2> QED  BY <1>5, <2>1, <2>2, KinStays
  <1>10. Tidy'  BY <1>5 DEF ThreadInv, Tidy
  <1>11. Threads'  BY <1>4, <1>5 DEF ThreadInv, Threads
  <1>12. Ids'  BY <1>2, <1>5, IdsStay DEF ThreadInv
  <1>13. \A q \in Slots : /\ Making(q)' <=> Making(q)
                          /\ Making(q) => /\ pc'[q] = pc[q] /\ loc'[q] = loc[q]
                                          /\ loc[q] \in Slots /\ loc[q] # p
    BY <1>1, <1>4 DEF ThreadInv, Hatching, Making
  <1>14. Hatching'  BY <1>5, <1>13, HatchStays DEF ThreadInv
  <1>15. Hatched'  BY <1>1, <1>5, <1>13 DEF ThreadInv, Hatched
  <1>16. OnlyThreads'  BY <1>2, <1>4, <1>5 DEF ThreadInv, OnlyThreads
  <1>17. Joining'
    <2>1. \A q \in Slots : q # p => pc'[q] = pc[q] /\ loc'[q] = loc[q]  BY <1>4
    <2>2. ptable'[main].t = ptable[main].t  BY <1>2, <1>5
    <2>3. pc'[p] = s  BY <1>4
    <2> QED  BY <2>1, <2>2, <2>3 DEF ThreadInv, Joining
  <1>18. Sleepers'  BY <1>4, <1>5 DEF ThreadInv, Sleepers
  <1>19. Delivered'  BY <1>2, <1>5 DEF ThreadInv, Delivered
  <1>20. NoMissedWakeup'
    <2> SUFFICES ASSUME NEW q \in Slots, NEW r \in Slots, ptable'[q].state = "SLEEPING",
                        ptable'[r].parent = q, ptable'[r].state = "ZOMBIE"
                 PROVE  /\ pc'[q] = "wait" => ptable'[r].isThread
                        /\ pc'[q] = "join" =>
                              ~(ptable'[r].isThread /\ ptable'[r].tid = loc'[q])
      BY DEF NoMissedWakeup
    <2>1. r # p /\ ptable[r].parent = q /\ ptable[r].state = "ZOMBIE"  BY <1>5
    <2>2. CASE q = p  BY <1>4, <1>5, <2>1, <2>2
    <2>3. CASE q # p
      <3>1. ptable[q].state = "SLEEPING" /\ pc'[q] = pc[q] /\ loc'[q] = loc[q]
        BY <1>4, <1>5, <2>3
      <3> QED  BY <1>5, <2>1, <3>1 DEF ThreadInv, NoMissedWakeup
    <2> QED  BY <2>2, <2>3
  <1>21. StacksHeld'  BY <1>1, <1>5 DEF ThreadInv, StacksHeld
  <1> QED  BY <1>6, <1>7, <1>8, <1>9, <1>10, <1>11, <1>12, <1>14, <1>15, <1>16, <1>17, <1>18,
              <1>19, <1>20, <1>21 DEF ThreadInv

\* wait() never takes a thread.
LEMMA ThWaitScan ==
    ASSUME JoinsOwn, ThreadInv, NEW p \in Slots, WaitScan(p)
    PROVE  ThreadInv'
  <1> DEFINE kids == {q \in Slots : ptable[q].parent = p}
             dead == {q \in kids : ptable[q].state = "ZOMBIE" /\ ~ptable[q].isThread}
  <1>1. /\ p \in on /\ pc[p] \in {"sys", "wait"} /\ gave' = gave /\ got' = got
        /\ ~ptable[p].isThread
    BY DEF WaitScan, Makes, At, JoinsOwn, ThreadInv, Threads
  <1>2. /\ ptable \in Table /\ loc \in [Slots -> Slots \cup Tids \cup {None}]
        /\ None \in Slots \cup {None} /\ ptable[p].state = "RUNNING"
    BY <1>1, Shapes, Executes
  <1>3. ASSUME NEW d \in dead, ptable' = SetChan(Release(ptable, d), p, None),
               Return(p), on' = on
        PROVE  ThreadInv'
    <2>1. \A r \in Slots :
             /\ ptable'[r].state = IF r \in {d} THEN "UNUSED" ELSE ptable[r].state
             /\ ptable'[r].parent = IF r \in {d} THEN None ELSE ptable[r].parent
             /\ ptable'[r].chan = IF r = p THEN None ELSE ptable[r].chan
             /\ ptable'[r].killed => ptable[r].killed
             /\ ptable'[r].kstack <=> (r \notin {d} /\ ptable[r].kstack)
             /\ ptable'[r].isThread = ptable[r].isThread
             /\ ptable'[r].tid = ptable[r].tid
             /\ ptable'[r].t = ptable[r].t
             /\ ptable'[r].arr_ret = ptable[r].arr_ret
      <3>1. d # p /\ d \in Slots  BY <1>2
      <3>2. \A r \in Slots : ptable[r] \in Process  BY <1>2 DEF Table
      <3>3. \A r \in Slots : ptable'[r] = IF r = d THEN Freed(ptable[d])
                                    ELSE IF r = p THEN [ptable[p] EXCEPT !.chan = None]
                                    ELSE ptable[r]
        BY <1>2, <1>3, <3>1 DEF SetChan, Release, Table
      <3>4. /\ ptable'[d].state = "UNUSED" /\ ptable'[d].parent = None
            /\ ptable'[d].chan = ptable[d].chan /\ ~ptable'[d].killed /\ ~ptable'[d].kstack
            /\ ptable'[d].isThread = ptable[d].isThread /\ ptable'[d].tid = ptable[d].tid
            /\ ptable'[d].t = ptable[d].t /\ ptable'[d].arr_ret = ptable[d].arr_ret
        <4>1. ptable'[d] = Freed(ptable[d]) /\ ptable[d] \in Process  BY <3>1, <3>2, <3>3
        <4> HIDE DEF dead
        <4> QED  BY <4>1 DEF Freed, Process
      <3>5. /\ ptable'[p].state = ptable[p].state /\ ptable'[p].parent = ptable[p].parent
            /\ ptable'[p].chan = None /\ ptable'[p].killed = ptable[p].killed
            /\ ptable'[p].kstack = ptable[p].kstack
            /\ ptable'[p].isThread = ptable[p].isThread /\ ptable'[p].tid = ptable[p].tid
            /\ ptable'[p].t = ptable[p].t /\ ptable'[p].arr_ret = ptable[p].arr_ret
        BY <3>1, <3>2, <3>3 DEF Process
      <3>6. \A r \in Slots : r # d /\ r # p => ptable'[r] = ptable[r]  BY <3>3
      <3> HIDE DEF dead
      <3> QED  BY <3>1, <3>4, <3>5, <3>6
    <2>2. Release(ptable, d) \in Table  BY <1>2, Released
    <2>3. SetChan(Release(ptable, d), p, None) \in Table  BY <1>2, <2>2, ChanSet
    <2>4. ptable' \in Table  BY <1>3, <2>3
    <2>5. {d} \in SUBSET Slots /\ \A e \in {d} : ptable[e].state = "ZOMBIE" /\ ~ptable[e].isThread
      OBVIOUS
    <2> HIDE DEF dead
    <2> QED  BY <1>1, <1>3, <2>1, <2>4, <2>5, Reaps
  <1>4. ASSUME ptable' = SetChan(ptable, p, None), Return(p), on' = on
        PROVE  ThreadInv'
    <2>1. \A r \in Slots :
             /\ ptable'[r].state = IF r \in {} THEN "UNUSED" ELSE ptable[r].state
             /\ ptable'[r].parent = IF r \in {} THEN None ELSE ptable[r].parent
             /\ ptable'[r].chan = IF r = p THEN None ELSE ptable[r].chan
             /\ ptable'[r].killed => ptable[r].killed
             /\ ptable'[r].kstack <=> (r \notin {} /\ ptable[r].kstack)
             /\ ptable'[r].isThread = ptable[r].isThread
             /\ ptable'[r].tid = ptable[r].tid
             /\ ptable'[r].t = ptable[r].t
             /\ ptable'[r].arr_ret = ptable[r].arr_ret
      BY <1>2, <1>4 DEF SetChan, Table, Process
    <2>2. SetChan(ptable, p, None) \in Table  BY <1>2, ChanSet
    <2>3. ptable' \in Table  BY <1>4, <2>2
    <2>4. {} \in SUBSET Slots /\ \A e \in {} : ptable[e].state = "ZOMBIE" /\ ~ptable[e].isThread
      OBVIOUS
    <2> QED  BY <1>1, <1>4, <2>1, <2>3, <2>4, Reaps
  <1>5. ASSUME dead = {}, ptable' = SetChan(SetState(ptable, p, "SLEEPING"), p, p),
               on' = on \ {p}, Goto(p, "wait"), loc' = loc
        PROVE  ThreadInv'
    <2>1. Sleep(p, "wait")
      BY <1>2, <1>5 DEF Sleep, SetChan, SetState, Table
    <2>2. \A q \in Slots : ptable[q].parent = p /\ ptable[q].state = "ZOMBIE" => ptable[q].isThread
      BY <1>5
    <2> HIDE DEF dead
    <2> QED  BY <1>1, <1>2, <1>5, <2>1, <2>2, Sleeps
  <1> QED  BY <1>3, <1>4, <1>5, WaitTable

\* What thread_join finds: its caller is main, and the slots it may take are
\* the threads of main, one of which has the id that is joined.
LEMMA JoinFinds ==
    ASSUME JoinsOwn, ThreadInv, NEW p \in Slots, NEW thread \in Tids, JoinScan(p, thread)
    PROVE  /\ p = main /\ thread \in ptable[main].t /\ p \in on /\ pc[p] \in {"sys", "join"}
           /\ Joinable(p) = {q \in Slots : ptable[q].isThread}
           /\ \E q \in Joinable(p) : ptable[q].tid = thread
           /\ ~ptable[p].killed /\ ~ptable[p].isThread
  <1>1. main \in Slots  BY MainIs
  <1>2. thread \in ptable[p].t /\ p \in on /\ pc[p] \in {"sys", "join"}
    BY DEF JoinScan, Makes, At, JoinsOwn, ThreadInv, Joining
  <1>3. p = main  BY <1>2 DEF ThreadInv, Ids
  <1>4. Joinable(p) = {q \in Slots : ptable[q].isThread}
    BY <1>2, <1>3 DEF Joinable, ThreadInv, OnlyThreads
  <1>5. \E q \in Slots : ptable[q].isThread /\ ptable[q].tid = thread
    BY <1>2, <1>3 DEF ThreadInv, Ids
  <1>6. ~ptable[p].killed /\ ~ptable[p].isThread
    BY <1>1, <1>3 DEF ThreadInv, Tidy, Threads
  <1> QED  BY <1>2, <1>3, <1>4, <1>5, <1>6

\* thread_join frees the exited thread of that id and returns its value, or
\* sleeps.
LEMMA JoinTable ==
    ASSUME JoinsOwn, ThreadInv, NEW p \in Slots, NEW thread \in Tids, JoinScan(p, thread)
    PROVE  LET dead == {q \in Slots : /\ ptable[q].isThread /\ ptable[q].state = "ZOMBIE"
                                      /\ ptable[q].tid = thread}
           IN  \/ /\ \E d \in dead :
                        ptable' = SetChan(SetT(SetTid(NoThread(Release(ptable, d), d), d, 0),
                                               main, ptable[main].t \ {thread}), main, None)
                  /\ got' = [got EXCEPT ![main] = ptable[main].arr_ret[thread]]
                  /\ Return(main) /\ on' = on
               \/ /\ dead = {} /\ Sleep(main, "join") /\ got' = got
                  /\ loc' = [loc EXCEPT ![main] = thread]
  <1> DEFINE dead == {q \in Slots : /\ ptable[q].isThread /\ ptable[q].state = "ZOMBIE"
                                    /\ ptable[q].tid = thread}
             gone == {q \in Joinable(p) : ptable[q].state = "ZOMBIE" /\ ptable[q].tid = thread}
  <1>1. /\ p = main /\ thread \in ptable[main].t /\ ~ptable[p].killed
        /\ Joinable(p) # {} /\ Joinable(p) = {q \in Slots : ptable[q].isThread}
    BY JoinFinds
  <1>2. gone = dead  BY <1>1
  <1>3. CASE dead # {}
    <2>1. PICK d \in dead : d = Min(gone)  BY <1>2, <1>3, Least, Constants
    <2>2. /\ got' = [got EXCEPT ![p] = ptable[p].arr_ret[thread]] /\ Return(p) /\ on' = on
          /\ LET r == Freed(ptable[d])
             IN ptable' = [ptable EXCEPT ![d] = [r EXCEPT !.isThread = FALSE, !.tid = 0],
                                         ![p].t = @ \ {thread}, ![p].chan = None]
      BY <1>2, <1>3, <2>1 DEF JoinScan
    <2>3. d \in Slots /\ d # main /\ main \in Slots
      BY MainIs DEF ThreadInv, Threads
    <2>4. ptable \in Table  BY Shapes
    <2> DEFINE x == SetChan(SetT(SetTid(NoThread(Release(ptable, d), d), d, 0),
                                 main, ptable[main].t \ {thread}), main, None)
    <2>5. ptable' = x
      <3>1. \A r \in Slots : ptable'[r] = x[r]
        BY <1>1, <2>2, <2>3, <2>4
           DEF SetChan, SetT, SetTid, NoThread, Release, Table
      <3>2. DOMAIN ptable' = Slots /\ DOMAIN x = Slots
        BY <1>1, <2>2, <2>4 DEF SetChan, SetT, SetTid, NoThread, Release, Table
      <3>3. ptable' = [r \in Slots |-> ptable'[r]]  BY <2>2, <2>4 DEF Table
      <3>4. x = [r \in Slots |-> x[r]]
        BY <2>4 DEF SetChan, SetT, SetTid, NoThread, Release, Table
      <3> HIDE DEF x
      <3> QED  BY <3>1, <3>3, <3>4
    <2> QED  BY <1>1, <2>1, <2>2, <2>5
  <1>4. CASE dead = {}
    <2>1. gone = {} /\ Joinable(p) # {} /\ ~ptable[p].killed  BY <1>1, <1>2, <1>4
    <2> QED  BY <1>1, <1>4, <2>1 DEF JoinScan
  <1> QED  BY <1>3, <1>4

\* thread_join reaps a thread of main and takes its id off main's list, or
\* goes to sleep.
LEMMA ThJoinScan ==
    ASSUME JoinsOwn, ThreadInv, NEW p \in Slots, NEW thread \in Tids, JoinScan(p, thread)
    PROVE  ThreadInv'
  <1> DEFINE dead == {q \in Slots : /\ ptable[q].isThread /\ ptable[q].state = "ZOMBIE"
                                    /\ ptable[q].tid = thread}
  <1>1. /\ p = main /\ thread \in ptable[main].t /\ main \in on /\ pc[main] \in {"sys", "join"}
        /\ ~ptable[main].isThread /\ gave' = gave
    BY JoinFinds DEF JoinScan
  <1>2. /\ ptable \in Table /\ main \in Slots /\ pc \in [Slots -> Steps]
        /\ loc \in [Slots -> Slots \cup Tids \cup {None}]
        /\ got \in [Slots -> Values \cup {NoValue}]
    BY Shapes, MainIs
  <1>3. ptable[main].state = "RUNNING" /\ Alive(main)  BY <1>1, <1>2, Executes
  <1>4. ASSUME NEW d \in dead,
               ptable' = SetChan(SetT(SetTid(NoThread(Release(ptable, d), d), d, 0),
                                      main, ptable[main].t \ {thread}), main, None),
               got' = [got EXCEPT ![main] = ptable[main].arr_ret[thread]],
               Return(main), on' = on
        PROVE  ThreadInv'
    <2>1. /\ d \in Slots /\ d # main /\ d # initproc /\ ptable[d].isThread
          /\ ptable[d].state = "ZOMBIE" /\ ptable[d].tid = thread
      BY DEF ThreadInv, Threads
    <2> DEFINE a == Release(ptable, d)  b == NoThread(a, d)  c == SetTid(b, d, 0)
               e == SetT(c, main, ptable[main].t \ {thread})  f == SetChan(e, main, None)
    <2>2. ptable' \in Table
      <3>1. a \in Table /\ b \in Table  BY <1>2, <2>1, Released, NoThreadSet
      <3>2. 0 \in Tids  BY ProcConstants DEF Tids
      <3>3. c \in Table
        <4> HIDE DEF b
        <4> QED  BY <2>1, <3>1, <3>2, TidSet
      <3>4. ptable[main].t \ {thread} \in SUBSET Tids  BY <1>2 DEF Table, Process
      <3>5. e \in Table
        <4> HIDE DEF c
        <4> QED  BY <1>2, <3>3, <3>4, TSet
      <3>6. f \in Table
        <4> HIDE DEF e
        <4> QED  BY <1>2, <3>5, ChanSet
      <3>7. ptable' = f  BY <1>4
      <3> HIDE DEF f
      <3> QED  BY <3>6, <3>7
    <2>3. \A r \in Slots :
             /\ ptable'[r].state = IF r = d THEN "UNUSED" ELSE ptable[r].state
             /\ ptable'[r].parent = IF r = d THEN None ELSE ptable[r].parent
             /\ ptable'[r].chan = IF r = main THEN None ELSE ptable[r].chan
             /\ ptable'[r].killed => ptable[r].killed
             /\ ptable'[r].kstack <=> (r # d /\ ptable[r].kstack)
             /\ ptable'[r].isThread <=> (r # d /\ ptable[r].isThread)
             /\ r # d => ptable'[r].tid = ptable[r].tid
             /\ ptable'[r].t = IF r = main THEN ptable[main].t \ {thread} ELSE ptable[r].t
             /\ ptable'[r].arr_ret = ptable[r].arr_ret
      <3>1. \A r \in Slots : ptable[r] \in Process  BY <1>2 DEF Table
      <3>2. /\ ptable'[d] = [[Freed(ptable[d]) EXCEPT !.isThread = FALSE] EXCEPT !.tid = 0]
            /\ ptable'[main] = [[ptable[main] EXCEPT !.t = ptable[main].t \ {thread}]
                                EXCEPT !.chan = None]
            /\ \A r \in Slots : r # d /\ r # main => ptable'[r] = ptable[r]
        BY <1>2, <1>4, <2>1 DEF SetChan, SetT, SetTid, NoThread, Release, Table
      <3>3. /\ ptable'[d].state = "UNUSED" /\ ptable'[d].parent = None
            /\ ptable'[d].chan = ptable[d].chan /\ ~ptable'[d].killed /\ ~ptable'[d].kstack
            /\ ~ptable'[d].isThread
            /\ ptable'[d].t = ptable[d].t /\ ptable'[d].arr_ret = ptable[d].arr_ret
        <4>1. ptable[d] \in Process  BY <2>1, <3>1
        <4> HIDE DEF dead
        <4> QED  BY <3>2, <4>1 DEF Freed, Process
      <3>4. /\ ptable'[main].state = ptable[main].state
            /\ ptable'[main].parent = ptable[main].parent
            /\ ptable'[main].chan = None /\ ptable'[main].killed = ptable[main].killed
            /\ ptable'[main].kstack = ptable[main].kstack
            /\ ptable'[main].isThread = ptable[main].isThread
            /\ ptable'[main].tid = ptable[main].tid
            /\ ptable'[main].t = ptable[main].t \ {thread}
            /\ ptable'[main].arr_ret = ptable[main].arr_ret
        BY <1>2, <3>1, <3>2 DEF Process
      <3> HIDE DEF dead
      <3> QED  BY <1>2, <2>1, <3>2, <3>3, <3>4
    <2> HIDE DEF dead
    <2>4. /\ \A q \in Slots : pc'[q] = IF q = main THEN "user" ELSE pc[q]
          /\ \A q \in Slots : q # main => loc'[q] = loc[q]
      BY <1>2, <1>4 DEF Return, Goto
    <2>5. TypeOK'
      <3>1. pc' \in [Slots -> Steps] /\ loc' \in [Slots -> Slots \cup Tids \cup {None}]
        BY <1>2, <1>4 DEF Return, Goto, Steps
      <3>2. ptable[main].arr_ret[thread] \in Values \cup {NoValue}
        BY <1>2 DEF Table, Process
      <3>3. got' \in [Slots -> Values \cup {NoValue}]  BY <1>2, <1>4, <3>2
      <3> QED  BY <1>1, <1>4, <2>2, <3>1, <3>3 DEF ThreadInv, TypeOK, Table, Process
    <2>6. OnCpu'
      <3>1. \A r \in Slots : ptable'[r].state = "RUNNING" <=> ptable[r].state = "RUNNING"
        BY <2>1, <2>3
      <3> QED  BY <1>4, <3>1 DEF ThreadInv, OnCpu
    <2>7. \A r \in Slots : Alive(r) => Alive(r)'  BY <2>1, <2>3 DEF Alive
    <2>8. InCall'  BY <2>4, <2>7 DEF ThreadInv, InCall
    <2>9. Family'
      <3>1. \A q \in Slots : /\ ptable'[q].state = "UNUSED" => ptable'[q].parent = None
                             /\ ptable'[q].state \notin {"UNUSED", "EMBRYO"} =>
                                   ptable'[q].parent # None \/ q = initproc
        BY <2>3 DEF ThreadInv, Family
      <3> QED  BY <2>3, <2>7, <3>1, KinStays
    <2>10. Tidy'  BY <2>3, Constants DEF ThreadInv, Tidy
    <2>11. Threads'  BY <2>3, <2>4 DEF ThreadInv, Threads
    <2>12. Ids'
      <3>1. \A q \in Slots : q # main => ptable'[q].t = {}  BY <2>3 DEF ThreadInv, Ids
      <3>2. \A q \in Slots : ptable'[q].isThread => ptable'[q].tid \in ptable'[main].t
        BY <1>2, <2>1, <2>3 DEF ThreadInv, Ids
      <3>3. \A q, r \in Slots : /\ ptable'[q].isThread /\ ptable'[r].isThread
                                /\ ptable'[q].tid = ptable'[r].tid
                                => q = r
        BY <2>3 DEF ThreadInv, Ids
      <3>4. ASSUME NEW i \in ptable'[main].t
            PROVE  \E q \in Slots : ptable'[q].isThread /\ ptable'[q].tid = i
        <4>1. i \in ptable[main].t /\ i # thread  BY <1>2, <2>3
        <4>2. PICK q \in Slots : ptable[q].isThread /\ ptable[q].tid = i
          BY <4>1 DEF ThreadInv, Ids
        <4> QED  BY <2>1, <2>3, <4>1, <4>2
      <3> QED  BY <3>1, <3>2, <3>3, <3>4 DEF Ids
    <2>13. \A q \in Slots : /\ Making(q)' <=> Making(q)
                            /\ Making(q) => /\ pc'[q] = pc[q] /\ loc'[q] = loc[q]
                                            /\ loc[q] \in Slots /\ loc[q] # d
      BY <1>1, <2>1, <2>4 DEF ThreadInv, Hatching, Making
    <2>14. Hatching'  BY <2>3, <2>13, HatchStays DEF ThreadInv
    <2>15. Hatched'  BY <2>3, <2>13 DEF ThreadInv, Hatched
    <2>16. OnlyThreads'
      <3>1. ptable[main].t # {}  BY <1>1
      <3>2. \A q \in Slots : ptable[q].parent = main => ptable[q].isThread
        BY <3>1 DEF ThreadInv, OnlyThreads
      <3>3. \A q \in Slots : ptable'[q].parent = main => q # d /\ ptable[q].parent = main
        BY <1>2, <2>3, Constants
      <3>4. pc'[main] = "user"  BY <1>2, <2>4
      <3> QED  BY <2>3, <3>2, <3>3, <3>4 DEF OnlyThreads
    <2>17. Joining'
      <3>1. \A q \in Slots : pc'[q] # "user" => q # main /\ pc'[q] = pc[q]  BY <2>4
      <3>2. \A q \in Slots : pc'[q] # "join"  BY <3>1 DEF ThreadInv, Joining
      <3> QED  BY <3>1, <3>2 DEF ThreadInv, Joining
    <2>18. Sleepers'  BY <1>3, <2>3, <2>4 DEF ThreadInv, Sleepers
    <2>19. Delivered'
      <3>1. \A q \in Slots : ptable'[q].isThread /\ ptable'[q].state = "ZOMBIE" =>
               ptable[q].isThread /\ ptable[q].state = "ZOMBIE" /\ ptable'[q].tid = ptable[q].tid
        BY <2>3
      <3>2. ptable'[main].arr_ret = ptable[main].arr_ret  BY <1>2, <2>3
      <3> QED  BY <1>1, <3>1, <3>2 DEF ThreadInv, Delivered
    <2>20. NoMissedWakeup'
      <3>1. \A q \in Slots : ptable'[q].state = "SLEEPING" =>
               ptable[q].state = "SLEEPING" /\ pc'[q] = pc[q] /\ loc'[q] = loc[q]
        BY <1>3, <2>3, <2>4
      <3>2. \A q, r \in Slots : ptable'[q].state = "ZOMBIE" /\ ptable'[q].parent = r =>
               /\ ptable[q].state = "ZOMBIE" /\ ptable[q].parent = r
               /\ ptable'[q].isThread <=> ptable[q].isThread
               /\ ptable'[q].tid = ptable[q].tid
        BY <2>3
      <3> QED  BY <3>1, <3>2 DEF ThreadInv, NoMissedWakeup
    <2>21. StacksHeld'  BY <2>3 DEF ThreadInv, StacksHeld
    <2> QED  BY <2>5, <2>6, <2>8, <2>9, <2>10, <2>11, <2>12, <2>14, <2>15, <2>16, <2>17, <2>18,
                <2>19, <2>20, <2>21 DEF ThreadInv
  <1>5. ASSUME dead = {}, Sleep(main, "join"), got' = got, loc' = [loc EXCEPT ![main] = thread]
        PROVE  ThreadInv'
    <2>1. /\ loc' \in [Slots -> Slots \cup Tids \cup {None}] /\ loc'[main] = thread
          /\ \A q \in Slots : q # main => loc'[q] = loc[q]
      BY <1>2, <1>5
    <2>2. \A q \in Slots : ptable[q].parent = main /\ ptable[q].state = "ZOMBIE" =>
             ~(ptable[q].isThread /\ ptable[q].tid = thread)
      BY <1>5
    <2> HIDE DEF dead
    <2> DEFINE s == "join"
    <2>3. /\ s \in {"wait", "join"} /\ pc[main] \in {"sys", s} /\ Sleep(main, s)
          /\ s = "join" => main = main /\ loc'[main] \in ptable[main].t
          /\ \A q \in Slots : ptable[q].parent = main /\ ptable[q].state = "ZOMBIE" =>
                /\ s = "wait" => ptable[q].isThread
                /\ s = "join" => ~(ptable[q].isThread /\ ptable[q].tid = loc'[main])
      BY <1>1, <1>5, <2>1, <2>2
    <2> HIDE DEF s
    <2> QED  BY <1>1, <1>2, <1>5, <2>1, <2>3, Sleeps
  <1>6. \/ /\ \E d \in dead :
                 ptable' = SetChan(SetT(SetTid(NoThread(Release(ptable, d), d), d, 0),
                                        main, ptable[main].t \ {thread}), main, None)
           /\ got' = [got EXCEPT ![main] = ptable[main].arr_ret[thread]]
           /\ Return(main) /\ on' = on
        \/ /\ dead = {} /\ Sleep(main, "join") /\ got' = got
           /\ loc' = [loc EXCEPT ![main] = thread]
    BY JoinTable
  <1> HIDE DEF dead
  <1> QED  BY <1>4, <1>5, <1>6

\* thread_exit leaves its value with main and wakes it.
LEMMA ThThreadExit ==
    ASSUME JoinsOwn, ThreadInv, NEW p \in Slots, NEW v \in Values, ThreadExit(p, v)
    PROVE  ThreadInv'
  <1>1. /\ p \in on /\ pc[p] = "sys" /\ Return(p) /\ on' = on \ {p}
        /\ gave' = [gave EXCEPT ![p] = v] /\ got' = got /\ ptable[p].isThread
    BY DEF ThreadExit, Makes, At, JoinsOwn
  <1>2. /\ ptable \in Table /\ main \in Slots /\ pc \in [Slots -> Steps]
        /\ loc \in [Slots -> Slots \cup Tids \cup {None}]
        /\ gave \in [Slots -> Values \cup {NoValue}]
    BY Shapes, MainIs
  <1>3. ptable[p].state = "RUNNING" /\ Alive(p)  BY <1>1, Executes
  <1>4. p # main /\ p # initproc /\ ptable[p].parent = main
    BY <1>1 DEF ThreadInv, Threads
  <1>5. PICK i \in Tids : i = ptable[p].tid  BY <1>2 DEF Table, Process
  <1> DEFINE w == wakeup1(ptable, main)  a == SetRet(w, main, i, v)
  <1>6. ptable' = SetState(a, p, "ZOMBIE")
    <2>1. ptable' = [w EXCEPT ![main].arr_ret[i] = v, ![p].state = "ZOMBIE"]
      BY <1>4, <1>5 DEF ThreadExit
    <2> HIDE DEF w
    <2> QED  BY <2>1 DEF SetState, SetRet
  <1>7. w \in Table  BY <1>2, WokenUp
  <1>8. \A r \in Slots : w[r].tid = ptable[r].tid /\ w[r].arr_ret = ptable[r].arr_ret
    BY <1>2 DEF wakeup1, Table, Process
  <1>9. \A r \in Slots :
           /\ w[r].state = IF ptable[r].state = "SLEEPING" /\ ptable[r].chan = main
                           THEN "RUNNABLE" ELSE ptable[r].state
           /\ w[r].parent = ptable[r].parent /\ w[r].chan = ptable[r].chan
           /\ w[r].killed = ptable[r].killed /\ w[r].kstack = ptable[r].kstack
           /\ w[r].isThread = ptable[r].isThread /\ w[r].t = ptable[r].t
    BY <1>2, WokenUp
  <1> HIDE DEF w
  <1>10. a \in Table  BY <1>7, RetSet
  <1>11. \A r \in Slots :
            /\ a[r].state = w[r].state /\ a[r].parent = w[r].parent
            /\ a[r].chan = w[r].chan /\ a[r].killed = w[r].killed
            /\ a[r].kstack = w[r].kstack /\ a[r].isThread = w[r].isThread
            /\ a[r].t = w[r].t
    BY <1>7, RetSet
  <1>12. \A r \in Slots :
            /\ a[r].tid = w[r].tid
            /\ a[r].arr_ret = IF r = main THEN [w[main].arr_ret EXCEPT ![i] = v]
                                          ELSE w[r].arr_ret
    BY <1>2, <1>7 DEF SetRet, Table, Process
  <1> HIDE DEF a
  <1>13. SetState(a, p, "ZOMBIE") \in Table  BY <1>10, StateSet DEF States
  <1>14. ptable' \in Table  BY <1>6, <1>13
  <1>15. \A r \in Slots :
            /\ ptable'[r].state = IF r = p THEN "ZOMBIE" ELSE a[r].state
            /\ ptable'[r].parent = a[r].parent /\ ptable'[r].chan = a[r].chan
            /\ ptable'[r].killed = a[r].killed /\ ptable'[r].kstack = a[r].kstack
            /\ ptable'[r].isThread = a[r].isThread /\ ptable'[r].tid = a[r].tid
            /\ ptable'[r].t = a[r].t /\ ptable'[r].arr_ret = a[r].arr_ret
    BY <1>6, <1>10 DEF SetState, Table, Process
  <1>16. \A r \in Slots :
            /\ ptable'[r].state = IF r = p THEN "ZOMBIE"
                                  ELSE IF ptable[r].state = "SLEEPING" /\ ptable[r].chan = main
                                  THEN "RUNNABLE" ELSE ptable[r].state
            /\ ptable'[r].parent = ptable[r].parent /\ ptable'[r].chan = ptable[r].chan
            /\ ptable'[r].killed = ptable[r].killed /\ ptable'[r].kstack = ptable[r].kstack
            /\ ptable'[r].isThread = ptable[r].isThread /\ ptable'[r].tid = ptable[r].tid
            /\ ptable'[r].t = ptable[r].t
    <2> SUFFICES ASSUME NEW r \in Slots
                 PROVE
            /\ ptable'[r].state = IF r = p THEN "ZOMBIE"
                                  ELSE IF ptable[r].state = "SLEEPING" /\ ptable[r].chan = main
                                  THEN "RUNNABLE" ELSE ptable[r].state
            /\ ptable'[r].parent = ptable[r].parent /\ ptable'[r].chan = ptable[r].chan
            /\ ptable'[r].killed = ptable[r].killed /\ ptable'[r].kstack = ptable[r].kstack
            /\ ptable'[r].isThread = ptable[r].isThread /\ ptable'[r].tid = ptable[r].tid
            /\ ptable'[r].t = ptable[r].t
      OBVIOUS
    <2>1. ptable'[r].state = IF r = p THEN "ZOMBIE" ELSE w[r].state  BY <1>11, <1>15
    <2> QED  BY <1>8, <1>9, <1>11, <1>12, <1>15, <2>1
  <1>17. ptable'[main].arr_ret = [ptable[main].arr_ret EXCEPT ![i] = v]
    <2>1. ptable'[main].arr_ret = [w[main].arr_ret EXCEPT ![i] = v]  BY <1>2, <1>12, <1>15
    <2> QED  BY <1>2, <1>8, <2>1
  <1>18. /\ \A q \in Slots : pc'[q] = IF q = p THEN "user" ELSE pc[q]
         /\ \A q \in Slots : q # p => loc'[q] = loc[q]
    BY <1>1, <1>2 DEF Return, Goto
  <1>19. TypeOK'
    <2>1. pc' \in [Slots -> Steps] /\ loc' \in [Slots -> Slots \cup Tids \cup {None}]
      BY <1>1, <1>2 DEF Return, Goto, Steps
    <2>2. gave' \in [Slots -> Values \cup {NoValue}] /\ on' \subseteq Slots
      BY <1>1, <1>2, Shapes
    <2> QED  BY <1>1, <1>14, <2>1, <2>2 DEF ThreadInv, TypeOK, Table, Process
  <1>20. OnCpu'  BY <1>1, <1>16 DEF ThreadInv, OnCpu
  <1>21. \A r \in Slots : r # p => (Alive(r) <=> Alive(r)')  BY <1>16 DEF Alive
  <1>22. InCall'  BY <1>18, <1>21 DEF ThreadInv, InCall
  <1>23. Family'
    <2>1. ASSUME NEW q \in Slots, ptable'[q].parent # None
          PROVE  /\ ptable'[ptable'[q].parent].state \in {"RUNNABLE", "RUNNING", "SLEEPING"}
                 /\ ptable'[q].state # "UNUSED"
      <3>1. ptable[q].parent # None /\ ptable'[q].parent = ptable[q].parent
        BY <1>16, <2>1
      <3>2. ptable[q].parent \in Slots  BY <1>2, <3>1 DEF Table, Process
      <3>3. PICK r \in Slots : r = ptable[q].parent  BY <3>2
      <3>4. Alive(r) /\ ptable[q].state # "UNUSED"  BY <3>1, <3>3 DEF ThreadInv, Family
      <3>5. r # p  BY <1>1, <3>3 DEF ThreadInv, Tidy
      <3>6. Alive(r)'  BY <1>21, <3>4, <3>5
      <3>7. ptable'[r].state \in {"RUNNABLE", "RUNNING", "SLEEPING"}  BY <3>6 DEF Alive
      <3>8. ptable'[q].state # "UNUSED"  BY <1>16, <3>4
      <3> QED  BY <3>1, <3>3, <3>7, <3>8
    <2>2. \A q \in Slots \ {initproc} :
              ptable'[q].state \notin {"UNUSED", "EMBRYO"} => ptable'[q].parent # None
      BY <1>3, <1>16 DEF ThreadInv, Family
    <2>3. Alive(initproc)' /\ ptable'[initproc].parent = None
      BY <1>4, <1>16, <1>21, Constants DEF ThreadInv, Family
    <2> QED  BY <2>1, <2>2, <2>3 DEF Family, Alive
  <1>24. Tidy'  BY <1>16 DEF ThreadInv, Tidy
  <1>25. Threads'  BY <1>16, <1>18 DEF ThreadInv, Threads
  <1>26. Ids'  BY <1>2, <1>16, IdsStay DEF ThreadInv
  <1>27. \A q \in Slots : /\ Making(q)' <=> Making(q)
                          /\ Making(q) => /\ pc'[q] = pc[q] /\ loc'[q] = loc[q]
                                          /\ loc[q] \in Slots /\ loc[q] # p
    BY <1>1, <1>3, <1>18 DEF ThreadInv, Hatching, Making
  <1>28. \A q \in Slots : ptable'[q].state = "EMBRYO" <=> ptable[q].state = "EMBRYO"
    BY <1>3, <1>16
  <1>29. Hatching'
    <2>1. \A q \in Slots : Making(q)' =>
             /\ Making(q) /\ pc'[q] = pc[q] /\ loc'[q] = loc[q]
             /\ ptable'[loc[q]].state = ptable[loc[q]].state
             /\ ptable'[loc[q]].parent = ptable[loc[q]].parent
             /\ ptable'[loc[q]].kstack <=> ptable[loc[q]].kstack
             /\ ptable'[loc[q]].isThread <=> ptable[loc[q]].isThread
      <3> SUFFICES ASSUME NEW q \in Slots, Making(q)'
                   PROVE  /\ Making(q) /\ pc'[q] = pc[q] /\ loc'[q] = loc[q]
                          /\ ptable'[loc[q]].state = ptable[loc[q]].state
                          /\ ptable'[loc[q]].parent = ptable[loc[q]].parent
                          /\ ptable'[loc[q]].kstack <=> ptable[loc[q]].kstack
                          /\ ptable'[loc[q]].isThread <=> ptable[loc[q]].isThread
        OBVIOUS
      <3>1. Making(q) /\ pc'[q] = pc[q] /\ loc'[q] = loc[q]  BY <1>27
      <3>2. PICK n \in Slots : n = loc[q] /\ ptable[n].state = "EMBRYO"
        BY <3>1 DEF ThreadInv, Hatching
      <3>3. ptable'[n].state = "EMBRYO"  BY <1>28, <3>2
      <3> QED  BY <1>16, <3>1, <3>2, <3>3
    <2> QED  BY <2>1, HatchStays DEF ThreadInv
  <1>30. Hatched'  BY <1>27, <1>28 DEF ThreadInv, Hatched
  <1>31. OnlyThreads'  BY <1>2, <1>4, <1>16, <1>18 DEF ThreadInv, OnlyThreads
  <1>32. Joining'  BY <1>2, <1>16, <1>18 DEF ThreadInv, Joining
  <1>33. \A q \in Slots : ptable'[q].state = "SLEEPING" =>
            /\ q # p /\ q # main /\ ptable[q].state = "SLEEPING"
            /\ pc'[q] = pc[q] /\ loc'[q] = loc[q]
    BY <1>16, <1>18 DEF ThreadInv, Sleepers
  <1>34. Sleepers'  BY <1>16, <1>33 DEF ThreadInv, Sleepers
  <1>35. Delivered'
    <2> SUFFICES ASSUME NEW q \in Slots, ptable'[q].isThread, ptable'[q].state = "ZOMBIE"
                 PROVE  ptable'[main].arr_ret[ptable'[q].tid] = gave'[q]
      BY DEF Delivered
    <2>1. ptable[main].arr_ret \in [Tids -> Values \cup {NoValue}] /\ ptable[q].tid \in Tids
      BY <1>2 DEF Table, Process
    <2>2. ptable[q].isThread /\ ptable'[q].tid = ptable[q].tid  BY <1>16
    <2>3. CASE q = p
      <3>1. ptable'[q].tid = i  BY <1>5, <2>2, <2>3
      <3>2. ptable'[main].arr_ret[i] = v  BY <1>17, <2>1
      <3>3. gave'[q] = v  BY <1>1, <1>2, <2>3
      <3> QED  BY <3>1, <3>2, <3>3
    <2>4. CASE q # p
      <3>1. ptable[q].tid # i  BY <1>1, <1>5, <2>2, <2>4 DEF ThreadInv, Ids
      <3>2. ptable[q].state = "ZOMBIE"  BY <1>16, <2>4
      <3>3. ptable[main].arr_ret[ptable[q].tid] = gave[q]
        BY <2>2, <3>2 DEF ThreadInv, Delivered
      <3>4. ptable'[main].arr_ret[ptable[q].tid] = ptable[main].arr_ret[ptable[q].tid]
        BY <1>17, <2>1, <3>1
      <3>5. gave'[q] = gave[q]  BY <1>1, <1>2, <2>4
      <3> QED  BY <2>2, <3>3, <3>4, <3>5
    <2> QED  BY <2>3, <2>4
  <1>36. NoMissedWakeup'
    <2> SUFFICES ASSUME NEW q \in Slots, NEW r \in Slots, ptable'[q].state = "SLEEPING",
                        ptable'[r].parent = q, ptable'[r].state = "ZOMBIE"
                 PROVE  /\ pc'[q] = "wait" => ptable'[r].isThread
                        /\ pc'[q] = "join" =>
                              ~(ptable'[r].isThread /\ ptable'[r].tid = loc'[q])
      BY DEF NoMissedWakeup
    <2>1. /\ q # main /\ ptable[q].state = "SLEEPING" /\ pc'[q] = pc[q] /\ loc'[q] = loc[q]
          /\ ptable[r].parent = q /\ r # p
      BY <1>4, <1>16, <1>33
    <2>2. ptable[r].state = "ZOMBIE"  BY <1>16, <2>1
    <2> QED  BY <1>16, <2>1, <2>2 DEF ThreadInv, NoMissedWakeup
  <1>37. StacksHeld'  BY <1>3, <1>16, <1>28 DEF ThreadInv, StacksHeld
  <1> QED  BY <1>19, <1>20, <1>22, <1>23, <1>24, <1>25, <1>26, <1>29, <1>30, <1>31, <1>32,
              <1>34, <1>35, <1>36, <1>37 DEF ThreadInv

\* exit() in a process that has no threads: its children go to initproc, which
\* is woken when one of them is a zombie, and its parent is woken.
LEMMA ThExit ==
    ASSUME JoinsOwn, ThreadInv, NEW p \in Slots, Exit(p)
    PROVE  ThreadInv'
  <1>1. /\ p \in on /\ pc[p] = "sys" /\ p # initproc /\ ~ptable[p].isThread
        /\ ptable[p].t = {} /\ gave' = gave /\ got' = got
        /\ ExitLoop(wakeup1(ptable, ptable[p].parent), p, 1)
    BY DEF Exit, MayExit, Makes, At, JoinsOwn, ThreadInv, Tidy
  <1>2. /\ ptable \in Table /\ main \in Slots /\ main # initproc /\ pc \in [Slots -> Steps]
        /\ loc \in [Slots -> Slots \cup Tids \cup {None}]
    BY Shapes, MainIs
  <1>3. ptable[p].state = "RUNNING" /\ Alive(p)  BY <1>1, Executes
  <1>4. PICK m \in Slots : m = ptable[p].parent
    BY <1>1, <1>2, <1>3 DEF Table, Process, ThreadInv, Family
  <1>5. m # p /\ m # None /\ Alive(m)
    <2>1. m # None /\ Alive(m)  BY <1>4, Constants DEF ThreadInv, Family
    <2> QED  BY <1>4, <2>1 DEF ThreadInv, Tidy
  <1>6. \A q \in Slots : ptable[q].parent = p => ~ptable[q].isThread
    BY <1>1 DEF ThreadInv, Threads, Ids
  <1> DEFINE f == wakeup1(ptable, m)
             kids == {q \in Slots : ptable[q].parent = p}
             g == GiveToInit(f, kids)
             h == wakeup1(g, initproc)
  <1>7. /\ f \in Table
        /\ \A r \in Slots :
              /\ f[r].state = IF ptable[r].state = "SLEEPING" /\ ptable[r].chan = m
                              THEN "RUNNABLE" ELSE ptable[r].state
              /\ f[r].parent = ptable[r].parent
              /\ f[r].chan = ptable[r].chan
              /\ f[r].killed = ptable[r].killed
              /\ f[r].kstack = ptable[r].kstack
              /\ f[r].isThread = ptable[r].isThread
              /\ f[r].t = ptable[r].t
    BY <1>2, WokenUp
  <1>8. \A r \in Slots : f[r].tid = ptable[r].tid /\ f[r].arr_ret = ptable[r].arr_ret
    BY <1>2 DEF wakeup1, Table, Process
  <1>9. /\ \/ /\ \E q \in kids : f[q].state = "ZOMBIE"
              /\ ptable' = SetState(h, p, "ZOMBIE")
           \/ /\ \A q \in kids : f[q].state # "ZOMBIE"
              /\ ptable' = SetState(g, p, "ZOMBIE")
        /\ on' = on \ {p} /\ Return(p)
    <2>1. \A q \in Slots : f[q].parent = p => ~f[q].isThread  BY <1>6, <1>7
    <2>2. kids = {q \in Slots : f[q].parent = p}  BY <1>7
    <2>3. ExitLoop(f, p, 1)  BY <1>1, <1>4
    <2> HIDE DEF f, kids
    <2> QED  BY <2>1, <2>2, <2>3, ExitTable
  <1> HIDE DEF f
  <1>10. /\ g \in Table
         /\ \A r \in Slots :
               /\ g[r].parent = IF r \in kids THEN initproc ELSE f[r].parent
               /\ g[r].state = f[r].state
               /\ g[r].chan = f[r].chan
               /\ g[r].killed = f[r].killed
               /\ g[r].kstack = f[r].kstack
               /\ g[r].isThread = f[r].isThread
               /\ g[r].t = f[r].t
    <2> HIDE DEF kids
    <2> QED  BY <1>7, GivenToInit
  <1>11. \A r \in Slots : g[r].tid = f[r].tid /\ g[r].arr_ret = f[r].arr_ret
    <2> HIDE DEF kids
    <2> QED  BY <1>7 DEF GiveToInit, Table, Process
  <1> HIDE DEF g
  <1>12. /\ h \in Table
         /\ \A r \in Slots :
               /\ h[r].state = IF g[r].state = "SLEEPING" /\ g[r].chan = initproc
                               THEN "RUNNABLE" ELSE g[r].state
               /\ h[r].parent = g[r].parent
               /\ h[r].chan = g[r].chan
               /\ h[r].killed = g[r].killed
               /\ h[r].kstack = g[r].kstack
               /\ h[r].isThread = g[r].isThread
               /\ h[r].t = g[r].t
    BY <1>10, WokenUp
  <1>13. \A r \in Slots : h[r].tid = g[r].tid /\ h[r].arr_ret = g[r].arr_ret
    BY <1>10 DEF wakeup1, Table, Process
  <1> HIDE DEF h
  <1>14. PICK w : /\ ptable' = SetState(w, p, "ZOMBIE")
                  /\ w = h \/ (w = g /\ \A q \in kids : f[q].state # "ZOMBIE")
    BY <1>9
  <1>15. /\ w \in Table
         /\ \A r \in Slots :
               /\ w[r].parent = IF r \in kids THEN initproc ELSE f[r].parent
               /\ \/ w[r].state = f[r].state
                  \/ f[r].state = "SLEEPING" /\ w[r].state = "RUNNABLE"
               /\ w[r].chan = f[r].chan
               /\ w[r].killed = f[r].killed
               /\ w[r].kstack = f[r].kstack
               /\ w[r].isThread = f[r].isThread
               /\ w[r].t = f[r].t
               /\ w[r].state = "SLEEPING" /\ f[r].chan = initproc =>
                     \A q \in kids : f[q].state # "ZOMBIE"
    BY <1>10, <1>12, <1>14
  <1>16. \A r \in Slots : w[r].tid = ptable[r].tid /\ w[r].arr_ret = ptable[r].arr_ret
    BY <1>8, <1>11, <1>13, <1>14
  <1>17. SetState(w, p, "ZOMBIE") \in Table  BY <1>15, StateSet DEF States
  <1>18. ptable' \in Table  BY <1>14, <1>17
  <1>19. \A r \in Slots :
            /\ ptable'[r].state = IF r = p THEN "ZOMBIE" ELSE w[r].state
            /\ ptable'[r].parent = w[r].parent /\ ptable'[r].chan = w[r].chan
            /\ ptable'[r].killed = w[r].killed /\ ptable'[r].kstack = w[r].kstack
            /\ ptable'[r].isThread = w[r].isThread /\ ptable'[r].tid = w[r].tid
            /\ ptable'[r].t = w[r].t /\ ptable'[r].arr_ret = w[r].arr_ret
    BY <1>14, <1>15 DEF SetState, Table, Process
  <1>20. \A r \in Slots :
            /\ ptable'[r].parent = IF ptable[r].parent = p THEN initproc ELSE ptable[r].parent
            /\ ptable'[r].chan = ptable[r].chan /\ ptable'[r].killed = ptable[r].killed
            /\ ptable'[r].kstack = ptable[r].kstack
            /\ ptable'[r].isThread = ptable[r].isThread /\ ptable'[r].tid = ptable[r].tid
            /\ ptable'[r].t = ptable[r].t /\ ptable'[r].arr_ret = ptable[r].arr_ret
    BY <1>7, <1>15, <1>16, <1>19
  <1>21. /\ ptable'[p].state = "ZOMBIE"
         /\ \A r \in Slots : r # p =>
               \/ ptable'[r].state = ptable[r].state
               \/ ptable[r].state = "SLEEPING" /\ ptable'[r].state = "RUNNABLE"
         /\ \A r \in Slots : ptable'[r].state = "SLEEPING" =>
               r # p /\ ptable[r].state = "SLEEPING" /\ ptable[r].chan # m
    BY <1>7, <1>15, <1>19
  <1>22. \A r \in Slots : ptable'[r].state = "SLEEPING" /\ ptable[r].chan = initproc =>
            \A q \in Slots : ptable[q].parent = p => ptable[q].state # "ZOMBIE"
    <2> SUFFICES ASSUME NEW r \in Slots, ptable'[r].state = "SLEEPING",
                        ptable[r].chan = initproc
                 PROVE  \A q \in Slots : ptable[q].parent = p => ptable[q].state # "ZOMBIE"
      OBVIOUS
    <2>1. w[r].state = "SLEEPING" /\ f[r].chan = initproc  BY <1>7, <1>19
    <2>2. \A q \in kids : f[q].state # "ZOMBIE"  BY <1>15, <2>1
    <2> QED  BY <1>7, <2>2
  <1> HIDE DEF kids
  <1>23. /\ \A q \in Slots : pc'[q] = IF q = p THEN "user" ELSE pc[q]
         /\ \A q \in Slots : q # p => loc'[q] = loc[q]
         /\ on' = on \ {p}
    BY <1>2, <1>9 DEF Return, Goto
  <1>24. TypeOK'
    <2>1. /\ pc' \in [Slots -> Steps] /\ loc' \in [Slots -> Slots \cup Tids \cup {None}]
          /\ on' \subseteq Slots
      BY <1>2, <1>9, Shapes DEF Return, Goto, Steps
    <2> QED  BY <1>1, <1>18, <2>1 DEF ThreadInv, TypeOK, Table, Process
  <1>25. OnCpu'
    <2>1. \A q \in Slots : ptable'[q].state = "RUNNING" <=> q # p /\ ptable[q].state = "RUNNING"
      BY <1>21
    <2> QED  BY <1>23, <2>1 DEF ThreadInv, OnCpu
  <1>26. \A q \in Slots : q # p => (Alive(q) <=> Alive(q)')  BY <1>21 DEF Alive
  <1>27. InCall'  BY <1>23, <1>26 DEF ThreadInv, InCall
  <1>28. Family'
    <2>1. \A q \in Slots : ptable[q].parent \in Slots \cup {None}  BY <1>2 DEF Table, Process
    <2>2. Alive(initproc)' /\ ptable'[initproc].parent = None /\ p # None
      BY <1>1, <1>20, <1>26, Constants DEF ThreadInv, Family
    <2>3. ASSUME NEW q \in Slots, ptable'[q].parent # None
          PROVE  /\ ptable'[ptable'[q].parent].state \in {"RUNNABLE", "RUNNING", "SLEEPING"}
                 /\ ptable'[q].state # "UNUSED"
      <3>1. ptable[q].parent # None  BY <1>20, <2>2, <2>3
      <3>2. PICK r \in Slots : r = ptable[q].parent  BY <2>1, <3>1
      <3>3. Alive(r) /\ ptable[q].state # "UNUSED"  BY <3>1, <3>2 DEF ThreadInv, Family
      <3>4. ptable'[q].parent = IF r = p THEN initproc ELSE r  BY <1>20, <3>2
      <3>5. ptable'[q].state # "UNUSED"  BY <1>21, <3>3
      <3>6. CASE r = p
        <4>1. ptable'[initproc].state \in {"RUNNABLE", "RUNNING", "SLEEPING"}
          BY <2>2 DEF Alive
        <4> QED  BY <3>4, <3>5, <3>6, <4>1
      <3>7. CASE r # p
        <4>1. Alive(r)'  BY <1>26, <3>3, <3>7
        <4>2. ptable'[r].state \in {"RUNNABLE", "RUNNING", "SLEEPING"}  BY <4>1 DEF Alive
        <4> QED  BY <3>4, <3>5, <3>7, <4>2
      <3> QED  BY <3>6, <3>7
    <2>4. \A q \in Slots \ {initproc} :
              ptable'[q].state \notin {"UNUSED", "EMBRYO"} => ptable'[q].parent # None
      <3> SUFFICES ASSUME NEW q \in Slots \ {initproc},
                          ptable'[q].state \notin {"UNUSED", "EMBRYO"}
                   PROVE  ptable'[q].parent # None
        OBVIOUS
      <3>1. ptable[q].state \notin {"UNUSED", "EMBRYO"}  BY <1>3, <1>21
      <3>2. ptable[q].parent # None  BY <3>1 DEF ThreadInv, Family
      <3> QED  BY <1>20, <3>2, Constants
    <2> QED  BY <2>2, <2>3, <2>4 DEF Family, Alive
  <1>29. ptable[initproc].parent = None /\ ~ptable[initproc].isThread /\ p # None
         /\ initproc \in Slots
    BY Constants DEF ThreadInv, Family, Threads
  <1>30. Tidy'  BY <1>20, <1>29 DEF ThreadInv, Tidy
  <1>31. Threads'
    <2> SUFFICES ASSUME NEW q \in Slots, ptable'[q].isThread
                 PROVE  /\ q # main /\ q # initproc /\ ptable'[q].parent = main
                        /\ ptable'[q].state \in {"EMBRYO", "RUNNABLE", "RUNNING", "ZOMBIE"}
                        /\ pc'[q] \in {"user", "sys"}
      BY DEF Threads
    <2>1. ptable[q].isThread /\ ptable[q].parent # p  BY <1>6, <1>20
    <2>2. /\ q # main /\ q # initproc /\ ptable[q].parent = main
          /\ ptable[q].state \in {"EMBRYO", "RUNNABLE", "RUNNING", "ZOMBIE"}
          /\ pc[q] \in {"user", "sys"}
      BY <2>1 DEF ThreadInv, Threads
    <2> QED  BY <1>20, <1>21, <1>23, <2>1, <2>2
  <1>32. Ids'  BY <1>2, <1>20, IdsStay DEF ThreadInv
  <1>33. \A q \in Slots : /\ Making(q)' <=> Making(q)
                          /\ Making(q) => /\ pc'[q] = pc[q] /\ loc'[q] = loc[q] /\ q # p
                                          /\ loc[q] \in Slots /\ loc[q] # p
    BY <1>1, <1>3, <1>23 DEF ThreadInv, Hatching, Making
  <1>34. \A q \in Slots : ptable'[q].state = "EMBRYO" <=> ptable[q].state = "EMBRYO"
    BY <1>3, <1>21
  <1>35. Hatching'
    <2>1. ASSUME NEW q \in Slots, Making(q)'
          PROVE  /\ Making(q) /\ pc'[q] = pc[q] /\ loc'[q] = loc[q]
                 /\ ptable'[loc[q]].state = ptable[loc[q]].state
                 /\ ptable'[loc[q]].parent = ptable[loc[q]].parent
                 /\ ptable'[loc[q]].kstack <=> ptable[loc[q]].kstack
                 /\ ptable'[loc[q]].isThread <=> ptable[loc[q]].isThread
      <3>1. Making(q) /\ pc'[q] = pc[q] /\ loc'[q] = loc[q] /\ q # p  BY <1>33, <2>1
      <3>2. PICK n \in Slots : n = loc[q] /\ ptable[n].state = "EMBRYO"
        BY <3>1 DEF ThreadInv, Hatching
      <3>3. ptable[n].parent \in {None, q}
        BY <3>1, <3>2 DEF ThreadInv, Hatching, Making
      <3>4. ptable'[n].state = "EMBRYO" /\ ptable'[n].parent = ptable[n].parent
        BY <1>20, <1>29, <1>34, <3>1, <3>2, <3>3
      <3> QED  BY <1>20, <3>1, <3>2, <3>4
    <2> QED  BY <2>1, HatchStays DEF ThreadInv
  <1>36. Hatched'  BY <1>33, <1>34 DEF ThreadInv, Hatched
  <1>37. OnlyThreads'
    <2>1. \A q \in Slots : ptable'[q].parent = main => ptable[q].parent = main
      BY <1>2, <1>20
    <2>2. ptable'[main].t = ptable[main].t /\ (pc'[main] # "user" => pc'[main] = pc[main])
      BY <1>2, <1>20, <1>23
    <2> QED  BY <1>20, <2>1, <2>2 DEF ThreadInv, OnlyThreads
  <1>38. Joining'  BY <1>2, <1>20, <1>23 DEF ThreadInv, Joining
  <1>39. Sleepers'  BY <1>20, <1>21, <1>23 DEF ThreadInv, Sleepers
  <1>40. Delivered'
    <2>1. \A q \in Slots : ptable'[q].isThread /\ ptable'[q].state = "ZOMBIE" =>
             ptable[q].isThread /\ ptable[q].state = "ZOMBIE"
      BY <1>1, <1>20, <1>21
    <2> QED  BY <1>1, <1>2, <1>20, <2>1 DEF ThreadInv, Delivered
  <1>41. NoMissedWakeup'
    <2> SUFFICES ASSUME NEW q \in Slots, NEW r \in Slots, ptable'[q].state = "SLEEPING",
                        ptable'[r].parent = q, ptable'[r].state = "ZOMBIE"
                 PROVE  /\ pc'[q] = "wait" => ptable'[r].isThread
                        /\ pc'[q] = "join" =>
                              ~(ptable'[r].isThread /\ ptable'[r].tid = loc'[q])
      BY DEF NoMissedWakeup
    <2>1. q # p /\ ptable[q].state = "SLEEPING" /\ ptable[q].chan = q /\ q # m
      BY <1>21 DEF ThreadInv, Sleepers
    <2>2. r # p  BY <1>4, <1>5, <1>20, <2>1
    <2>3. ptable[r].state = "ZOMBIE"  BY <1>21, <2>2
    <2>4. ptable[r].parent # p
      <3> SUFFICES ASSUME ptable[r].parent = p  PROVE FALSE
        OBVIOUS
      <3>1. q = initproc  BY <1>20
      <3> QED  BY <1>22, <2>1, <2>3, <3>1
    <2>5. ptable[r].parent = q  BY <1>20, <2>4
    <2>6. pc'[q] = pc[q] /\ loc'[q] = loc[q]  BY <1>23, <2>1
    <2> QED  BY <1>20, <2>1, <2>3, <2>5, <2>6 DEF ThreadInv, NoMissedWakeup
  <1>42. StacksHeld'  BY <1>3, <1>20, <1>21, <1>34 DEF ThreadInv, StacksHeld
  <1> QED  BY <1>24, <1>25, <1>27, <1>28, <1>30, <1>31, <1>32, <1>35, <1>36, <1>37, <1>38,
              <1>39, <1>40, <1>41, <1>42 DEF ThreadInv

\* The steps no disciplined program takes: killing, and leaving by way of a
\* thread.
LEMMA Never ==
    ASSUME JoinsOwn, ThreadInv, NEW p \in Slots
    PROVE  /\ \A q \in Slots : ~Kill(p, q)
           /\ ~ExitThread(p) /\ ~ThreadProcExit(p) /\ ~TexitSibling(p)
           /\ ~TexitParent(p) /\ ~TexitParents(p) /\ ~TexitSelf(p)
  <1>1. \A q \in Slots : ~Kill(p, q)  BY DEF Kill, Makes, JoinsOwn
  <1>2. /\ ~ExitThread(p) /\ ~TexitSibling(p) /\ ~TexitParent(p) /\ ~TexitParents(p)
        /\ ~TexitSelf(p)
    BY DEF ThreadInv, Joining, ExitThread, TexitSibling, TexitParent, TexitParents, TexitSelf, At
  <1>3. ~ThreadProcExit(p)
    BY DEF ThreadProcExit, MayExit, Makes, JoinsOwn, ThreadInv, Tidy
  <1> QED  BY <1>1, <1>2, <1>3

\* The invariant holds at the start.
LEMMA ThInit == ASSUME JoinsOwn, Init  PROVE ThreadInv
  <1>1. /\ ptable \in Table
        /\ \A q \in Slots :
              /\ ptable[q].state = IF q = initproc THEN "RUNNABLE" ELSE "UNUSED"
              /\ ptable[q].kstack <=> q = initproc
              /\ ptable[q].parent = None /\ ~ptable[q].killed
              /\ ~ptable[q].isThread /\ ptable[q].t = {}
        /\ on = {} /\ pc \in [Slots -> Steps] /\ \A q \in Slots : pc[q] = "user"
        /\ loc \in [Slots -> Slots \cup Tids \cup {None}]
        /\ gave \in [Slots -> Values \cup {NoValue}]
        /\ got \in [Slots -> Values \cup {NoValue}]
    BY InitFresh
  <1>2. main \in Slots  BY MainIs
  <1>3. TypeOK  BY <1>1 DEF TypeOK, Table, Process
  <1>4. OnCpu /\ InCall /\ Sleepers /\ StacksHeld /\ NoMissedWakeup
    BY <1>1 DEF OnCpu, InCall, Sleepers, StacksHeld, NoMissedWakeup
  <1>5. Family /\ Tidy  BY <1>1, Constants DEF Family, Tidy, Alive
  <1>6. Threads /\ Ids /\ Delivered  BY <1>1, <1>2 DEF Threads, Ids, Delivered
  <1>7. Hatching /\ Hatched  BY <1>1 DEF Hatching, Hatched, Making
  <1>8. OnlyThreads /\ Joining  BY <1>1, <1>2 DEF OnlyThreads, Joining
  <1> QED  BY <1>3, <1>4, <1>5, <1>6, <1>7, <1>8 DEF ThreadInv

\* Every step of a disciplined program keeps the invariant.
LEMMA ThNext == ASSUME JoinsOwn, ThreadInv, [Next]_vars  PROVE ThreadInv'
  <1>1. CASE UNCHANGED vars
    <2>1. TypeOK' /\ OnCpu' /\ InCall' /\ Family'
      BY <1>1 DEF vars, ThreadInv, TypeOK, OnCpu, InCall, Family, Alive
    <2>2. Tidy' /\ Threads' /\ Ids' /\ Delivered'
      BY <1>1 DEF vars, ThreadInv, Tidy, Threads, Ids, Delivered
    <2>3. Hatching' /\ Hatched'  BY <1>1 DEF vars, ThreadInv, Hatching, Hatched, Making
    <2>4. OnlyThreads' /\ Joining' /\ Sleepers'
      BY <1>1 DEF vars, ThreadInv, OnlyThreads, Joining, Sleepers
    <2>5. NoMissedWakeup' /\ StacksHeld'
      BY <1>1 DEF vars, ThreadInv, NoMissedWakeup, StacksHeld
    <2> QED  BY <2>1, <2>2, <2>3, <2>4, <2>5 DEF ThreadInv
  <1>2. ASSUME NEW p \in Slots, Trap(p) \/ Dispatch(p) \/ Yield(p)  PROVE ThreadInv'
    BY <1>2, ThTrap, ThDispatch
  <1>3. ASSUME NEW p \in Slots, Create(p)  PROVE ThreadInv'
    BY <1>3, ThFork, ThAllocFail, ThForkSetup, ThStart, ThCreate, ThThreadSetup, ThStackFail,
       ThStackDone DEF Create
  <1>4. ASSUME NEW p \in Slots, Leave(p)  PROVE ThreadInv'
    BY <1>4, ThExit, ThInitExit, Never DEF Leave
  <1>5. ASSUME NEW p \in Slots, Step(p)  PROVE ThreadInv'
    <2>1. CASE Create(p)  BY <1>3, <2>1
    <2>2. CASE WaitScan(p)  BY <2>2, ThWaitScan
    <2>3. CASE Join(p)  BY <2>3, ThJoinScan DEF Join
    <2>4. CASE Leave(p)  BY <1>4, <2>4
    <2>5. CASE \E q \in Slots : Kill(p, q)  BY <2>5, Never
    <2>6. CASE \E v \in Values : ThreadExit(p, v)  BY <2>6, ThThreadExit
    <2> QED  BY <1>5, <2>1, <2>2, <2>3, <2>4, <2>5, <2>6 DEF Step
  <1> QED  BY <1>1, <1>2, <1>5 DEF Next
-----------------------------------------------------------------------------
\* The invariant holds in every reachable state: on any number of processors,
\* and with kalloc() failing, a disciplined program's threads stay its own
\* until they are joined.
THEOREM ThreadInvariance ==
    ASSUME JoinsOwn
    PROVE  Spec => []ThreadInv
  <1>1. Init => ThreadInv  BY ThInit
  <1>2. ThreadInv /\ [Next]_vars => ThreadInv'  BY ThNext
  <1> QED  BY <1>1, <1>2, PTL DEF Spec

\* t[] of proc.h lists exactly the ids of a process's threads, no id twice:
\* thread_create hands out free ids only, and thread_join gives back the id of
\* the thread that it frees.
THEOREM ThreadIds ==
    ASSUME JoinsOwn
    PROVE  Spec => []TidsExact
  <1>1. ThreadInv => TidsExact
    <2> SUFFICES ASSUME ThreadInv, NEW p \in Slots
                 PROVE  LET mine == {q \in Slots : ptable[q].isThread /\ ptable[q].parent = p}
                        IN  /\ \A q \in mine : ptable[q].tid \in ptable[p].t
                            /\ \A q, r \in mine : ptable[q].tid = ptable[r].tid => q = r
                            /\ \A i \in ptable[p].t : \E q \in mine : ptable[q].tid = i
      BY DEF TidsExact
    <2>1. CASE p = main  BY <2>1 DEF ThreadInv, Threads, Ids
    <2>2. CASE p # main
      <3>1. ptable[p].t = {}  BY <2>2 DEF ThreadInv, Ids
      <3>2. \A q \in Slots : ptable[q].isThread => ptable[q].parent # p
        BY <2>2 DEF ThreadInv, Threads
      <3> QED  BY <3>1, <3>2
    <2> QED  BY <2>1, <2>2
  <1> QED  BY <1>1, ThreadInvariance, PTL

\* thread_join frees the caller's thread of the id asked for, no other slot, and
\* hands over what that thread passed to thread_exit.
THEOREM ThreadJoins ==
    ASSUME JoinsOwn
    PROVE  Spec => JoinOwnThread
  <1>1. ASSUME ThreadInv, NEW p \in Slots, NEW q \in Slots, NEW thread \in Tids,
               JoinScan(p, thread), ptable[q].state = "ZOMBIE", ptable'[q].state = "UNUSED"
        PROVE  /\ ptable[q].isThread /\ ptable[q].parent = p
               /\ ptable[q].tid = thread /\ got'[p] = gave[q]
    <2> DEFINE dead == {r \in Slots : /\ ptable[r].isThread /\ ptable[r].state = "ZOMBIE"
                                      /\ ptable[r].tid = thread}
    <2>1. p = main /\ main \in Slots /\ ptable \in Table
          /\ got \in [Slots -> Values \cup {NoValue}]
      BY <1>1, JoinFinds, MainIs, Shapes
    <2>2. CASE dead = {} /\ Sleep(main, "join")
      <3>1. ptable'[q].state \in {"SLEEPING", ptable[q].state}
        BY <2>1, <2>2 DEF Sleep, Table, Process
      <3> QED  BY <1>1, <3>1
    <2>3. ASSUME NEW d \in dead,
                 ptable' = SetChan(SetT(SetTid(NoThread(Release(ptable, d), d), d, 0),
                                        main, ptable[main].t \ {thread}), main, None),
                 got' = [got EXCEPT ![main] = ptable[main].arr_ret[thread]]
          PROVE  /\ ptable[q].isThread /\ ptable[q].parent = p
                 /\ ptable[q].tid = thread /\ got'[p] = gave[q]
      <3>1. /\ d \in Slots /\ d # main /\ ptable[d].isThread /\ ptable[d].parent = main
            /\ ptable[d].state = "ZOMBIE" /\ ptable[d].tid = thread
        BY <1>1 DEF ThreadInv, Threads
      <3> HIDE DEF dead
      <3>2. ASSUME q # d  PROVE ptable'[q].state = ptable[q].state
        <4>1. ptable[q] \in Process  BY <2>1 DEF Table
        <4>2. CASE q = main
          <5>1. ptable'[q] = [[ptable[q] EXCEPT !.t = ptable[main].t \ {thread}]
                              EXCEPT !.chan = None]
            BY <2>1, <2>3, <3>1, <4>2 DEF SetChan, SetT, SetTid, NoThread, Release, Table
          <5> QED  BY <4>1, <5>1 DEF Process
        <4>3. CASE q # main
          <5>1. ptable'[q] = ptable[q]
            BY <2>1, <2>3, <3>1, <3>2, <4>3 DEF SetChan, SetT, SetTid, NoThread, Release, Table
          <5> QED  BY <5>1
        <4> QED  BY <4>2, <4>3
      <3>3. q = d  BY <1>1, <3>2
      <3>4. got'[p] = ptable[main].arr_ret[thread]  BY <2>1, <2>3
      <3>5. ptable[main].arr_ret[thread] = gave[d]  BY <1>1, <3>1 DEF ThreadInv, Delivered
      <3> QED  BY <2>1, <3>1, <3>3, <3>4, <3>5
    <2>4. \/ /\ \E d \in dead :
                   ptable' = SetChan(SetT(SetTid(NoThread(Release(ptable, d), d), d, 0),
                                          main, ptable[main].t \ {thread}), main, None)
             /\ got' = [got EXCEPT ![main] = ptable[main].arr_ret[thread]]
          \/ dead = {} /\ Sleep(main, "join")
      BY <1>1, JoinTable
    <2> HIDE DEF dead
    <2> QED  BY <2>2, <2>3, <2>4
  <1>2. ThreadInv /\ [Next]_vars =>
           [\A p, q \in Slots : \A thread \in Tids :
              (/\ JoinScan(p, thread)
               /\ ptable[q].state = "ZOMBIE" /\ ptable'[q].state = "UNUSED")
              => /\ ptable[q].isThread /\ ptable[q].parent = p
                 /\ ptable[q].tid = thread /\ got'[p] = gave[q]]_vars
    BY <1>1
  <1> QED  BY <1>2, ThreadInvariance, PTL DEF Spec, JoinOwnThread

\* Nobody sleeps in wait() on an exited child or in thread_join on the thread
\* that has exited: with threads too no wakeup of exit or thread_exit is missed.
THEOREM ThreadWakeups ==
    ASSUME JoinsOwn
    PROVE  Spec => []NoMissedWakeup
  <1>1. ThreadInv => NoMissedWakeup  BY DEF ThreadInv
  <1> QED  BY <1>1, ThreadInvariance, PTL

\* A process or thread in use has a parent that is there to wait for it: a
\* program that joins its threads before it exits leaves none behind.
THEOREM ThreadParents ==
    ASSUME JoinsOwn
    PROVE  Spec => []ParentAlive
  <1>1. ThreadInv => ParentAlive
    <2> SUFFICES ASSUME ThreadInv, NEW q \in Slots \ {initproc},
                        ptable[q].state \notin {"UNUSED", "EMBRYO"}
                 PROVE  /\ ptable[q].parent # None
                        /\ ptable[ptable[q].parent].state \notin {"UNUSED", "EMBRYO", "ZOMBIE"}
      BY DEF ParentAlive
    <2>1. ptable[q].parent # None  BY DEF ThreadInv, Family
    <2>2. ptable[q].parent \in Slots  BY <2>1, Shapes DEF Table, Process
    <2>3. PICK r \in Slots : r = ptable[q].parent  BY <2>2
    <2>4. Alive(r)  BY <2>1, <2>3 DEF ThreadInv, Family
    <2> QED  BY <2>1, <2>3, <2>4 DEF Alive
  <1> QED  BY <1>1, ThreadInvariance, PTL

\* Kernel stacks are held from fork or thread_create until wait or thread_join,
\* and no slot is left EMBRYO, as long as kalloc() finds memory (without, the
\* early return of thread_create forgets one).
THEOREM ThreadStacks ==
    ASSUME JoinsOwn, ~OutOfMemory
    PROVE  Spec => []StacksOwned
  <1>1. ThreadInv => StacksOwned
    <2> SUFFICES ASSUME ThreadInv  PROVE EmbryoOwned
      BY DEF StacksOwned, ThreadInv
    <2> SUFFICES ASSUME NEW q \in Slots, ptable[q].state = "EMBRYO"
                 PROVE  \E p \in Slots : loc[p] = q /\ ptable[p].state \in {"RUNNABLE", "RUNNING"}
                                         /\ pc[p] \in {"fork1", "thread1", "thread2", "start"}
      BY DEF EmbryoOwned
    <2>1. PICK p \in Slots : Making(p) /\ loc[p] = q  BY DEF ThreadInv, Hatched
    <2>2. pc[p] \in {"fork1", "thread1", "thread2", "start"}  BY <2>1 DEF Making
    <2>3. Alive(p) /\ ptable[p].state # "SLEEPING"  BY <2>2 DEF ThreadInv, InCall, Sleepers
    <2> QED  BY <2>1, <2>2, <2>3 DEF Alive
  <1> QED  BY <1>1, ThreadInvariance, PTL
=============================================================================
