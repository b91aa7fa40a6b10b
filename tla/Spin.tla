-------------------------------- MODULE Spin --------------------------------
(***************************************************************************)
(* Spin locks, interrupt flags and the clock of xv6 (spinlock.c, trap.c,   *)
(* sched and scheduler of proc.c, sys_sleep) at the grain of one access to *)
(* shared memory.  A kernel thread, that of a process or the scheduler of  *)
(* a CPU, has a stack of operations it has still to make; an interrupt     *)
(* pushes its handler's on the stack of the thread it finds.  What the     *)
(* locks protect is reduced to the states of the processes, the clock and  *)
(* one disk request per process; Proc and Bcache have the rest.            *)
(***************************************************************************)
EXTENDS Integers, Sequences, FiniteSetsExt

CONSTANTS SpCpus,      \* 1 .. the number of CPUs; cpunum() == 0 is CPU 1
          SpProcs,     \* 1 .. the number of processes
          SpCalls,     \* process -> its system calls: "uptime", "sleep", "disk", "kill"
          SpNaps,      \* arguments of sleep
          SpMade,      \* bound: calls of one process
          SpTimers,    \* bound: timer interrupts
          SpWidth      \* bits of the clock

\* CPUs and processes are numbered from 1; 0 is no CPU and no process.
ASSUME SpinConstants ==
    /\ SpCpus \subseteq Nat \ {0} /\ SpCpus # {} /\ SpProcs \subseteq Nat \ {0}
    /\ SpCalls \in [SpProcs -> SUBSET {"uptime", "sleep", "disk", "kill"}]
    /\ SpNaps \subseteq Int /\ 2 ^ SpWidth \in Nat \ {0}

VARIABLES cpu,         \* CPU -> its flag IF, ncli, intena, its thread, the scheduler's place
          stack,       \* thread -> operations to make
          lock,        \* lock -> locked and the CPU that holds it, 0 if none
          procs,       \* process -> state, chan, killed, its request and its nap
          clock,       \* ticks, timer interrupts so far, calls made
          panic        \* the kernel panicked
spVars == <<cpu, stack, lock, procs, clock, panic>>

Locks == {"ptable", "ticks", "ide"}
Sched(c) == <<"cpu", c>>
Thread(p) == <<"proc", p>>
KThreads == {Sched(c) : c \in SpCpus} \cup {Thread(p) : p \in SpProcs}
Running(c) == cpu[c].on
proc(c) == IF Running(c)[1] = "proc" THEN Running(c)[2] ELSE 0
Op(k, l) == [k |-> k, l |-> l, v |-> ""]
Elapsed(p) == (clock.ticks - procs[p].ticks0) % 2 ^ SpWidth
-----------------------------------------------------------------------------
(* The code of the calls and of the handlers *)
acquire(l) == <<Op("pushcli", l)>>
release(l) == <<[k |-> "locked", l |-> l, v |-> "release"]>>
sched == <<[k |-> "locked", l |-> "ptable", v |-> "sched"]>>
sleep(chan, lk) == acquire("ptable") \o release(lk) \o <<Op("block", chan)>> \o sched
                   \o <<Op("awake", chan)>> \o release("ptable") \o acquire(lk)
wakeup(chan) == acquire("ptable") \o <<Op("wakeup1", chan)>> \o release("ptable")
yield == acquire("ptable") \o <<Op("runnable", "")>> \o sched \o release("ptable")
exit_end == acquire("ptable") \o <<Op("zombie", "")>> \o sched
forkret == release("ptable") \o <<Op("iret", "")>>
scheduler == acquire("ptable") \o <<Op("scan", "")>> \o release("ptable") \o <<Op("sti", "")>>
syscall(name) ==
    CASE name = "uptime" -> acquire("ticks") \o release("ticks")
      [] name = "sleep" -> acquire("ticks") \o <<Op("ticks0", ""), Op("nap", "ticks")>> \o release("ticks")
      [] name = "disk" -> acquire("ide") \o <<Op("start", ""), Op("done?", "ide")>> \o release("ide")
      [] name = "kill" -> acquire("ptable") \o <<Op("kill", "")>> \o release("ptable")
\* trap: only the first CPU counts ticks; every CPU gives up its process.
check(from) == IF from = "user" THEN <<Op("check", "")>> ELSE <<>>
timer(c, from) == (IF c = 1 THEN acquire("ticks") \o <<Op("tick", "")>> \o wakeup("ticks") \o release("ticks") ELSE <<>>)
                  \o check(from) \o (IF proc(c) # 0 THEN <<Op("preempt", "")>> ELSE <<>>) \o check(from) \o <<Op("iret", "")>>
ideintr(from) == acquire("ide") \o <<Op("finish", "")>> \o wakeup("ide") \o release("ide") \o check(from) \o <<Op("iret", "")>>

SpInit ==
    /\ cpu = [c \in SpCpus |-> [ifl |-> FALSE, ncli |-> 0, intena |-> FALSE, on |-> Sched(c), p |-> 1]]
    /\ stack = [x \in KThreads |-> IF x[1] = "cpu" THEN <<Op("sti", "")>> ELSE forkret]
    /\ lock = [l \in Locks |-> [locked |-> FALSE, cpu |-> 0]]
    /\ procs = [p \in SpProcs |-> [state |-> "RUNNABLE", chan |-> "", killed |-> FALSE, request |-> "done",
                                    nap |-> 0, ticks0 |-> 0]]
    /\ clock = [ticks |-> 0, timers |-> 0, calls |-> [p \in SpProcs |-> 0]]
    /\ panic = FALSE
-----------------------------------------------------------------------------
(* Steps.  CPU c takes the next operation of its thread.                   *)
Next1(c) == Head(stack[Running(c)])
Top(c, k) == stack[Running(c)] # <<>> /\ Next1(c).k = k
Go(c, ops) == stack' = [stack EXCEPT ![Running(c)] = ops \o Tail(@)]
Panics == panic' = TRUE /\ UNCHANGED <<cpu, stack, lock, procs, clock>>
OnlyCpu(c, r) == cpu' = [cpu EXCEPT ![c] = r] /\ UNCHANGED <<lock, procs, clock, panic>>
OnlyLock(c, l, r) == lock' = [lock EXCEPT ![l] = r] /\ UNCHANGED <<cpu, procs, clock, panic>>
OnlyProcs(f) == procs' = f /\ UNCHANGED <<cpu, lock, clock, panic>>
Mine(c, r) == procs' = [procs EXCEPT ![proc(c)] = r]

\* pushcli reads the flags; it may be interrupted, and go on elsewhere, before
\* it turns them off.
pushcli(c) == /\ Top(c, "pushcli") /\ cpu[c].ifl
              /\ Go(c, <<Op("cli", Next1(c).l)>>)
              /\ UNCHANGED <<cpu, lock, procs, clock, panic>>
cli(c) ==
    /\ Top(c, "cli") \/ (Top(c, "pushcli") /\ ~cpu[c].ifl)
    /\ Go(c, <<[k |-> "locked", l |-> Next1(c).l, v |-> "acquire"]>>)
    /\ OnlyCpu(c, [cpu[c] EXCEPT !.ifl = FALSE, !.ncli = @ + 1,
                                 !.intena = IF cpu[c].ncli = 0 THEN Top(c, "cli") ELSE @])

\* What its caller does with the answer of holding.
Held(c, o, yes) ==
    CASE o.v = "acquire" -> IF yes THEN Panics
                            ELSE Go(c, <<Op("xchg", o.l)>>) /\ UNCHANGED <<cpu, lock, procs, clock, panic>>
      [] o.v = "release" -> IF ~yes THEN Panics
                            ELSE Go(c, <<Op("disown", o.l)>>) /\ UNCHANGED <<cpu, lock, procs, clock, panic>>
      [] o.v = "sched" -> IF ~yes \/ cpu[c].ncli # 1 \/ cpu[c].ifl \/ procs[proc(c)].state = "RUNNING" THEN Panics
                          ELSE Go(c, <<Op("swtch", "")>>) /\ UNCHANGED <<cpu, lock, procs, clock, panic>>
\* holding reads lk->locked, and then lk->cpu.
holding(c) ==
    /\ Top(c, "locked")
    /\ IF lock[Next1(c).l].locked
       THEN Go(c, <<[Next1(c) EXCEPT !.k = "cpu"]>>) /\ UNCHANGED <<cpu, lock, procs, clock, panic>>
       ELSE Held(c, Next1(c), FALSE)
holdingCpu(c) == Top(c, "cpu") /\ Held(c, Next1(c), lock[Next1(c).l].cpu = c)
\* xchg: the loop of acquire ends when it finds the lock free.
xchg(c) == /\ Top(c, "xchg")
           /\ ~lock[Next1(c).l].locked
           /\ Go(c, <<Op("own", Next1(c).l)>>)
           /\ OnlyLock(c, Next1(c).l, [lock[Next1(c).l] EXCEPT !.locked = TRUE])
own(c) == Top(c, "own") /\ Go(c, <<>>) /\ OnlyLock(c, Next1(c).l, [lock[Next1(c).l] EXCEPT !.cpu = c])
disown_late(c) == Top(c, "disown") /\ Go(c, <<Op("unlock", Next1(c).l)>>) /\ UNCHANGED <<cpu, lock, procs, clock, panic>>
disown(c) == /\ Top(c, "disown")
             /\ Go(c, <<Op("unlock", Next1(c).l)>>)
             /\ OnlyLock(c, Next1(c).l, [lock[Next1(c).l] EXCEPT !.cpu = 0])
popcli_any(r) == [r EXCEPT !.ncli = @ - 1, !.ifl = r.intena]
popcli(r) == [r EXCEPT !.ncli = @ - 1, !.ifl = r.ncli = 1 /\ r.intena]
\* The end of release, with popcli and its panics.
unlock(c) ==
    /\ Top(c, "unlock")
    /\ IF cpu[c].ifl \/ cpu[c].ncli < 1 THEN Panics
       ELSE /\ Go(c, <<>>)
            /\ lock' = [lock EXCEPT ![Next1(c).l].locked = FALSE]
            /\ cpu' = [cpu EXCEPT ![c] = popcli(@)]
            /\ UNCHANGED <<procs, clock, panic>>

\* sched: swtch to the scheduler, and on the way back cpu->intena = intena.
\* swtch_bare is a sched that does not keep intena.
swtch_bare(c) ==
    /\ Top(c, "swtch")
    /\ Go(c, <<>>)
    /\ OnlyCpu(c, [cpu[c] EXCEPT !.on = Sched(c)])
swtch(c) ==
    /\ Top(c, "swtch")
    /\ Go(c, <<[k |-> "intena", l |-> "", v |-> IF cpu[c].intena THEN "on" ELSE "off"]>>)
    /\ OnlyCpu(c, [cpu[c] EXCEPT !.on = Sched(c)])
Swtched(c) == Top(c, "intena") /\ Go(c, <<>>) /\ OnlyCpu(c, [cpu[c] EXCEPT !.intena = Next1(c).v = "on"])
\* The scheduler's loop; Scan goes to the next process that can run.
sti(c) == Top(c, "sti") /\ Go(c, scheduler) /\ OnlyCpu(c, [cpu[c] EXCEPT !.ifl = TRUE])
Scan(c) ==
    /\ Top(c, "scan")
    /\ LET ready == {p \in SpProcs : p >= cpu[c].p /\ procs[p].state = "RUNNABLE"}
       IN  IF ready = {}
           THEN Go(c, <<>>) /\ OnlyCpu(c, [cpu[c] EXCEPT !.p = 1])
           ELSE /\ cpu' = [cpu EXCEPT ![c].on = Thread(Min(ready)), ![c].p = Min(ready) + 1]
                /\ procs' = [procs EXCEPT ![Min(ready)].state = "RUNNING"]
                /\ UNCHANGED <<stack, lock, clock, panic>>
-----------------------------------------------------------------------------
(* What is done under the locks *)
Changes(c) ==
    \/ Top(c, "block") /\ Go(c, <<>>)
       /\ OnlyProcs([procs EXCEPT ![proc(c)].state = "SLEEPING", ![proc(c)].chan = Next1(c).l])
    \/ Top(c, "awake") /\ Go(c, <<>>) /\ OnlyProcs([procs EXCEPT ![proc(c)].chan = ""])
    \/ Top(c, "runnable") /\ Go(c, <<>>) /\ OnlyProcs([procs EXCEPT ![proc(c)].state = "RUNNABLE"])
    \/ Top(c, "zombie") /\ Go(c, <<>>) /\ OnlyProcs([procs EXCEPT ![proc(c)].state = "ZOMBIE"])
    \/ Top(c, "wakeup1") /\ Go(c, <<>>)
       /\ OnlyProcs([p \in SpProcs |-> IF procs[p].state = "SLEEPING" /\ procs[p].chan = Next1(c).l
                                       THEN [procs[p] EXCEPT !.state = "RUNNABLE"] ELSE procs[p]])
    \/ Top(c, "start") /\ Go(c, <<>>) /\ OnlyProcs([procs EXCEPT ![proc(c)].request = "busy"])
    \/ Top(c, "finish") /\ Go(c, <<>>)
       /\ \E p \in SpProcs : /\ procs[p].request = "busy"
                             /\ OnlyProcs([procs EXCEPT ![p].request = "done"])
    \/ Top(c, "ticks0") /\ Go(c, <<>>) /\ OnlyProcs([procs EXCEPT ![proc(c)].ticks0 = clock.ticks])
    \/ Top(c, "kill") /\ Go(c, <<>>)
       /\ \E p \in SpProcs : OnlyProcs([procs EXCEPT ![p].killed = TRUE,
                                                      ![p].state = IF @ = "SLEEPING" THEN "RUNNABLE" ELSE @])
tick(c) == /\ Top(c, "tick") /\ Go(c, <<>>)
           /\ clock' = [clock EXCEPT !.ticks = (@ + 1) % 2 ^ SpWidth]
           /\ UNCHANGED <<cpu, lock, procs, panic>>
\* The loops of sys_sleep, whose n is compared as an unsigned number, and of
\* iderw; the tests of trap and its yield.
nap(c) ==
    /\ Top(c, "nap")
    /\ Go(c, IF Elapsed(proc(c)) >= procs[proc(c)].nap % 2 ^ SpWidth \/ procs[proc(c)].killed THEN <<>>
             ELSE sleep("ticks", "ticks") \o <<Next1(c)>>)
    /\ UNCHANGED <<cpu, lock, procs, clock, panic>>
iderw(c) == /\ Top(c, "done?")
            /\ Go(c, IF procs[proc(c)].request = "done" THEN <<>> ELSE sleep("ide", "ide") \o <<Next1(c)>>)
            /\ UNCHANGED <<cpu, lock, procs, clock, panic>>
Check(c) == /\ Top(c, "check")
            /\ Go(c, IF procs[proc(c)].killed THEN exit_end ELSE <<>>)
            /\ UNCHANGED <<cpu, lock, procs, clock, panic>>
preempt(c) == /\ Top(c, "preempt")
              /\ Go(c, IF procs[proc(c)].state = "RUNNING" THEN yield ELSE <<>>)
              /\ UNCHANGED <<cpu, lock, procs, clock, panic>>
iret(c) == Top(c, "iret") /\ Go(c, <<>>) /\ OnlyCpu(c, [cpu[c] EXCEPT !.ifl = TRUE])
-----------------------------------------------------------------------------
(* A process in user space makes a system call; a device interrupts. *)
trap(c) ==
    /\ proc(c) # 0 /\ stack[Running(c)] = <<>>
    /\ clock.calls[proc(c)] < SpMade
    /\ \E name \in SpCalls[proc(c)], n \in SpNaps :
          /\ stack' = [stack EXCEPT ![Running(c)] =
                          IF procs[proc(c)].killed THEN exit_end ELSE syscall(name) \o check("user")]
          /\ procs' = [procs EXCEPT ![proc(c)].nap = IF name = "sleep" THEN n ELSE 0]
    /\ clock' = [clock EXCEPT !.calls[proc(c)] = @ + 1]
    /\ UNCHANGED <<cpu, lock, panic>>
From(c) == IF stack[Running(c)] = <<>> /\ proc(c) # 0 THEN "user" ELSE "kernel"
Interrupted(c, ops) == /\ cpu[c].ifl
                       /\ stack' = [stack EXCEPT ![Running(c)] = ops \o @]
                       /\ cpu' = [cpu EXCEPT ![c].ifl = FALSE]
                       /\ UNCHANGED <<lock, procs, panic>>
IrqTimer(c) == /\ clock.timers < SpTimers
               /\ clock' = [clock EXCEPT !.timers = @ + 1]
               /\ Interrupted(c, timer(c, From(c)))
\* The disk interrupts the last CPU, once for each request.
Handling == \E x \in KThreads : \E i \in DOMAIN stack[x] : stack[x][i].k = "finish"
IrqIde(c) == /\ c = Max(SpCpus) /\ ~Handling /\ \E p \in SpProcs : procs[p].request = "busy"
             /\ Interrupted(c, ideintr(From(c)))
             /\ UNCHANGED clock

Step(c) == \/ pushcli(c) \/ cli(c) \/ holding(c) \/ holdingCpu(c) \/ xchg(c) \/ own(c) \/ disown(c) \/ unlock(c)
           \/ swtch(c) \/ Swtched(c) \/ sti(c) \/ Scan(c) \/ Changes(c) \/ tick(c) \/ nap(c)
           \/ iderw(c) \/ Check(c) \/ preempt(c) \/ iret(c) \/ trap(c)
SpNext == ~panic /\ \E c \in SpCpus : Step(c) \/ IrqTimer(c) \/ IrqIde(c)
SpSpec == SpInit /\ [][SpNext]_spVars
-----------------------------------------------------------------------------
\* None of the kernel's checks of its locks fails: nobody acquires a lock its
\* CPU holds, releases one it does not, or switches with another lock held
\* (spinlock.c, sched).
LocksUsedRight == ~panic

\* A CPU that holds a lock takes no interrupts, and code that holds none, and
\* is not a handler, does: the flag is that of the thread, wherever it goes on
\* (pushcli, popcli, sched).
InHandler(x) == \E i \in DOMAIN stack[x] : stack[x][i].k = "iret"
FlagsRight ==
    \A c \in SpCpus :
        /\ (cpu[c].ncli > 0 \/ \E l \in Locks : lock[l].cpu = c) => ~cpu[c].ifl
        /\ (proc(c) # 0 /\ cpu[c].ncli = 0 /\ ~InHandler(Running(c))) => cpu[c].ifl

\* A lock that is taken is released by a thread that runs: no lock leaves with
\* the thread that took it, but ptable.lock, which the next one releases
\* (sched, scheduler, forkret).  And the CPUs do not all spin.
Releases(x, l) ==
    \E i \in DOMAIN stack[x] :
        \/ stack[x][i].l = l /\ stack[x][i].k \in {"disown", "unlock"}
        \/ stack[x][i].l = l /\ stack[x][i].k \in {"locked", "cpu"} /\ stack[x][i].v # "acquire"
        \/ stack[x][i].k = "swtch" /\ l = "ptable"
LocksComeBack ==
    /\ \A l \in Locks : lock[l].locked => \E c \in SpCpus : Releases(Running(c), l)
    /\ \E c \in SpCpus : ~(Top(c, "xchg") /\ lock[Next1(c).l].locked)

\* Who sleeps for the clock or the disk longer than it should is about to be
\* woken (sys_sleep, iderw, sleep, wakeup).
Waking(chan) == \E x \in KThreads : \E i \in DOMAIN stack[x] : stack[x][i].k = "wakeup1" /\ stack[x][i].l = chan
SleepersDue ==
    \A p \in SpProcs : procs[p].state = "SLEEPING" =>
        \/ procs[p].chan = "ticks" /\ (Elapsed(p) < procs[p].nap % 2 ^ SpWidth \/ Waking("ticks"))
        \/ procs[p].chan = "ide" /\ (procs[p].request = "busy" \/ Waking("ide"))

\* acquire and release are balanced on every path, through sleep, swtch and
\* the interrupts that find a CPU anywhere: no lock is taken twice or given
\* back by a CPU that does not hold it, interrupts are off while one is held
\* and on again after the last, every lock comes back, and who sleeps has a
\* wakeup to come (spinlock.c, trap.c, sched and scheduler of proc.c).
LocksSound == LocksUsedRight /\ FlagsRight /\ LocksComeBack /\ SleepersDue
=============================================================================
