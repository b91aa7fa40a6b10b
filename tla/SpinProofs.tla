----------------------------- MODULE SpinProofs -----------------------------
(***************************************************************************)
(* Proofs about the spin locks, on any number of CPUs and processes and    *)
(* with interrupts anywhere.  A stack is good when what is still to be     *)
(* done leads, step by step, from the locks its CPU holds to none: then    *)
(* acquire and release are balanced, holding() is asked with the right     *)
(* answer, and a thread that sched() leaves can be gone on with by another *)
(* CPU that has ptable.lock.                                               *)
(***************************************************************************)
EXTENDS Spin, TLAPS, FiniteSetTheorems, SequenceTheorems, NaturalsInduction, WellFoundedInduction

\* The operations.
Kinds == {"pushcli", "cli", "locked", "cpu", "xchg", "own", "disown", "unlock", "swtch", "intena", "sti", "scan",
          "block", "awake", "runnable", "zombie", "wakeup1", "start", "finish", "ticks0", "kill", "tick", "nap",
          "done?", "check", "preempt", "iret"}
Ops == [k : Kinds, l : Locks \cup {""}, v : {"", "acquire", "release", "sched", "on", "off"}]

\* What a thread that is about to make an operation has: the locks it holds,
\* and a mark when its process is no longer RUNNING.
Marks == Locks \cup {"off", "dead"}
Acquiring(o) == o.k \in {"pushcli", "cli", "xchg", "own"} \/ (o.k \in {"locked", "cpu"} /\ o.v = "acquire")
Releasing(o) == o.k = "disown" \/ (o.k \in {"locked", "cpu"} /\ o.v = "release")
Switching(o) == o.k = "swtch" \/ (o.k \in {"locked", "cpu"} /\ o.v = "sched" /\ o.l = "ptable")

\* An operation of a thread of kind t that has H leaves it with K.
Trans(t, o, H, K) ==
    \/ /\ Acquiring(o) /\ o.l \in Locks \ H /\ (o.k = "cli" => H = {})
       /\ H \subseteq {"ticks", "ide"} /\ (H = {} \/ o.l = "ptable")
       /\ K = H \cup {o.l}
    \/ Releasing(o) /\ o.l \in H /\ H \subseteq Locks /\ K = H \ {o.l}
    \/ o.k = "unlock" /\ o.l \in Locks \ H /\ H \subseteq Locks /\ K = H
    \/ t = "proc" /\ Switching(o) /\ H = {"ptable", "off"} /\ K = {"ptable"}
    \/ t = "proc" /\ Switching(o) /\ H = {"ptable", "dead"}
    \/ t = "proc" /\ o.k \in {"intena", "awake"} /\ H = {"ptable"} /\ K = H
    \/ t = "proc" /\ o.k \in {"block", "runnable"} /\ H = {"ptable"} /\ K = {"ptable", "off"}
    \/ t = "proc" /\ o.k = "zombie" /\ H = {"ptable"} /\ K = {"ptable", "dead"}
    \/ t = "proc" /\ o.k = "kill" /\ H = {"ptable"} /\ K = H
    \/ t = "proc" /\ o.k \in {"ticks0", "nap"} /\ H = {"ticks"} /\ K = H
    \/ t = "proc" /\ o.k \in {"start", "done?"} /\ H = {"ide"} /\ K = H
    \/ t = "proc" /\ o.k \in {"check", "preempt"} /\ H = {} /\ K = H
    \/ t = "cpu" /\ o.k = "scan" /\ H = {"ptable"} /\ K = H
    \/ t = "cpu" /\ o.k = "sti" /\ H = {} /\ K = H
    \/ o.k = "iret" /\ H = {} /\ K = H
    \/ o.k = "wakeup1" /\ "ptable" \in H /\ H \subseteq Locks /\ K = H
    \/ o.k = "tick" /\ H = {"ticks"} /\ K = H
    \/ o.k = "finish" /\ H = {"ide"} /\ K = H

\* The operations s lead from H to no lock at all.
Legal(t, s, H) ==
    \E h \in [1 .. Len(s) + 1 -> SUBSET Marks] :
        /\ h[1] = H /\ h[Len(s) + 1] = {}
        /\ \A i \in 1 .. Len(s) : Trans(t, s[i], h[i], h[i + 1])

\* Between cli and the end of acquire, and at the end of release, a CPU has
\* interrupts off for a lock it does not hold.
Mid(s) == s # <<>> /\ LET o == Head(s)
                      IN  \/ o.k \in {"locked", "cpu"} /\ o.v = "acquire"
                          \/ o.k \in {"xchg", "own", "unlock"}
\* What is under the top of a stack has not begun.
Waits(o) == /\ o.k \notin {"xchg", "own", "unlock", "intena"}
            /\ o.k \in {"locked", "cpu"} => o.v # "acquire"
Calm(s) == \A i \in DOMAIN s : i > 1 => Waits(s[i])
NoIret(s) == \A i \in DOMAIN s : s[i].k # "iret"
\* The flag of a process that no handler interrupted is on, or will be.
Base(s, r) == IF s # <<>> /\ Head(s).k = "intena" THEN Head(s).v = "on"
              ELSE IF r.ncli = 0 THEN r.ifl ELSE r.intena
Count(H) == Cardinality(H \cap Locks)
Good(t, s, r, H) ==
    /\ Legal(t, s, H) /\ Calm(s)
    /\ r.ncli = Count(H) + (IF Mid(s) THEN 1 ELSE 0)
    /\ r.ifl => r.ncli = 0
    /\ t = "proc" /\ NoIret(s) => Base(s, r)

Mark(c) == IF proc(c) = 0 \/ procs[proc(c)].state = "RUNNING" THEN {}
           ELSE IF procs[proc(c)].state = "ZOMBIE" THEN {"dead"} ELSE {"off"}
Hold(c) == {l \in Locks : lock[l].cpu = c} \cup Mark(c)
\* c holds l, or is about to write that it does, or about to free it.
Partly(c, l) == /\ stack[Running(c)] # <<>>
                /\ Next1(c).k \in {"own", "unlock"} /\ Next1(c).l = l
Busy(c, l) == lock[l].cpu = c \/ Partly(c, l)

Cpu == [ifl : BOOLEAN, ncli : Nat, intena : BOOLEAN, on : KThreads, p : Nat]
Lock == [locked : BOOLEAN, cpu : SpCpus \cup {0}]
Proc == [state : {"RUNNABLE", "RUNNING", "SLEEPING", "ZOMBIE"}, chan : Locks \cup {""}, killed : BOOLEAN,
         request : {"busy", "done"}, nap : Int, ticks0 : Int]
SpTypes ==
    /\ cpu \in [SpCpus -> Cpu] /\ stack \in [KThreads -> Seq(Ops)]
    /\ lock \in [Locks -> Lock] /\ procs \in [SpProcs -> Proc]
    /\ DOMAIN clock = {"ticks", "timers", "calls"} /\ clock.ticks \in Int
\* A CPU runs its scheduler or a process that no other runs.
OnOne == /\ \A c \in SpCpus : Running(c)[1] = "cpu" => Running(c) = Sched(c)
         /\ \A c, d \in SpCpus : Running(c) = Running(d) => c = d
Mutex == \A l \in Locks :
            /\ lock[l].locked <=> \E c \in SpCpus : Busy(c, l)
            /\ \A c, d \in SpCpus : Busy(c, l) /\ Busy(d, l) => c = d
AllGood == \A c \in SpCpus : Good(Running(c)[1], stack[Running(c)], cpu[c], Hold(c))
\* Who does not run will come back with ptable.lock, or never.
Parked(x) == /\ ~Mid(stack[x])
             /\ Legal(x[1], stack[x], {"ptable"}) /\ Calm(stack[x])
             /\ x[1] = "proc" /\ NoIret(stack[x]) => /\ stack[x] # <<>>
                                                     /\ Head(stack[x]).k = "intena" /\ Head(stack[x]).v = "on"
AllParked == \A x \in KThreads :
    \/ \E c \in SpCpus : Running(c) = x
    \/ x[1] = "proc" /\ procs[x[2]].state = "ZOMBIE"
    \/ Parked(x)
SpInv == SpTypes /\ OnOne /\ Mutex /\ AllGood /\ AllParked /\ ~panic
-----------------------------------------------------------------------------
\* Sleeping.
Has(s, k, l) == \E i \in DOMAIN s : s[i].k = k /\ s[i].l = l
Wakes(s) == \A i \in DOMAIN s :
    /\ s[i].k = "tick" => \E j \in DOMAIN s : j > i /\ s[j].k = "wakeup1" /\ s[j].l = "ticks"
    /\ s[i].k = "finish" => \E j \in DOMAIN s : j > i /\ s[j].k = "wakeup1" /\ s[j].l = "ide"
NotDue(p, l) == IF l = "ticks" THEN Elapsed(p) < procs[p].nap % 2 ^ SpWidth ELSE procs[p].request = "busy"
\* A process on its way to sleep(l) has l, under which it has found that it
\* must wait, and then ptable.lock.
Going(c, i) ==
    LET s == stack[Running(c)]
        l == s[i].l
    IN  /\ l \in {"ticks", "ide"} /\ i <= 3
        /\ i = 3 => /\ Acquiring(s[1]) /\ s[1].l = "ptable"
                    /\ s[2].k = "locked" /\ s[2].v = "release" /\ s[2].l = l
                    /\ lock[l].cpu = c /\ NotDue(proc(c), l)
        /\ i = 2 => (Releasing(s[1]) \/ s[1].k = "unlock") /\ s[1].l = l
        /\ i < 3 => lock["ptable"].cpu = c /\ (NotDue(proc(c), l) \/ Waking(l))
SleepInv ==
    /\ \A x \in KThreads : Wakes(stack[x])
    /\ \A x \in KThreads : (\E i \in DOMAIN stack[x] : stack[x][i].k = "block") => \E c \in SpCpus : Running(c) = x
    /\ \A c \in SpCpus : \A i \in DOMAIN stack[Running(c)] :
          stack[Running(c)][i].k = "block" => Going(c, i)
    /\ \A p \in SpProcs : procs[p].state = "SLEEPING" =>
          /\ procs[p].chan \in {"ticks", "ide"}
          /\ NotDue(p, procs[p].chan) \/ Waking(procs[p].chan)
-----------------------------------------------------------------------------
(* Stacks *)
LEMMA Cons ==
    ASSUME NEW o \in Ops, NEW s \in Seq(Ops)
    PROVE  /\ <<o>> \o s \in Seq(Ops) /\ <<o>> \o s # <<>>
           /\ Len(<<o>> \o s) = Len(s) + 1
           /\ (<<o>> \o s)[1] = o
           /\ \A i \in 2 .. Len(s) + 1 : (<<o>> \o s)[i] = s[i - 1]
           /\ Head(<<o>> \o s) = o /\ Tail(<<o>> \o s) = s
  <1>1. /\ <<o>> \o s \in Seq(Ops) /\ Len(<<o>> \o s) = Len(s) + 1
        /\ \A i \in 1 .. Len(s) + 1 : (<<o>> \o s)[i] = IF i <= 1 THEN o ELSE s[i - 1]
    <2>1. <<o>> \in Seq(Ops) /\ Len(<<o>>) = 1 /\ <<o>>[1] = o  OBVIOUS
    <2> QED  BY <2>1, ConcatProperties
  <1>2. Len(s) \in Nat  OBVIOUS
  <1>3. <<o>> \o s # <<>>  BY <1>1, <1>2
  <1>4. Head(<<o>> \o s) = o /\ Tail(<<o>> \o s) \in Seq(Ops) /\ Len(Tail(<<o>> \o s)) = Len(s)
        /\ \A i \in 1 .. Len(s) : Tail(<<o>> \o s)[i] = (<<o>> \o s)[i + 1]
    BY <1>1, <1>2, <1>3, HeadTailProperties
  <1>5. Tail(<<o>> \o s) = s
    <2>1. \A i \in 1 .. Len(s) : Tail(<<o>> \o s)[i] = s[i]  BY <1>1, <1>2, <1>4
    <2> QED  BY <2>1, <1>4, SeqEqual
  <1> QED  BY <1>1, <1>2, <1>3, <1>4, <1>5

LEMMA Uncons ==
    ASSUME NEW s \in Seq(Ops), s # <<>>
    PROVE  /\ Head(s) \in Ops /\ Head(s) = s[1] /\ Tail(s) \in Seq(Ops) /\ s = <<Head(s)>> \o Tail(s)
           /\ Len(s) = Len(Tail(s)) + 1 /\ 1 \in DOMAIN s
  <1>1. /\ Tail(s) \in Seq(Ops) /\ Len(Tail(s)) = Len(s) - 1 /\ Head(s) = s[1]
        /\ \A i \in 1 .. Len(Tail(s)) : Tail(s)[i] = s[i + 1]
    BY HeadTailProperties
  <1>2. Len(s) \in Nat \ {0} /\ DOMAIN s = 1 .. Len(s)  BY EmptySeq, LenProperties
  <1>3. Head(s) \in Ops  BY <1>1, <1>2, ElementOfSeq
  <1>4. s = <<Head(s)>> \o Tail(s)
    <2>1. /\ <<Head(s)>> \o Tail(s) \in Seq(Ops) /\ Len(<<Head(s)>> \o Tail(s)) = Len(s)
          /\ (<<Head(s)>> \o Tail(s))[1] = s[1]
          /\ \A i \in 2 .. Len(s) : (<<Head(s)>> \o Tail(s))[i] = Tail(s)[i - 1]
      BY <1>1, <1>2, <1>3, Cons
    <2>2. \A i \in 1 .. Len(s) : (<<Head(s)>> \o Tail(s))[i] = s[i]
      BY <1>1, <1>2, <2>1
    <2> QED  BY <2>1, <2>2, SeqEqual
  <1> QED  BY <1>1, <1>2, <1>3, <1>4

\* Least of a nonempty set of naturals.
LEMMA Least ==
    ASSUME NEW S, S \subseteq Nat, S # {}
    PROVE  \E x \in S : \A y \in S : x <= y
  <1> DEFINE R == OpToRel(<, Nat)
  <1>1. IsWellFoundedOn(R, Nat)  BY NatLessThanWellFounded
  <1>2. \A x, y \in Nat : y < x => <<y, x>> \in R  BY DEF OpToRel
  <1> HIDE DEF R
  <1>3. PICK x \in S : \A y \in S : ~ (<<y, x>> \in R)  BY <1>1, WFMin
  <1>4. \A y \in S : x <= y
    <2> TAKE y \in S
    <2>1. x \in Nat /\ y \in Nat /\ ~(y < x)  BY <1>2, <1>3
    <2> QED  BY <2>1
  <1> QED  BY <1>4
-----------------------------------------------------------------------------
(* Legal stacks *)
LEMMA MarksOf ==
    ASSUME NEW t, NEW o, NEW H, NEW K, Trans(t, o, H, K)
    PROVE  H \subseteq Marks
  BY DEF Trans, Marks, Locks

LEMMA LegalEmpty ==
    ASSUME NEW t
    PROVE  /\ \A H : Legal(t, <<>>, H) => H = {}
           /\ Legal(t, <<>>, {})
  <1>1. Len(<<>>) = 0  OBVIOUS
  <1>2. \A H : Legal(t, <<>>, H) => H = {}  BY <1>1 DEF Legal
  <1>3. Legal(t, <<>>, {})
    <2> DEFINE h == [i \in 1 .. 1 |-> {}]
    <2>1. h \in [1 .. Len(<<>>) + 1 -> SUBSET Marks] /\ h[1] = {}  BY <1>1
    <2>2. \A i \in 1 .. Len(<<>>) : Trans(t, <<>>[i], h[i], h[i + 1])  BY <1>1
    <2> HIDE DEF h
    <2> QED  BY <1>1, <2>1, <2>2 DEF Legal
  <1> QED  BY <1>2, <1>3

LEMMA LegalMarks ==
    ASSUME NEW t, NEW s \in Seq(Ops), NEW H, Legal(t, s, H)
    PROVE  H \subseteq Marks
  <1>1. Len(s) + 1 \in Nat /\ 1 \in 1 .. Len(s) + 1  OBVIOUS
  <1> QED  BY <1>1 DEF Legal

LEMMA LegalPush ==
    ASSUME NEW t, NEW s \in Seq(Ops), NEW o \in Ops, NEW H, NEW K, Trans(t, o, H, K), Legal(t, s, K)
    PROVE  Legal(t, <<o>> \o s, H)
  <1> DEFINE u == <<o>> \o s
  <1>1. /\ Len(u) = Len(s) + 1 /\ u[1] = o
        /\ \A i \in 2 .. Len(s) + 1 : u[i] = s[i - 1]  BY Cons
  <1>2. H \subseteq Marks  BY MarksOf
  <1>3. Len(s) \in Nat  OBVIOUS
  <1>4. PICK h \in [1 .. Len(s) + 1 -> SUBSET Marks] :
            /\ h[1] = K /\ h[Len(s) + 1] = {}
            /\ \A i \in 1 .. Len(s) : Trans(t, s[i], h[i], h[i + 1])
    BY DEF Legal
  <1> DEFINE g == [i \in 1 .. Len(s) + 2 |-> IF i = 1 THEN H ELSE h[i - 1]]
  <1>5. \A i \in 1 .. Len(s) + 1 : h[i] \subseteq Marks  BY <1>4
  <1>6. g \in [1 .. Len(s) + 2 -> SUBSET Marks]
    <2>1. \A i \in 1 .. Len(s) + 2 : i # 1 => i - 1 \in 1 .. Len(s) + 1  BY <1>3
    <2> QED  BY <1>2, <1>5, <2>1
  <1>7. /\ g[1] = H /\ g[2] = K /\ g[Len(s) + 2] = {}
        /\ \A i \in 1 .. Len(s) + 1 : g[i + 1] = h[i]
    BY <1>3, <1>4
  <1> HIDE DEF u, g
  <1>8. \A i \in 1 .. Len(s) + 1 : Trans(t, u[i], g[i], g[i + 1])
    <2> TAKE i \in 1 .. Len(s) + 1
    <2>1. CASE i = 1  BY <1>1, <1>7, <2>1
    <2>2. CASE i # 1
      <3>1. i - 1 \in 1 .. Len(s) /\ i \in 2 .. Len(s) + 1 /\ (i - 1) + 1 = i  BY <1>3, <2>2
      <3>2. Trans(t, s[i - 1], h[i - 1], h[i])  BY <1>4, <3>1
      <3>3. u[i] = s[i - 1] /\ g[i] = h[i - 1] /\ g[i + 1] = h[i]  BY <1>1, <1>7, <3>1, <1>3
      <3> QED  BY <3>2, <3>3
    <2> QED  BY <2>1, <2>2
  <1>9. Len(u) + 1 = Len(s) + 2  BY <1>1, <1>3
  <1>10. Legal(t, u, H)  BY <1>1, <1>6, <1>7, <1>8, <1>9 DEF Legal
  <1> QED  BY <1>10 DEF u

LEMMA LegalPop ==
    ASSUME NEW t, NEW s \in Seq(Ops), NEW o \in Ops, NEW H, Legal(t, <<o>> \o s, H)
    PROVE  \E K : Trans(t, o, H, K) /\ Legal(t, s, K)
  <1> DEFINE u == <<o>> \o s
  <1>1. /\ Len(u) = Len(s) + 1 /\ u[1] = o
        /\ \A i \in 2 .. Len(s) + 1 : u[i] = s[i - 1]  BY Cons
  <1>2. Len(s) \in Nat  OBVIOUS
  <1> HIDE DEF u
  <1>3. Legal(t, u, H)  BY DEF u
  <1>4. PICK h \in [1 .. Len(s) + 2 -> SUBSET Marks] :
            /\ h[1] = H /\ h[Len(s) + 2] = {}
            /\ \A i \in 1 .. Len(s) + 1 : Trans(t, u[i], h[i], h[i + 1])
    <2>1. Len(u) + 1 = Len(s) + 2  BY <1>1, <1>2
    <2> QED  BY <1>3, <1>1, <2>1 DEF Legal
  <1> DEFINE g == [i \in 1 .. Len(s) + 1 |-> h[i + 1]]
  <1>5. \A i \in 1 .. Len(s) + 2 : h[i] \subseteq Marks  BY <1>4
  <1>6. g \in [1 .. Len(s) + 1 -> SUBSET Marks]
    <2>1. \A i \in 1 .. Len(s) + 1 : i + 1 \in 1 .. Len(s) + 2  BY <1>2
    <2> QED  BY <1>5, <2>1
  <1>7. /\ g[1] = h[2] /\ g[Len(s) + 1] = {}
        /\ \A i \in 1 .. Len(s) + 1 : g[i] = h[i + 1]
    BY <1>2, <1>4
  <1> HIDE DEF g
  <1>8. \A i \in 1 .. Len(s) : Trans(t, s[i], g[i], g[i + 1])
    <2> TAKE i \in 1 .. Len(s)
    <2>1. /\ i + 1 \in 1 .. Len(s) + 1 /\ i + 1 \in 2 .. Len(s) + 1 /\ (i + 1) - 1 = i
          /\ i \in 1 .. Len(s) + 1
      BY <1>2
    <2>2. Trans(t, u[i + 1], h[i + 1], h[(i + 1) + 1]) /\ u[i + 1] = s[i]  BY <1>1, <1>4, <2>1
    <2>3. g[i] = h[i + 1] /\ g[i + 1] = h[(i + 1) + 1]  BY <1>7, <2>1
    <2> QED  BY <2>2, <2>3
  <1>9. Legal(t, s, h[2])  BY <1>6, <1>7, <1>8 DEF Legal
  <1>10. 1 \in 1 .. Len(s) + 1 /\ 1 + 1 = 2  BY <1>2
  <1> QED  BY <1>1, <1>4, <1>9, <1>10
-----------------------------------------------------------------------------
(* Code: sequences of operations that lead from H to K, on any stack. *)
Quiet(s) == \A i \in DOMAIN s : Waits(s[i])
Code(t, ops, H, K) ==
    /\ ops \in Seq(Ops) /\ Quiet(ops)
    /\ \A s \in Seq(Ops) : Legal(t, s, K) => Legal(t, ops \o s, H)

LEMMA Places ==
    ASSUME NEW a \in Seq(Ops), NEW b \in Seq(Ops)
    PROVE  /\ a \o b \in Seq(Ops) /\ Len(a) \in Nat
           /\ DOMAIN a \subseteq Nat /\ DOMAIN b \subseteq Nat \ {0} /\ DOMAIN (a \o b) \subseteq Nat \ {0}
           /\ \A i \in DOMAIN a : i \in DOMAIN (a \o b) /\ (a \o b)[i] = a[i] /\ i <= Len(a)
           /\ \A i \in DOMAIN b : Len(a) + i \in DOMAIN (a \o b) /\ (a \o b)[Len(a) + i] = b[i]
           /\ \A i \in DOMAIN (a \o b) : \/ i \in DOMAIN a /\ (a \o b)[i] = a[i]
                                         \/ \E j \in DOMAIN b : i = Len(a) + j /\ (a \o b)[i] = b[j]
  <1>1. /\ Len(a) \in Nat /\ Len(b) \in Nat /\ a \o b \in Seq(Ops)
        /\ DOMAIN a = 1 .. Len(a) /\ DOMAIN b = 1 .. Len(b) /\ DOMAIN (a \o b) = 1 .. Len(a) + Len(b)
        /\ \A i \in 1 .. Len(a) + Len(b) : (a \o b)[i] = IF i <= Len(a) THEN a[i] ELSE b[i - Len(a)]
    BY ConcatProperties, LenProperties
  <1>2. \A i \in 1 .. Len(a) : i \in 1 .. Len(a) + Len(b) /\ (a \o b)[i] = a[i]  BY <1>1
  <1>3. \A i \in 1 .. Len(b) : Len(a) + i \in 1 .. Len(a) + Len(b) /\ (a \o b)[Len(a) + i] = b[i]  BY <1>1
  <1>4. ASSUME NEW i \in 1 .. Len(a) + Len(b)
        PROVE  \/ i \in 1 .. Len(a) /\ (a \o b)[i] = a[i]
               \/ \E j \in 1 .. Len(b) : i = Len(a) + j /\ (a \o b)[i] = b[j]
    <2>1. CASE i <= Len(a)  BY <1>1, <2>1
    <2>2. CASE ~(i <= Len(a))
      <3>1. i - Len(a) \in 1 .. Len(b) /\ i = Len(a) + (i - Len(a)) /\ (a \o b)[i] = b[i - Len(a)]
        BY <1>1, <2>2
      <3> QED  BY <3>1
    <2> QED  BY <2>1, <2>2
  <1>5. \A i \in 1 .. Len(a) : i <= Len(a) /\ i \in Nat  BY <1>1
  <1>6. 1 .. Len(b) \subseteq Nat \ {0} /\ 1 .. Len(a) + Len(b) \subseteq Nat \ {0}  BY <1>1
  <1>7. DOMAIN a = 1 .. Len(a) /\ DOMAIN b = 1 .. Len(b) /\ DOMAIN (a \o b) = 1 .. Len(a) + Len(b)  BY <1>1
  <1>8. a \o b \in Seq(Ops) /\ Len(a) \in Nat  BY <1>1
  <1> HIDE <1>1
  <1> QED  BY ONLY <1>2, <1>3, <1>4, <1>5, <1>6, <1>7, <1>8

LEMMA Assoc ==
    ASSUME NEW a \in Seq(Ops), NEW b \in Seq(Ops), NEW s \in Seq(Ops)
    PROVE  (a \o b) \o s = a \o (b \o s) /\ <<>> \o s = s /\ a \o b \in Seq(Ops)
  <1>1. (a \o b) \o s = a \o (b \o s)  BY ConcatAssociative
  <1>2. <<>> \o s = s  BY ConcatEmptySeq
  <1>3. a \o b \in Seq(Ops)  BY ConcatProperties
  <1> QED  BY <1>1, <1>2, <1>3

LEMMA QuietCat ==
    ASSUME NEW a \in Seq(Ops), NEW b \in Seq(Ops), Quiet(a)
    PROVE  (Quiet(b) => Quiet(a \o b)) /\ (Quiet(b) => Calm(b)) /\ (Calm(a))
           /\ (Calm(b) /\ (b # <<>> => Waits(b[1])) => Calm(a \o b))
  <1>1. Quiet(b) => Quiet(a \o b)  BY Places DEF Quiet
  <1>2. (Quiet(b) => Calm(b)) /\ Calm(a)  BY DEF Quiet, Calm
  <1>3. ASSUME Calm(b), b # <<>> => Waits(b[1])  PROVE  Calm(a \o b)
    <2>1. Quiet(b)
      <3>1. \A i \in DOMAIN b : i \in Nat \ {0} /\ (i > 1 \/ i = 1)  BY Places
      <3>2. \A i \in DOMAIN b : b # <<>>  OBVIOUS
      <3> QED  BY <3>1, <3>2, <1>3 DEF Quiet, Calm
    <2> QED  BY <1>1, <2>1 DEF Quiet, Calm
  <1> QED  BY <1>1, <1>2, <1>3

LEMMA NoIretCat ==
    ASSUME NEW a \in Seq(Ops), NEW b \in Seq(Ops)
    PROVE  NoIret(a \o b) <=> NoIret(a) /\ NoIret(b)
  <1> DEFINE c == a \o b
  <1>1. /\ \A i \in DOMAIN a : i \in DOMAIN c /\ c[i] = a[i]
        /\ \A i \in DOMAIN b : Len(a) + i \in DOMAIN c /\ c[Len(a) + i] = b[i]
        /\ \A i \in DOMAIN c : (i \in DOMAIN a /\ c[i] = a[i]) \/ (\E j \in DOMAIN b : c[i] = b[j])
    BY Places
  <1> HIDE DEF c
  <1>2. NoIret(c) <=> NoIret(a) /\ NoIret(b)  BY ONLY <1>1 DEF NoIret
  <1> QED  BY <1>2 DEF c

LEMMA CodeNil ==
    ASSUME NEW t, NEW H
    PROVE  Code(t, <<>>, H, H)
  <1>1. <<>> \in Seq(Ops) /\ Quiet(<<>>)  BY DEF Quiet
  <1>2. \A s \in Seq(Ops) : <<>> \o s = s  BY ConcatEmptySeq
  <1> QED  BY <1>1, <1>2 DEF Code

LEMMA CodeOne ==
    ASSUME NEW t, NEW o \in Ops, NEW H, NEW K, Waits(o), Trans(t, o, H, K)
    PROVE  Code(t, <<o>>, H, K)
  <1>1. <<o>> \in Seq(Ops) /\ Quiet(<<o>>)  BY DEF Quiet
  <1> QED  BY <1>1, LegalPush DEF Code

LEMMA CodeCat ==
    ASSUME NEW t, NEW a, NEW b, NEW H, NEW K, NEW M, Code(t, a, H, K), Code(t, b, K, M)
    PROVE  Code(t, a \o b, H, M)
  <1>1. a \in Seq(Ops) /\ b \in Seq(Ops) /\ Quiet(a) /\ Quiet(b)  BY DEF Code
  <1>2. a \o b \in Seq(Ops) /\ Quiet(a \o b)  BY <1>1, Assoc, QuietCat
  <1>3. ASSUME NEW s \in Seq(Ops), Legal(t, s, M)
        PROVE  Legal(t, (a \o b) \o s, H)
    <2>1. Legal(t, b \o s, K) /\ b \o s \in Seq(Ops)  BY <1>1, <1>3, Assoc DEF Code
    <2>2. Legal(t, a \o (b \o s), H)  BY <2>1 DEF Code
    <2> QED  BY ZenonT(40), <1>1, <2>2, Assoc
  <1> QED  BY <1>2, <1>3 DEF Code
-----------------------------------------------------------------------------
(* The code of Spin *)
LEMMA OpIs ==
    ASSUME NEW n \in Kinds, NEW m \in Locks \cup {""}
    PROVE  /\ Op(n, m) \in Ops /\ Op(n, m).k = n /\ Op(n, m).l = m
           /\ (n \notin {"xchg", "own", "unlock", "intena", "locked", "cpu"} => Waits(Op(n, m)))
  <1>1. Op(n, m) = [k |-> n, l |-> m, v |-> ""]  BY DEF Op
  <1>2. [k |-> n, l |-> m, v |-> ""] \in Ops  BY DEF Ops
  <1>3. Op(n, m).k = n /\ Op(n, m).l = m  BY ONLY DEF Op
  <1> QED  BY <1>1, <1>2, <1>3 DEF Waits

LEMMA CodeAcquire ==
    ASSUME NEW t, NEW l \in Locks, NEW H \in SUBSET {"ticks", "ide"}, l \notin H, H = {} \/ l = "ptable"
    PROVE  Code(t, acquire(l), H, H \cup {l})
  <1>1. "pushcli" \in Kinds  BY DEF Kinds
  <1>2. Op("pushcli", l) \in Ops /\ Waits(Op("pushcli", l)) /\ Op("pushcli", l).k = "pushcli" /\ Op("pushcli", l).l = l
    BY <1>1, OpIs
  <1>3. Trans(t, Op("pushcli", l), H, H \cup {l})  BY <1>2 DEF Trans, Acquiring
  <1> QED  BY <1>2, <1>3, CodeOne DEF acquire

LEMMA CodeRelease ==
    ASSUME NEW t, NEW H \in SUBSET Locks, NEW l \in H
    PROVE  Code(t, release(l), H, H \ {l})
  <1> DEFINE o == [k |-> "locked", l |-> l, v |-> "release"]
  <1>1. o \in Ops /\ Waits(o) /\ o.k = "locked" /\ o.v = "release" /\ o.l = l  BY DEF Ops, Waits, Kinds, Locks
  <1> HIDE DEF o
  <1>2. Trans(t, o, H, H \ {l})  BY <1>1 DEF Trans, Releasing
  <1>3. Code(t, <<o>>, H, H \ {l})  BY <1>1, <1>2, CodeOne
  <1> QED  BY <1>3 DEF release, o

LEMMA CodeSched ==
    /\ Code("proc", sched, {"ptable", "off"}, {"ptable"})
    /\ \A K : Code("proc", sched, {"ptable", "dead"}, K)
  <1> DEFINE o == [k |-> "locked", l |-> "ptable", v |-> "sched"]
  <1>1. o \in Ops /\ Waits(o) /\ o.k = "locked" /\ o.v = "sched" /\ o.l = "ptable"  BY DEF Ops, Waits, Kinds, Locks
  <1> HIDE DEF o
  <1>2. Trans("proc", o, {"ptable", "off"}, {"ptable"}) /\ \A K : Trans("proc", o, {"ptable", "dead"}, K)
    BY <1>1 DEF Trans, Switching
  <1>3. /\ Code("proc", <<o>>, {"ptable", "off"}, {"ptable"})
        /\ \A K : Code("proc", <<o>>, {"ptable", "dead"}, K)
    BY <1>1, <1>2, CodeOne
  <1> QED  BY <1>3 DEF sched, o

LEMMA CodeSleep ==
    ASSUME NEW l \in {"ticks", "ide"}
    PROVE  Code("proc", sleep(l, l), {l}, {l})
  <1>1. Code("proc", acquire("ptable"), {l}, {l, "ptable"})
    <2>1. {l} \cup {"ptable"} = {l, "ptable"}  OBVIOUS
    <2> QED  BY <2>1, CodeAcquire DEF Locks
  <1>2. Code("proc", release(l), {l, "ptable"}, {"ptable"})
    <2>1. {l, "ptable"} \ {l} = {"ptable"} /\ {l, "ptable"} \in SUBSET Locks  BY DEF Locks
    <2> QED  BY <2>1, CodeRelease
  <1>3. Code("proc", <<Op("block", l)>>, {"ptable"}, {"ptable", "off"})
    <2>1. Op("block", l) \in Ops /\ Waits(Op("block", l)) /\ Op("block", l).k = "block"
      <3>1. "block" \in Kinds /\ l \in Locks \cup {""}  BY DEF Kinds, Locks
      <3> QED  BY <3>1, OpIs
    <2>2. Trans("proc", Op("block", l), {"ptable"}, {"ptable", "off"})  BY <2>1 DEF Trans
    <2> QED  BY <2>1, <2>2, CodeOne
  <1>4. Code("proc", <<Op("awake", l)>>, {"ptable"}, {"ptable"})
    <2>1. Op("awake", l) \in Ops /\ Waits(Op("awake", l)) /\ Op("awake", l).k = "awake"
      <3>1. "awake" \in Kinds /\ l \in Locks \cup {""}  BY DEF Kinds, Locks
      <3> QED  BY <3>1, OpIs
    <2>2. Trans("proc", Op("awake", l), {"ptable"}, {"ptable"})  BY <2>1 DEF Trans
    <2> QED  BY <2>1, <2>2, CodeOne
  <1>5. Code("proc", release("ptable"), {"ptable"}, {})
    <2>1. {"ptable"} \ {"ptable"} = {} /\ {"ptable"} \in SUBSET Locks  BY DEF Locks
    <2> QED  BY <2>1, CodeRelease
  <1>6. Code("proc", acquire(l), {}, {l})
    <2>1. {} \cup {l} = {l} /\ l \in Locks  BY DEF Locks
    <2> QED  BY <2>1, CodeAcquire
  <1>7. Code("proc", acquire("ptable") \o release(l), {l}, {"ptable"})  BY ONLY <1>1, <1>2, CodeCat
  <1>8. Code("proc", acquire("ptable") \o release(l) \o <<Op("block", l)>>, {l}, {"ptable", "off"})
    BY ONLY <1>7, <1>3, CodeCat
  <1>9. Code("proc", acquire("ptable") \o release(l) \o <<Op("block", l)>> \o sched, {l}, {"ptable"})
    BY ONLY <1>8, CodeSched, CodeCat
  <1>10. Code("proc", acquire("ptable") \o release(l) \o <<Op("block", l)>> \o sched \o <<Op("awake", l)>>,
              {l}, {"ptable"})
    BY ONLY <1>9, <1>4, CodeCat
  <1>11. Code("proc", acquire("ptable") \o release(l) \o <<Op("block", l)>> \o sched \o <<Op("awake", l)>>
                      \o release("ptable"), {l}, {})
    BY ONLY <1>10, <1>5, CodeCat
  <1>12. Code("proc", acquire("ptable") \o release(l) \o <<Op("block", l)>> \o sched \o <<Op("awake", l)>>
                      \o release("ptable") \o acquire(l), {l}, {l})
    BY ONLY <1>11, <1>6, CodeCat
  <1> QED  BY <1>12 DEF sleep


LEMMA CodeOp ==
    ASSUME NEW t, NEW n \in Kinds, NEW m \in Locks \cup {""}, NEW H, NEW K,
           n \notin {"xchg", "own", "unlock", "intena", "locked", "cpu"},
           \A o \in Ops : o.k = n => Trans(t, o, H, K)
    PROVE  Code(t, <<Op(n, m)>>, H, K)
  <1>1. Op(n, m) \in Ops /\ Op(n, m).k = n /\ Waits(Op(n, m))  BY OpIs
  <1> QED  BY <1>1, CodeOne

\* The operations of which the code is made, one by one.
LEMMA CodeOps ==
    /\ Code("proc", <<Op("runnable", "")>>, {"ptable"}, {"ptable", "off"})
    /\ Code("proc", <<Op("zombie", "")>>, {"ptable"}, {"ptable", "dead"})
    /\ Code("proc", <<Op("kill", "")>>, {"ptable"}, {"ptable"})
    /\ Code("proc", <<Op("ticks0", "")>>, {"ticks"}, {"ticks"})
    /\ Code("proc", <<Op("nap", "ticks")>>, {"ticks"}, {"ticks"})
    /\ Code("proc", <<Op("start", "")>>, {"ide"}, {"ide"})
    /\ Code("proc", <<Op("done?", "ide")>>, {"ide"}, {"ide"})
    /\ Code("proc", <<Op("check", "")>>, {}, {})
    /\ Code("proc", <<Op("preempt", "")>>, {}, {})
    /\ Code("cpu", <<Op("scan", "")>>, {"ptable"}, {"ptable"})
    /\ Code("cpu", <<Op("sti", "")>>, {}, {})
  <1> USE CodeOp
  <1>0. "" \in Locks \cup {""} /\ "ticks" \in Locks \cup {""} /\ "ide" \in Locks \cup {""}  BY DEF Locks
  <1>1. Code("proc", <<Op("runnable", "")>>, {"ptable"}, {"ptable", "off"})
    <2>1. "runnable" \in Kinds  BY DEF Kinds
    <2>2. \A o \in Ops : o.k = "runnable" => Trans("proc", o, {"ptable"}, {"ptable", "off"})  BY DEF Trans
    <2> QED  BY <1>0, <2>1, <2>2
  <1>2. Code("proc", <<Op("zombie", "")>>, {"ptable"}, {"ptable", "dead"})
    <2>1. "zombie" \in Kinds  BY DEF Kinds
    <2>2. \A o \in Ops : o.k = "zombie" => Trans("proc", o, {"ptable"}, {"ptable", "dead"})  BY DEF Trans
    <2> QED  BY <1>0, <2>1, <2>2
  <1>3. Code("proc", <<Op("kill", "")>>, {"ptable"}, {"ptable"})
    <2>1. "kill" \in Kinds  BY DEF Kinds
    <2>2. \A o \in Ops : o.k = "kill" => Trans("proc", o, {"ptable"}, {"ptable"})  BY DEF Trans
    <2> QED  BY <1>0, <2>1, <2>2
  <1>4. Code("proc", <<Op("ticks0", "")>>, {"ticks"}, {"ticks"})
    <2>1. "ticks0" \in Kinds  BY DEF Kinds
    <2>2. \A o \in Ops : o.k = "ticks0" => Trans("proc", o, {"ticks"}, {"ticks"})  BY DEF Trans
    <2> QED  BY <1>0, <2>1, <2>2
  <1>5. Code("proc", <<Op("nap", "ticks")>>, {"ticks"}, {"ticks"})
    <2>1. "nap" \in Kinds  BY DEF Kinds
    <2>2. \A o \in Ops : o.k = "nap" => Trans("proc", o, {"ticks"}, {"ticks"})  BY DEF Trans
    <2> QED  BY <1>0, <2>1, <2>2
  <1>6. Code("proc", <<Op("start", "")>>, {"ide"}, {"ide"})
    <2>1. "start" \in Kinds  BY DEF Kinds
    <2>2. \A o \in Ops : o.k = "start" => Trans("proc", o, {"ide"}, {"ide"})  BY DEF Trans
    <2> QED  BY <1>0, <2>1, <2>2
  <1>7. Code("proc", <<Op("done?", "ide")>>, {"ide"}, {"ide"})
    <2>1. "done?" \in Kinds  BY DEF Kinds
    <2>2. \A o \in Ops : o.k = "done?" => Trans("proc", o, {"ide"}, {"ide"})  BY DEF Trans
    <2> QED  BY <1>0, <2>1, <2>2
  <1>8. Code("proc", <<Op("check", "")>>, {}, {})
    <2>1. "check" \in Kinds  BY DEF Kinds
    <2>2. \A o \in Ops : o.k = "check" => Trans("proc", o, {}, {})  BY DEF Trans
    <2> QED  BY <1>0, <2>1, <2>2
  <1>9. Code("proc", <<Op("preempt", "")>>, {}, {})
    <2>1. "preempt" \in Kinds  BY DEF Kinds
    <2>2. \A o \in Ops : o.k = "preempt" => Trans("proc", o, {}, {})  BY DEF Trans
    <2> QED  BY <1>0, <2>1, <2>2
  <1>10. Code("cpu", <<Op("scan", "")>>, {"ptable"}, {"ptable"})
    <2>1. "scan" \in Kinds  BY DEF Kinds
    <2>2. \A o \in Ops : o.k = "scan" => Trans("cpu", o, {"ptable"}, {"ptable"})  BY DEF Trans
    <2> QED  BY <1>0, <2>1, <2>2
  <1>11. Code("cpu", <<Op("sti", "")>>, {}, {})
    <2>1. "sti" \in Kinds  BY DEF Kinds
    <2>2. \A o \in Ops : o.k = "sti" => Trans("cpu", o, {}, {})  BY DEF Trans
    <2> QED  BY <1>0, <2>1, <2>2
  <1> QED  BY <1>1, <1>2, <1>3, <1>4, <1>5, <1>6, <1>7, <1>8, <1>9, <1>10, <1>11

LEMMA CodeHandlerOps ==
    ASSUME NEW t
    PROVE  /\ Code(t, <<Op("iret", "")>>, {}, {})
           /\ Code(t, <<Op("tick", "")>>, {"ticks"}, {"ticks"})
           /\ Code(t, <<Op("finish", "")>>, {"ide"}, {"ide"})
           /\ \A l \in {"ticks", "ide"} :
                 Code(t, <<Op("wakeup1", l)>>, {l, "ptable"}, {l, "ptable"})
  <1> USE CodeOp
  <1>0. "" \in Locks \cup {""} /\ "ticks" \in Locks \cup {""} /\ "ide" \in Locks \cup {""}  BY DEF Locks
  <1>1. Code(t, <<Op("iret", "")>>, {}, {})
    <2>1. "iret" \in Kinds  BY DEF Kinds
    <2>2. \A o \in Ops : o.k = "iret" => Trans(t, o, {}, {})  BY DEF Trans
    <2> QED  BY <1>0, <2>1, <2>2
  <1>2. Code(t, <<Op("tick", "")>>, {"ticks"}, {"ticks"})
    <2>1. "tick" \in Kinds  BY DEF Kinds
    <2>2. \A o \in Ops : o.k = "tick" => Trans(t, o, {"ticks"}, {"ticks"})  BY DEF Trans
    <2> QED  BY <1>0, <2>1, <2>2
  <1>3. Code(t, <<Op("finish", "")>>, {"ide"}, {"ide"})
    <2>1. "finish" \in Kinds  BY DEF Kinds
    <2>2. \A o \in Ops : o.k = "finish" => Trans(t, o, {"ide"}, {"ide"})  BY DEF Trans
    <2> QED  BY <1>0, <2>1, <2>2
  <1>4. ASSUME NEW l \in {"ticks", "ide"}
        PROVE  Code(t, <<Op("wakeup1", l)>>, {l, "ptable"}, {l, "ptable"})
    <2>1. "wakeup1" \in Kinds  BY DEF Kinds
    <2>2. \A o \in Ops : o.k = "wakeup1" => Trans(t, o, {l, "ptable"}, {l, "ptable"})  BY DEF Trans, Locks
    <2> QED  BY <1>0, <2>1, <2>2
  <1> QED  BY <1>1, <1>2, <1>3, <1>4

LEMMA CodeWakeup ==
    ASSUME NEW t, NEW l \in {"ticks", "ide"}
    PROVE  Code(t, wakeup(l), {l}, {l})
  <1>1. Code(t, acquire("ptable"), {l}, {l, "ptable"})
    <2>1. {l} \cup {"ptable"} = {l, "ptable"}  OBVIOUS
    <2> QED  BY <2>1, CodeAcquire DEF Locks
  <1>2. Code(t, <<Op("wakeup1", l)>>, {l, "ptable"}, {l, "ptable"})  BY CodeHandlerOps
  <1>3. Code(t, release("ptable"), {l, "ptable"}, {l})
    <2>1. {l, "ptable"} \ {"ptable"} = {l} /\ {l, "ptable"} \in SUBSET Locks  BY DEF Locks
    <2> QED  BY <2>1, CodeRelease
  <1>4. Code(t, acquire("ptable") \o <<Op("wakeup1", l)>>, {l}, {l, "ptable"})  BY ONLY <1>1, <1>2, CodeCat
  <1>5. Code(t, acquire("ptable") \o <<Op("wakeup1", l)>> \o release("ptable"), {l}, {l})
    BY ONLY <1>4, <1>3, CodeCat
  <1> QED  BY <1>5 DEF wakeup

\* The lock l on its own.
LEMMA CodeLock ==
    ASSUME NEW t, NEW l \in Locks
    PROVE  Code(t, acquire(l), {}, {l}) /\ Code(t, release(l), {l}, {})
  <1>1. {} \cup {l} = {l} /\ {l} \ {l} = {}  OBVIOUS
  <1> QED  BY <1>1, CodeAcquire, CodeRelease

LEMMA CodeYield ==
    /\ Code("proc", yield, {}, {})
    /\ \A K : Code("proc", exit_end, {}, K)
  <1>1. Code("proc", acquire("ptable"), {}, {"ptable"}) /\ Code("proc", release("ptable"), {"ptable"}, {})
    BY CodeLock DEF Locks
  <1>2. Code("proc", acquire("ptable") \o <<Op("runnable", "")>>, {}, {"ptable", "off"})
    BY ONLY <1>1, CodeOps, CodeCat
  <1>3. Code("proc", acquire("ptable") \o <<Op("runnable", "")>> \o sched, {}, {"ptable"})
    BY ONLY <1>2, CodeSched, CodeCat
  <1>4. Code("proc", yield, {}, {})  BY <1>1, <1>3, CodeCat DEF yield
  <1>5. Code("proc", acquire("ptable") \o <<Op("zombie", "")>>, {}, {"ptable", "dead"})
    BY ONLY <1>1, CodeOps, CodeCat
  <1>6. \A K : Code("proc", exit_end, {}, K)  BY <1>5, CodeSched, CodeCat DEF exit_end
  <1> QED  BY <1>4, <1>6

LEMMA CodeScheduler == Code("cpu", scheduler, {}, {})
  <1>1. Code("cpu", acquire("ptable"), {}, {"ptable"}) /\ Code("cpu", release("ptable"), {"ptable"}, {})
    BY CodeLock DEF Locks
  <1>2. Code("cpu", acquire("ptable") \o <<Op("scan", "")>>, {}, {"ptable"})  BY ONLY <1>1, CodeOps, CodeCat
  <1>3. Code("cpu", acquire("ptable") \o <<Op("scan", "")>> \o release("ptable"), {}, {})
    BY ONLY <1>1, <1>2, CodeCat
  <1> QED  BY <1>3, CodeOps, CodeCat DEF scheduler

LEMMA CodeForkret == Code("proc", forkret, {"ptable"}, {})
  <1>1. Code("proc", release("ptable"), {"ptable"}, {})  BY CodeLock DEF Locks
  <1> QED  BY <1>1, CodeHandlerOps, CodeCat DEF forkret

LEMMA Pair ==
    ASSUME NEW a \in Ops, NEW b \in Ops
    PROVE  <<a>> \o <<b>> = <<a, b>>
  <1>1. <<b>> \in Seq(Ops) /\ <<a, b>> \in Seq(Ops) /\ Len(<<b>>) = 1 /\ Len(<<a, b>>) = 2 /\ <<b>>[1] = b
        /\ <<a, b>>[1] = a /\ <<a, b>>[2] = b
    OBVIOUS
  <1>2. /\ <<a>> \o <<b>> \in Seq(Ops) /\ Len(<<a>> \o <<b>>) = 2
        /\ (<<a>> \o <<b>>)[1] = a /\ (<<a>> \o <<b>>)[2] = b
    BY <1>1, Cons
  <1>3. \A i \in 1 .. 2 : i = 1 \/ i = 2  OBVIOUS
  <1> QED  BY <1>1, <1>2, <1>3, SeqEqual

LEMMA CodeSyscall ==
    ASSUME NEW name \in {"uptime", "sleep", "disk", "kill"}
    PROVE  Code("proc", syscall(name), {}, {})
  <1>1. \A l \in Locks : Code("proc", acquire(l), {}, {l}) /\ Code("proc", release(l), {l}, {})  BY CodeLock
  <1>2. "ticks" \in Locks /\ "ide" \in Locks /\ "ptable" \in Locks  BY DEF Locks
  <1>3. CASE name = "uptime"
    <2>1. Code("proc", acquire("ticks") \o release("ticks"), {}, {})  BY ONLY <1>1, <1>2, CodeCat
    <2> QED  BY <1>3, <2>1 DEF syscall
  <1>4. CASE name = "sleep"
    <2>1. Code("proc", <<Op("ticks0", ""), Op("nap", "ticks")>>, {"ticks"}, {"ticks"})
      <3>1. Code("proc", <<Op("ticks0", "")>> \o <<Op("nap", "ticks")>>, {"ticks"}, {"ticks"})
        BY ONLY CodeOps, CodeCat
      <3>2. <<Op("ticks0", "")>> \o <<Op("nap", "ticks")>> = <<Op("ticks0", ""), Op("nap", "ticks")>>
        <4>1. "ticks0" \in Kinds /\ "nap" \in Kinds /\ {"", "ticks", "ide"} \subseteq Locks \cup {""}
          BY DEF Kinds, Locks
        <4>2. Op("ticks0", "") \in Ops /\ Op("nap", "ticks") \in Ops  BY <4>1, OpIs
        <4> QED  BY <4>2, Pair
      <3> QED  BY <3>1, <3>2
    <2>2. Code("proc", acquire("ticks") \o <<Op("ticks0", ""), Op("nap", "ticks")>>, {}, {"ticks"})
      BY ONLY <1>1, <1>2, <2>1, CodeCat
    <2>3. Code("proc", acquire("ticks") \o <<Op("ticks0", ""), Op("nap", "ticks")>> \o release("ticks"), {}, {})
      BY ONLY <1>1, <1>2, <2>2, CodeCat
    <2> QED  BY <1>4, <2>3 DEF syscall
  <1>5. CASE name = "disk"
    <2>1. Code("proc", <<Op("start", ""), Op("done?", "ide")>>, {"ide"}, {"ide"})
      <3>1. Code("proc", <<Op("start", "")>> \o <<Op("done?", "ide")>>, {"ide"}, {"ide"})
        BY ONLY CodeOps, CodeCat
      <3>2. <<Op("start", "")>> \o <<Op("done?", "ide")>> = <<Op("start", ""), Op("done?", "ide")>>
        <4>1. "start" \in Kinds /\ "done?" \in Kinds /\ {"", "ticks", "ide"} \subseteq Locks \cup {""}
          BY DEF Kinds, Locks
        <4>2. Op("start", "") \in Ops /\ Op("done?", "ide") \in Ops  BY <4>1, OpIs
        <4> QED  BY <4>2, Pair
      <3> QED  BY <3>1, <3>2
    <2>2. Code("proc", acquire("ide") \o <<Op("start", ""), Op("done?", "ide")>>, {}, {"ide"})
      BY ONLY <1>1, <1>2, <2>1, CodeCat
    <2>3. Code("proc", acquire("ide") \o <<Op("start", ""), Op("done?", "ide")>> \o release("ide"), {}, {})
      BY ONLY <1>1, <1>2, <2>2, CodeCat
    <2> QED  BY <1>5, <2>3 DEF syscall
  <1>6. CASE name = "kill"
    <2>1. Code("proc", acquire("ptable") \o <<Op("kill", "")>>, {}, {"ptable"})
      BY ONLY <1>1, <1>2, CodeOps, CodeCat
    <2>2. Code("proc", acquire("ptable") \o <<Op("kill", "")>> \o release("ptable"), {}, {})
      BY ONLY <1>1, <1>2, <2>1, CodeCat
    <2> QED  BY <1>6, <2>2 DEF syscall
  <1> QED  BY <1>3, <1>4, <1>5, <1>6

LEMMA CodeCheck ==
    ASSUME NEW t, NEW from \in {"user", "kernel"}, from = "user" => t = "proc"
    PROVE  Code(t, check(from), {}, {})
  BY CodeOps, CodeNil DEF check
-----------------------------------------------------------------------------
(* One step of a thread: from a good stack to a good stack. *)
LEMMA Counts ==
    /\ \A H : Count(H) \in Nat
    /\ Count({}) = 0 /\ Count({"ptable"}) = 1 /\ Count({"ptable", "off"}) = 1 /\ Count({"ptable", "dead"}) = 1
    /\ \A H : Count(H) = 0 => H \cap Locks = {}
    /\ \A H : \A l \in Locks \ H : Count(H \cup {l}) = Count(H) + 1
    /\ \A H : \A l \in Locks \cap H : Count(H \ {l}) + 1 = Count(H)
    /\ \A G, H : G \cap Locks = H \cap Locks => Count(G) = Count(H)
  <1>1. IsFiniteSet(Locks)
    <2>1. Locks = (({} \cup {"ptable"}) \cup {"ticks"}) \cup {"ide"}  BY DEF Locks
    <2> QED  BY <2>1, FS_EmptySet, FS_AddElement
  <1>2. \A H : IsFiniteSet(H \cap Locks)
    <2>1. \A H : H \cap Locks \in SUBSET Locks  OBVIOUS
    <2> QED  BY <1>1, <2>1, FS_Subset
  <1>3. \A H : Cardinality(H \cap Locks) \in Nat  BY <1>2, FS_CardinalityType
  <1>4. {} \cap Locks = {} /\ Cardinality({}) = 0  BY FS_EmptySet
  <1>5. \A H : Cardinality(H \cap Locks) = 0 => H \cap Locks = {}  BY <1>2, FS_EmptySet
  <1>6. ASSUME NEW H, NEW l \in Locks \ H
        PROVE  Cardinality((H \cup {l}) \cap Locks) = Cardinality(H \cap Locks) + 1
    <2>1. (H \cup {l}) \cap Locks = (H \cap Locks) \cup {l} /\ l \notin H \cap Locks  OBVIOUS
    <2> QED  BY <1>2, <2>1, FS_AddElement
  <1>7. ASSUME NEW H, NEW l \in Locks \cap H
        PROVE  Cardinality((H \ {l}) \cap Locks) + 1 = Cardinality(H \cap Locks)
    <2>1. (H \ {l}) \cap Locks = (H \cap Locks) \ {l} /\ l \in H \cap Locks  OBVIOUS
    <2>2. Cardinality((H \ {l}) \cap Locks) = Cardinality(H \cap Locks) - 1
      BY <1>2, <2>1, FS_RemoveElement
    <2>3. Cardinality((H \ {l}) \cap Locks) \in Nat /\ Cardinality(H \cap Locks) \in Nat  BY <1>3
    <2> QED  BY ONLY <2>2, <2>3
  <1>8. {"ptable"} \cap Locks = {} \cup {"ptable"} /\ \A m \in {"off", "dead"} : {"ptable", m} \cap Locks = {} \cup {"ptable"}
    BY DEF Locks
  <1>9. Cardinality({} \cup {"ptable"}) = 1  BY FS_EmptySet, FS_AddElement
  <1> QED  BY <1>3, <1>4, <1>5, <1>6, <1>7, <1>8, <1>9 DEF Count

\* What Good says of a stack o, u.
MidOp(o) == (o.k \in {"locked", "cpu"} /\ o.v = "acquire") \/ o.k \in {"xchg", "own", "unlock"}
LEMMA TopOf ==
    ASSUME NEW o \in Ops, NEW u \in Seq(Ops)
    PROVE  /\ Mid(<<o>> \o u) <=> MidOp(o)
           /\ NoIret(<<o>> \o u) <=> o.k # "iret" /\ NoIret(u)
           /\ Calm(<<o>> \o u) <=> Quiet(u)
           /\ Quiet(u) => Calm(u) /\ (u = <<>> \/ (Waits(Head(u)) /\ ~Mid(u) /\ Head(u).k # "intena"))
           /\ \A r : Base(<<o>> \o u, r) <=> IF o.k = "intena" THEN o.v = "on" ELSE IF r.ncli = 0 THEN r.ifl ELSE r.intena
  <1>1. <<o>> \o u # <<>> /\ Head(<<o>> \o u) = o /\ Tail(<<o>> \o u) = u  BY Cons
  <1>2. Mid(<<o>> \o u) <=> MidOp(o)  BY <1>1 DEF Mid, MidOp
  <1>3. <<o>> \in Seq(Ops) /\ DOMAIN <<o>> = {1} /\ <<o>>[1] = o  OBVIOUS
  <1>4. NoIret(<<o>> \o u) <=> o.k # "iret" /\ NoIret(u)
    <2>1. NoIret(<<o>>) <=> o.k # "iret"  BY ONLY <1>3 DEF NoIret
    <2> QED  BY <1>3, <2>1, NoIretCat
  <1>5. Calm(<<o>> \o u) <=> Quiet(u)
    <2>1. /\ Len(<<o>> \o u) = Len(u) + 1 /\ \A i \in 2 .. Len(u) + 1 : (<<o>> \o u)[i] = u[i - 1]
          /\ <<o>> \o u \in Seq(Ops)
      BY Cons
    <2>2. DOMAIN (<<o>> \o u) = 1 .. Len(u) + 1 /\ DOMAIN u = 1 .. Len(u) /\ Len(u) \in Nat  BY <2>1
    <2>3. ASSUME Calm(<<o>> \o u), NEW i \in 1 .. Len(u)  PROVE  Waits(u[i])
      <3>1. i + 1 \in 2 .. Len(u) + 1 /\ i + 1 \in 1 .. Len(u) + 1 /\ i + 1 > 1 /\ (i + 1) - 1 = i  BY <2>2
      <3> QED  BY <2>1, <2>2, <2>3, <3>1 DEF Calm
    <2>4. ASSUME Quiet(u), NEW i \in 1 .. Len(u) + 1, i > 1  PROVE  Waits((<<o>> \o u)[i])
      <3>1. i - 1 \in 1 .. Len(u) /\ i \in 2 .. Len(u) + 1  BY <2>2, <2>4
      <3> QED  BY <2>1, <2>2, <2>4, <3>1 DEF Quiet
    <2> QED  BY <2>2, <2>3, <2>4 DEF Calm, Quiet
  <1>6. ASSUME Quiet(u)  PROVE  Calm(u) /\ (u = <<>> \/ (Waits(Head(u)) /\ ~Mid(u) /\ Head(u).k # "intena"))
    <2>1. Calm(u)  BY <1>6 DEF Quiet, Calm
    <2>2. ASSUME u # <<>>  PROVE  Waits(Head(u))  BY <1>6, <2>2, Uncons DEF Quiet
    <2>3. ASSUME u # <<>>  PROVE  ~Mid(u) /\ Head(u).k # "intena"
      BY ONLY <2>2, <2>3 DEF Waits, Mid
    <2> QED  BY <2>1, <2>2, <2>3
  <1>7. \A r : Base(<<o>> \o u, r) <=> IF o.k = "intena" THEN o.v = "on" ELSE IF r.ncli = 0 THEN r.ifl ELSE r.intena
    BY ONLY <1>1 DEF Base
  <1> QED  BY <1>2, <1>4, <1>5, <1>6, <1>7

\* The parts of Good for a stack with a top.
LEMMA GoodTop ==
    ASSUME NEW t, NEW o \in Ops, NEW u \in Seq(Ops), NEW r, NEW H, Good(t, <<o>> \o u, r, H)
    PROVE  /\ H \subseteq Marks /\ Quiet(u)
           /\ r.ncli = Count(H) + (IF MidOp(o) THEN 1 ELSE 0)
           /\ r.ifl => r.ncli = 0
           /\ t = "proc" /\ o.k # "iret" /\ NoIret(u) =>
                 IF o.k = "intena" THEN o.v = "on" ELSE IF r.ncli = 0 THEN r.ifl ELSE r.intena
           /\ \E K : Trans(t, o, H, K) /\ Legal(t, u, K)
  <1>1. <<o>> \o u \in Seq(Ops)  BY Cons
  <1>2. \E K : Trans(t, o, H, K) /\ Legal(t, u, K)  BY LegalPop DEF Good
  <1>3. H \subseteq Marks  BY <1>2, MarksOf
  <1> QED  BY <1>2, <1>3, TopOf DEF Good

\* Another top on the same stack.
LEMMA GoodPush ==
    ASSUME NEW t, NEW o \in Ops, NEW u \in Seq(Ops), NEW r, NEW H, NEW K,
           Quiet(u), Legal(t, u, K), Trans(t, o, H, K),
           r.ncli = Count(H) + (IF MidOp(o) THEN 1 ELSE 0),
           r.ifl => r.ncli = 0,
           t = "proc" /\ o.k # "iret" /\ NoIret(u) =>
              IF o.k = "intena" THEN o.v = "on" ELSE IF r.ncli = 0 THEN r.ifl ELSE r.intena
    PROVE  Good(t, <<o>> \o u, r, H)
  <1>1. Legal(t, <<o>> \o u, H)  BY LegalPush
  <1> QED  BY <1>1, TopOf DEF Good

\* The top is gone.
LEMMA GoodPop ==
    ASSUME NEW t, NEW u \in Seq(Ops), NEW r, NEW H,
           Quiet(u), Legal(t, u, H),
           r.ncli = Count(H),
           r.ifl => r.ncli = 0,
           t = "proc" /\ NoIret(u) => IF r.ncli = 0 THEN r.ifl ELSE r.intena
    PROVE  Good(t, u, r, H)
  <1>1. Calm(u) /\ ~Mid(u) /\ (u = <<>> \/ Head(u).k # "intena")
    <2>1. PICK o \in Ops : TRUE
      <3>1. Op("sti", "") \in Ops  BY OpIs DEF Kinds
      <3> QED  BY <3>1
    <2>2. Calm(u) /\ (u = <<>> \/ (Waits(Head(u)) /\ ~Mid(u) /\ Head(u).k # "intena"))  BY <2>1, TopOf
    <2>3. ~Mid(<<>>)  BY DEF Mid
    <2> QED  BY <2>2, <2>3
  <1>2. Base(u, r) <=> IF r.ncli = 0 THEN r.ifl ELSE r.intena  BY ONLY <1>1 DEF Base
  <1> QED  BY <1>1, <1>2, Counts DEF Good


\* The top becomes another that does the same to the locks.
LEMMA GoodRelabel ==
    ASSUME NEW t, NEW o \in Ops, NEW o2 \in Ops, NEW u \in Seq(Ops), NEW r, NEW H, Good(t, <<o>> \o u, r, H),
           \A K : Trans(t, o, H, K) => Trans(t, o2, H, K),
           MidOp(o) <=> MidOp(o2), o.k \notin {"intena", "iret"}, o2.k \notin {"intena", "iret"}
    PROVE  Good(t, <<o2>> \o u, r, H)
  <1>1. PICK K : Trans(t, o, H, K) /\ Legal(t, u, K)  BY GoodTop
  <1>2. Trans(t, o2, H, K)  BY <1>1
  <1> QED  BY <1>1, <1>2, GoodTop, GoodPush

\* The top is replaced by code, which may be none.
LEMMA GoodCode ==
    ASSUME NEW t, NEW o \in Ops, NEW u \in Seq(Ops), NEW r, NEW H, Good(t, <<o>> \o u, r, H),
           NEW ops, NEW G, \A K : Trans(t, o, H, K) => Code(t, ops, G, K),
           G \cap Locks = H \cap Locks, ~MidOp(o), o.k \notin {"intena", "iret"}
    PROVE  Good(t, ops \o u, r, G)
  <1>1. PICK K : Trans(t, o, H, K) /\ Legal(t, u, K)  BY GoodTop
  <1>2. Code(t, ops, G, K)  BY <1>1
  <1>3. ops \in Seq(Ops) /\ Quiet(ops) /\ Legal(t, ops \o u, G)  BY <1>1, <1>2 DEF Code
  <1>4. Quiet(u)  BY GoodTop
  <1>5. ops \o u \in Seq(Ops) /\ Quiet(ops \o u) /\ (NoIret(ops \o u) => NoIret(u))
    BY <1>3, <1>4, Assoc, QuietCat, NoIretCat
  <1>6. /\ r.ncli = Count(H) + (IF MidOp(o) THEN 1 ELSE 0) /\ (r.ifl => r.ncli = 0)
        /\ t = "proc" /\ o.k # "iret" /\ NoIret(u) =>
              IF o.k = "intena" THEN o.v = "on" ELSE IF r.ncli = 0 THEN r.ifl ELSE r.intena
    BY ONLY GoodTop, o \in Ops, u \in Seq(Ops), Good(t, <<o>> \o u, r, H)
  <1>7. r.ncli = Count(G)
    <2>1. Count(G) = Count(H) /\ Count(H) \in Nat  BY Counts
    <2> QED  BY <1>6, <2>1
  <1>8. t = "proc" /\ NoIret(ops \o u) => IF r.ncli = 0 THEN r.ifl ELSE r.intena  BY <1>5, <1>6
  <1> QED  BY <1>3, <1>5, <1>6, <1>7, <1>8, GoodPop

LEMMA NoLocks ==
    ASSUME NEW t, NEW s \in Seq(Ops), NEW H, Legal(t, s, H), H \cap Locks = {}
    PROVE  H = {}
  <1>1. CASE s = <<>>  BY <1>1, LegalEmpty
  <1>2. CASE s # <<>>
    <2>1. Head(s) \in Ops /\ Tail(s) \in Seq(Ops) /\ Legal(t, <<Head(s)>> \o Tail(s), H)  BY <1>2, Uncons
    <2>3. \E K : Trans(t, Head(s), H, K)  BY <2>1, LegalPop
    <2>2. H \subseteq Marks  BY LegalMarks
    <2> QED  BY <2>3, <2>2 DEF Trans, Locks, Marks
  <1> QED  BY <1>1, <1>2

LEMMA GoodPushcli ==
    ASSUME NEW t, NEW o \in Ops, NEW u \in Seq(Ops), NEW r \in Cpu, NEW H, Good(t, <<o>> \o u, r, H),
           o.k = "pushcli", r.ifl
    PROVE  Good(t, <<Op("cli", o.l)>> \o u, r, H)
  <1>1. PICK K : Trans(t, o, H, K) /\ Legal(t, u, K)  BY GoodTop
  <1>2. o.l \in Locks \ H /\ H \subseteq {"ticks", "ide"} /\ K = H \cup {o.l} /\ ~MidOp(o)
    BY <1>1 DEF Trans, Acquiring, Releasing, Switching, MidOp
  <1>3. H \cap Locks = {}  BY <1>2, GoodTop, Counts
  <1>4. H = {}  BY <1>2, <1>3 DEF Locks
  <1>5. Op("cli", o.l) \in Ops /\ Op("cli", o.l).k = "cli" /\ Op("cli", o.l).l = o.l
    <2>1. "cli" \in Kinds /\ o.l \in Locks \cup {""}  BY <1>2 DEF Kinds
    <2> QED  BY <2>1, OpIs
  <1>6. Trans(t, Op("cli", o.l), H, K)  BY <1>2, <1>4, <1>5 DEF Trans, Acquiring
  <1>7. ~MidOp(Op("cli", o.l))  BY <1>5 DEF MidOp
  <1> HIDE DEF Op
  <1> QED  BY <1>1, <1>2, <1>5, <1>6, <1>7, GoodTop, GoodPush

LEMMA GoodCli ==
    ASSUME NEW t, NEW o \in Ops, NEW u \in Seq(Ops), NEW r \in Cpu, NEW H, Good(t, <<o>> \o u, r, H),
           o.k = "cli" \/ (o.k = "pushcli" /\ ~r.ifl)
    PROVE  Good(t, <<[k |-> "locked", l |-> o.l, v |-> "acquire"]>> \o u,
                [r EXCEPT !.ifl = FALSE, !.ncli = @ + 1, !.intena = IF r.ncli = 0 THEN o.k = "cli" ELSE @], H)
  <1> DEFINE o2 == [k |-> "locked", l |-> o.l, v |-> "acquire"]
             r2 == [r EXCEPT !.ifl = FALSE, !.ncli = @ + 1, !.intena = IF r.ncli = 0 THEN o.k = "cli" ELSE @]
  <1>1. PICK K : Trans(t, o, H, K) /\ Legal(t, u, K)  BY GoodTop
  <1>2. /\ o.l \in Locks \ H /\ H \subseteq {"ticks", "ide"} /\ (H = {} \/ o.l = "ptable") /\ K = H \cup {o.l}
        /\ ~MidOp(o)
    BY <1>1 DEF Trans, Acquiring, Releasing, Switching, MidOp
  <1>3. o2 \in Ops /\ o2.k = "locked" /\ o2.v = "acquire" /\ o2.l = o.l  BY <1>2 DEF Ops, Kinds
  <1>4. r2.ifl = FALSE /\ r2.ncli = r.ncli + 1 /\ r2.intena = (IF r.ncli = 0 THEN o.k = "cli" ELSE r.intena)
    BY DEF Cpu
  <1>5. r.ncli \in Nat  BY DEF Cpu
  <1> HIDE DEF o2, r2
  <1>6. Trans(t, o2, H, K)  BY <1>2, <1>3 DEF Trans, Acquiring
  <1>7. MidOp(o2)  BY <1>3 DEF MidOp
  <1>8. Quiet(u) /\ r.ncli = Count(H)  BY <1>2, <1>5, GoodTop, Counts
  <1>9. r2.ncli = Count(H) + 1 /\ r2.ncli # 0  BY <1>4, <1>5, <1>8
  <1>10. t = "proc" /\ NoIret(u) => r2.intena
    BY <1>4, GoodTop
  <1>11. Good(t, <<o2>> \o u, r2, H)
    BY <1>1, <1>3, <1>4, <1>6, <1>7, <1>8, <1>9, <1>10, GoodPush
  <1> QED  BY <1>11 DEF o2, r2

LEMMA GoodOwn ==
    ASSUME NEW t, NEW o \in Ops, NEW u \in Seq(Ops), NEW r \in Cpu, NEW H, Good(t, <<o>> \o u, r, H), o.k = "own"
    PROVE  o.l \in Locks \ H /\ Good(t, u, r, H \cup {o.l})
  <1>1. PICK K : Trans(t, o, H, K) /\ Legal(t, u, K)  BY GoodTop
  <1>2. o.l \in Locks \ H /\ K = H \cup {o.l} /\ MidOp(o)
    BY <1>1 DEF Trans, Acquiring, Releasing, Switching, MidOp
  <1>0. /\ r.ncli = Count(H) + (IF MidOp(o) THEN 1 ELSE 0) /\ (r.ifl => r.ncli = 0)
        /\ t = "proc" /\ o.k # "iret" /\ NoIret(u) =>
              IF o.k = "intena" THEN o.v = "on" ELSE IF r.ncli = 0 THEN r.ifl ELSE r.intena
    BY ONLY GoodTop, o \in Ops, u \in Seq(Ops), Good(t, <<o>> \o u, r, H)
  <1>3. r.ncli = Count(H \cup {o.l})
    <2>1. Count(H \cup {o.l}) = Count(H) + 1  BY <1>2, Counts
    <2> QED  BY <1>0, <1>2, <2>1
  <1> QED  BY <1>1, <1>2, <1>3, GoodTop, GoodPop

LEMMA GoodDisown ==
    ASSUME NEW t, NEW o \in Ops, NEW u \in Seq(Ops), NEW r \in Cpu, NEW H, Good(t, <<o>> \o u, r, H), o.k = "disown"
    PROVE  o.l \in Locks \cap H /\ Good(t, <<Op("unlock", o.l)>> \o u, r, H \ {o.l})
  <1>1. PICK K : Trans(t, o, H, K) /\ Legal(t, u, K)  BY GoodTop
  <1>2. o.l \in Locks \cap H /\ H \subseteq Locks /\ K = H \ {o.l} /\ ~MidOp(o)
    BY <1>1 DEF Trans, Acquiring, Releasing, Switching, MidOp
  <1>3. Op("unlock", o.l) \in Ops /\ Op("unlock", o.l).k = "unlock" /\ Op("unlock", o.l).l = o.l
    <2>1. "unlock" \in Kinds /\ o.l \in Locks \cup {""}  BY <1>2 DEF Kinds
    <2> QED  BY <2>1, OpIs
  <1>4. Trans(t, Op("unlock", o.l), H \ {o.l}, K)  BY <1>2, <1>3 DEF Trans
  <1>5. MidOp(Op("unlock", o.l))  BY <1>3 DEF MidOp
  <1>0. /\ r.ncli = Count(H) + (IF MidOp(o) THEN 1 ELSE 0) /\ (r.ifl => r.ncli = 0)
        /\ t = "proc" /\ o.k # "iret" /\ NoIret(u) =>
              IF o.k = "intena" THEN o.v = "on" ELSE IF r.ncli = 0 THEN r.ifl ELSE r.intena
    BY ONLY GoodTop, o \in Ops, u \in Seq(Ops), Good(t, <<o>> \o u, r, H)
  <1>6. r.ncli = Count(H \ {o.l}) + 1
    <2>1. Count(H \ {o.l}) + 1 = Count(H) /\ Count(H) \in Nat  BY <1>2, Counts
    <2> QED  BY <1>0, <1>2, <2>1
  <1> QED  BY <1>1, <1>2, <1>3, <1>4, <1>5, <1>6, GoodTop, GoodPush

LEMMA GoodUnlock ==
    ASSUME NEW t, NEW o \in Ops, NEW u \in Seq(Ops), NEW r \in Cpu, NEW H, Good(t, <<o>> \o u, r, H), o.k = "unlock"
    PROVE  /\ ~r.ifl /\ r.ncli >= 1 /\ o.l \in Locks \ H
           /\ popcli(r) \in Cpu /\ popcli(r).on = r.on /\ Good(t, u, popcli(r), H)
  <1>1. PICK K : Trans(t, o, H, K) /\ Legal(t, u, K)  BY GoodTop
  <1>2. o.l \in Locks \ H /\ K = H /\ MidOp(o)
    BY <1>1 DEF Trans, Acquiring, Releasing, Switching, MidOp
  <1>0. /\ r.ncli = Count(H) + (IF MidOp(o) THEN 1 ELSE 0) /\ (r.ifl => r.ncli = 0)
        /\ t = "proc" /\ o.k # "iret" /\ NoIret(u) =>
              IF o.k = "intena" THEN o.v = "on" ELSE IF r.ncli = 0 THEN r.ifl ELSE r.intena
    BY ONLY GoodTop, o \in Ops, u \in Seq(Ops), Good(t, <<o>> \o u, r, H)
  <1>3. r.ncli = Count(H) + 1 /\ Count(H) \in Nat  BY <1>0, <1>2, Counts
  <1>4. ~r.ifl /\ r.ncli >= 1  BY <1>0, <1>3
  <1>5. /\ popcli(r) \in Cpu /\ popcli(r).on = r.on /\ popcli(r).ncli = r.ncli - 1
        /\ (popcli(r).ifl <=> r.ncli = 1 /\ r.intena) /\ popcli(r).intena = r.intena
    <2>1. popcli(r) = [r EXCEPT !.ncli = r.ncli - 1, !.ifl = (r.ncli = 1 /\ r.intena)]  BY DEF popcli
    <2>2. r.ncli - 1 \in Nat /\ (r.ncli = 1 /\ r.intena) \in BOOLEAN  BY <1>3
    <2>3. \A n \in Nat, f \in BOOLEAN :
             LET q == [r EXCEPT !.ncli = n, !.ifl = f]
             IN  q \in Cpu /\ q.on = r.on /\ q.ncli = n /\ q.ifl = f /\ q.intena = r.intena
      BY DEF Cpu
    <2> QED  BY ZenonT(40), <2>1, <2>2, <2>3
  <1>6. t = "proc" /\ NoIret(u) => r.intena  BY <1>0, <1>4
  <1>7. popcli(r).ncli = Count(H) /\ (popcli(r).ifl => popcli(r).ncli = 0)  BY <1>3, <1>5
  <1>8. t = "proc" /\ NoIret(u) => IF popcli(r).ncli = 0 THEN popcli(r).ifl ELSE popcli(r).intena
    BY <1>3, <1>5, <1>6
  <1> QED  BY <1>1, <1>2, <1>4, <1>5, <1>7, <1>8, GoodTop, GoodPop

LEMMA GoodIntena ==
    ASSUME NEW t, NEW o \in Ops, NEW u \in Seq(Ops), NEW r \in Cpu, NEW H, Good(t, <<o>> \o u, r, H), o.k = "intena"
    PROVE  Good(t, u, [r EXCEPT !.intena = o.v = "on"], H)
  <1> DEFINE r2 == [r EXCEPT !.intena = o.v = "on"]
  <1>1. PICK K : Trans(t, o, H, K) /\ Legal(t, u, K)  BY GoodTop
  <1>2. H = {"ptable"} /\ K = H /\ ~MidOp(o)
    BY <1>1 DEF Trans, Acquiring, Releasing, Switching, MidOp
  <1>3. r.ncli = 1  BY <1>2, GoodTop, Counts
  <1>4. r2.ncli = r.ncli /\ r2.ifl = r.ifl /\ r2.intena = (o.v = "on")  BY DEF Cpu
  <1> HIDE DEF r2
  <1>5. t = "proc" /\ NoIret(u) => r2.intena  BY <1>4, GoodTop
  <1>6. Good(t, u, r2, H)  BY <1>1, <1>2, <1>3, <1>4, <1>5, Counts, GoodTop, GoodPop
  <1> QED  BY <1>6 DEF r2

\* Interrupts come back on: iret, and sti with the scheduler's code.
LEMMA GoodOn ==
    ASSUME NEW t, NEW o \in Ops, NEW u \in Seq(Ops), NEW r \in Cpu, NEW H, Good(t, <<o>> \o u, r, H),
           o.k \in {"iret", "sti"}, NEW ops, Code(t, ops, {}, {})
    PROVE  Good(t, ops \o u, [r EXCEPT !.ifl = TRUE], H)
  <1> DEFINE r2 == [r EXCEPT !.ifl = TRUE]
  <1>1. PICK K : Trans(t, o, H, K) /\ Legal(t, u, K)  BY GoodTop
  <1>2. H = {} /\ K = H /\ ~MidOp(o)
    BY <1>1 DEF Trans, Acquiring, Releasing, Switching, MidOp
  <1>3. r.ncli = 0  BY <1>2, GoodTop, Counts
  <1>4. r2.ncli = 0 /\ r2.ifl  BY <1>3 DEF Cpu
  <1> HIDE DEF r2
  <1>5. ops \in Seq(Ops) /\ Quiet(ops) /\ Legal(t, ops \o u, H)  BY <1>1, <1>2 DEF Code
  <1>6. ops \o u \in Seq(Ops) /\ Quiet(ops \o u)  BY <1>5, GoodTop, Assoc, QuietCat
  <1>7. Good(t, ops \o u, r2, H)  BY <1>2, <1>4, <1>5, <1>6, Counts, GoodPop
  <1> QED  BY <1>7 DEF r2

LEMMA GoodInterrupt ==
    ASSUME NEW t, NEW s \in Seq(Ops), NEW r \in Cpu, NEW H, Good(t, s, r, H), r.ifl,
           NEW ops, Code(t, ops, {}, {}), ~NoIret(ops)
    PROVE  H = {} /\ Good(t, ops \o s, [r EXCEPT !.ifl = FALSE], H)
  <1> DEFINE r2 == [r EXCEPT !.ifl = FALSE]
  <1>1. Count(H) = 0 /\ ~Mid(s) /\ r.ncli = 0  BY Counts DEF Good
  <1>2. H = {}
    <2>1. H \cap Locks = {}  BY <1>1, Counts
    <2> QED  BY <2>1, NoLocks DEF Good
  <1>3. r2.ncli = 0 /\ ~r2.ifl  BY <1>1 DEF Cpu
  <1> HIDE DEF r2
  <1>4. ops \in Seq(Ops) /\ Quiet(ops) /\ Legal(t, ops \o s, H)  BY <1>2 DEF Code, Good
  <1>5. s # <<>> => Waits(s[1])
    <2> SUFFICES ASSUME s # <<>>  PROVE  Waits(Head(s))  BY Uncons
    <2>0. Head(s) \in Ops /\ Tail(s) \in Seq(Ops) /\ Legal(t, <<Head(s)>> \o Tail(s), H)  BY Uncons DEF Good
    <2>1. PICK K : Trans(t, Head(s), H, K)  BY <2>0, LegalPop
    <2>2. Head(s).k # "intena"  BY <1>2, <2>1 DEF Trans, Acquiring, Releasing, Switching
    <2> QED  BY <1>1, <2>2 DEF Waits, Mid
  <1>6. ops \o s \in Seq(Ops) /\ Quiet(ops \o s)
    <2>1. Quiet(s)
      <3>1. \A i \in DOMAIN s : i \in Nat \ {0} /\ (i > 1 \/ i = 1) /\ s # <<>>  BY LenProperties
      <3> QED  BY <3>1, <1>5 DEF Good, Quiet, Calm
    <2> QED  BY <1>4, <2>1, Assoc, QuietCat
  <1>7. ~NoIret(ops \o s)  BY <1>4, NoIretCat
  <1>8. Good(t, ops \o s, r2, H)
    <2>1. r2.ncli = Count(H)  BY <1>2, <1>3, Counts
    <2> QED  BY <1>3, <1>4, <1>6, <1>7, <2>1, GoodPop
  <1> QED  BY <1>2, <1>8 DEF r2

LEMMA GoodTrap ==
    ASSUME NEW r \in Cpu, NEW H, Good("proc", <<>>, r, H), NEW ops, Code("proc", ops, {}, {})
    PROVE  H = {} /\ Good("proc", ops, r, H)
  <1>1. H = {}  BY LegalEmpty DEF Good
  <1>2. r.ncli = 0 /\ r.ifl
    <2>1. ~Mid(<<>>) /\ NoIret(<<>>)  BY DEF Mid, NoIret
    <2> QED  BY <1>1, <2>1, Counts DEF Good, Base
  <1>3. ops \in Seq(Ops) /\ Quiet(ops) /\ <<>> \in Seq(Ops)  BY DEF Code
  <1>4. Legal("proc", ops, {})
    <2>1. Legal("proc", ops \o <<>>, {})  BY <1>3, LegalEmpty DEF Code
    <2> QED  BY <1>3, <2>1, ConcatEmptySeq
  <1> QED  BY <1>1, <1>2, <1>3, <1>4, Counts, GoodPop
-----------------------------------------------------------------------------
(* States *)
LEMMA ThreadOf ==
    /\ 0 \notin SpCpus /\ 0 \notin SpProcs
    /\ \A c \in SpCpus : Sched(c) \in KThreads /\ Sched(c)[1] = "cpu"
    /\ \A p \in SpProcs : Thread(p) \in KThreads /\ Thread(p)[1] = "proc" /\ Thread(p)[2] = p
    /\ \A p, q \in SpProcs : Thread(p) = Thread(q) => p = q
    /\ \A x \in KThreads : \/ x[1] = "cpu" /\ \E c \in SpCpus : x = Sched(c)
                           \/ x[1] = "proc" /\ x[2] \in SpProcs /\ x = Thread(x[2])
  BY SpinConstants DEF KThreads, Sched, Thread

\* The thread of a CPU.
LEMMA RunOf ==
    ASSUME SpInv, NEW c \in SpCpus
    PROVE  /\ Running(c) \in KThreads /\ stack[Running(c)] \in Seq(Ops) /\ cpu[c] \in Cpu /\ cpu[c].on = Running(c)
           /\ Good(Running(c)[1], stack[Running(c)], cpu[c], Hold(c))
           /\ \/ Running(c)[1] = "cpu" /\ proc(c) = 0 /\ Running(c) = Sched(c)
              \/ Running(c)[1] = "proc" /\ proc(c) \in SpProcs /\ proc(c) # 0 /\ Running(c) = Thread(proc(c))
  <1>1. cpu[c] \in Cpu /\ Running(c) = cpu[c].on /\ cpu[c].on \in KThreads
    BY DEF SpInv, SpTypes, Cpu, Running
  <1>2. stack[Running(c)] \in Seq(Ops)  BY <1>1 DEF SpInv, SpTypes
  <1>3. Good(Running(c)[1], stack[Running(c)], cpu[c], Hold(c))  BY DEF SpInv, AllGood
  <1>4. \/ Running(c)[1] = "cpu" /\ proc(c) = 0 /\ Running(c) = Sched(c)
        \/ Running(c)[1] = "proc" /\ proc(c) \in SpProcs /\ proc(c) # 0 /\ Running(c) = Thread(proc(c))
    BY <1>1, ThreadOf DEF proc, SpInv, OnOne
  <1> QED  BY <1>1, <1>2, <1>3, <1>4

\* The top of its stack.
LEMMA NextOf ==
    ASSUME SpInv, NEW c \in SpCpus, stack[Running(c)] # <<>>
    PROVE  /\ Next1(c) \in Ops /\ Tail(stack[Running(c)]) \in Seq(Ops) /\ Quiet(Tail(stack[Running(c)]))
           /\ stack[Running(c)] = <<Next1(c)>> \o Tail(stack[Running(c)])
           /\ Good(Running(c)[1], <<Next1(c)>> \o Tail(stack[Running(c)]), cpu[c], Hold(c))
           /\ \E K : Trans(Running(c)[1], Next1(c), Hold(c), K)
  <1>1. /\ Next1(c) \in Ops /\ Tail(stack[Running(c)]) \in Seq(Ops)
        /\ stack[Running(c)] = <<Next1(c)>> \o Tail(stack[Running(c)])
    BY RunOf, Uncons DEF Next1
  <1>2. Good(Running(c)[1], <<Next1(c)>> \o Tail(stack[Running(c)]), cpu[c], Hold(c))  BY <1>1, RunOf
  <1> HIDE DEF Next1
  <1>3. Quiet(Tail(stack[Running(c)])) /\ \E K : Trans(Running(c)[1], Next1(c), Hold(c), K)
    BY <1>1, <1>2, GoodTop
  <1> QED  BY <1>1, <1>2, <1>3

LEMMA HoldOf ==
    ASSUME SpInv, NEW c \in SpCpus
    PROVE  /\ \A l \in Locks : l \in Hold(c) <=> lock[l].cpu = c
           /\ Hold(c) \cap {"off", "dead"} = Mark(c)
           /\ proc(c) # 0 => /\ procs[proc(c)].state = "RUNNING" <=> Mark(c) = {}
                             /\ procs[proc(c)].state = "ZOMBIE" <=> Mark(c) = {"dead"}
                             /\ Mark(c) \in {{}, {"off"}, {"dead"}}
           /\ proc(c) = 0 => Mark(c) = {}
  <1>1. Mark(c) \subseteq {"off", "dead"} /\ {"off", "dead"} \cap Locks = {}  BY DEF Mark, Locks
  <1> QED  BY <1>1 DEF Hold, Mark

\* A process that runs and is not RUNNING has ptable.lock and is about to switch.
LEMMA OffTop ==
    ASSUME SpInv, NEW c \in SpCpus, Mark(c) # {}
    PROVE  /\ stack[Running(c)] # <<>> /\ Switching(Next1(c)) /\ Hold(c) \cap Locks = {"ptable"}
           /\ lock["ptable"].cpu = c
  <1>1. Hold(c) # {} /\ Hold(c) \cap {"off", "dead"} # {}  BY HoldOf
  <1>2. stack[Running(c)] # <<>>  BY <1>1, RunOf, LegalEmpty DEF Good
  <1>3. PICK K : Trans(Running(c)[1], Next1(c), Hold(c), K)  BY <1>2, NextOf
  <1>4. Switching(Next1(c)) /\ Hold(c) \cap Locks = {"ptable"}  BY <1>1, <1>3 DEF Trans, Locks
  <1>5. "ptable" \in Locks  BY DEF Locks
  <1> QED  BY <1>2, <1>4, <1>5, HoldOf

LEMMA OthersRun ==
    ASSUME SpInv, NEW c \in SpCpus, "ptable" \in Hold(c), NEW d \in SpCpus, d # c, proc(d) # 0
    PROVE  procs[proc(d)].state = "RUNNING"
  <1>1. lock["ptable"].cpu = c  BY HoldOf DEF Locks
  <1>2. Mark(d) = {}  BY <1>1, OffTop
  <1> QED  BY <1>2, HoldOf

\* A step of c on its own stack that leaves the locks alone.
Steps(c, s, r) ==
    /\ stack' = [stack EXCEPT ![Running(c)] = s] /\ cpu' = [cpu EXCEPT ![c] = r]
    /\ s \in Seq(Ops) /\ r \in Cpu /\ r.on = Running(c)
Keeps(c) ==
    /\ procs' \in [SpProcs -> Proc] /\ DOMAIN clock' = DOMAIN clock /\ clock'.ticks \in Int /\ panic' = panic
    /\ \A p \in SpProcs : procs[p].state = "ZOMBIE" => procs'[p].state = "ZOMBIE"
    /\ \A d \in SpCpus : d # c /\ proc(d) # 0 => procs'[proc(d)].state = procs[proc(d)].state
LocalLocks(c) ==
    /\ lock' \in [Locks -> Lock]
    /\ \A d \in SpCpus : \A l \in Locks : d # c => (lock'[l].cpu = d <=> lock[l].cpu = d)

LEMMA LocalStep ==
    ASSUME SpInv, NEW c \in SpCpus, NEW s, NEW r, Steps(c, s, r), Keeps(c), LocalLocks(c), Mutex',
           Good(Running(c)[1], s, r, Hold(c)')
    PROVE  SpInv' /\ \A d \in SpCpus : Running(d)' = Running(d) /\ proc(d)' = proc(d)
  <1>1. /\ \A d \in SpCpus : d # c => cpu'[d] = cpu[d]
        /\ cpu'[c] = r /\ cpu' \in [SpCpus -> Cpu]
    BY DEF Steps, SpInv, SpTypes
  <1>2. \A d \in SpCpus : Running(d)' = Running(d)
    BY <1>1 DEF Running, Steps
  <1>3. \A d \in SpCpus : proc(d)' = proc(d)  BY <1>2 DEF proc
  <1>4. Running(c) \in KThreads  BY RunOf
  <1>5. /\ \A x \in KThreads : x # Running(c) => stack'[x] = stack[x]
        /\ stack'[Running(c)] = s /\ stack' \in [KThreads -> Seq(Ops)]
    BY <1>4 DEF Steps, SpInv, SpTypes
  <1>6. SpTypes'  BY <1>1, <1>5 DEF SpInv, SpTypes, Keeps, LocalLocks
  <1>7. OnOne'
    <2>1. \A d \in SpCpus : Sched(d)' = Sched(d)  BY DEF Sched
    <2> QED  BY <1>2, <2>1 DEF SpInv, OnOne
  <1>8. AllGood'
    <2> SUFFICES ASSUME NEW d \in SpCpus
                 PROVE  Good(Running(d)[1], stack'[Running(d)], cpu'[d], Hold(d)')
      BY <1>2 DEF AllGood
    <2>1. CASE d = c  BY <2>1, <1>1, <1>5
    <2>2. CASE d # c
      <3>1. Running(d) # Running(c) /\ Running(d) \in KThreads  BY <2>2, RunOf DEF SpInv, OnOne
      <3>2. Mark(d)' = Mark(d)
        <4>1. proc(d) = 0 \/ procs'[proc(d)].state = procs[proc(d)].state  BY <2>2 DEF Keeps
        <4> QED  BY <1>3, <4>1 DEF Mark
      <3>3. \A l \in Locks : lock'[l].cpu = d <=> lock[l].cpu = d  BY <2>2 DEF LocalLocks
      <3>4. Hold(d)' = Hold(d)  BY <3>2, <3>3 DEF Hold
      <3> QED  BY <1>1, <1>5, <2>2, <3>1, <3>4, RunOf
    <2> QED  BY <2>1, <2>2
  <1>9. AllParked'
    <2> SUFFICES ASSUME NEW x \in KThreads
                 PROVE  \/ \E d \in SpCpus : Running(d) = x
                        \/ x[1] = "proc" /\ procs'[x[2]].state = "ZOMBIE"
                        \/ Parked(x)'
      BY <1>2 DEF AllParked
    <2>1. CASE \E d \in SpCpus : Running(d) = x  BY <2>1
    <2>2. CASE x[1] = "proc" /\ procs[x[2]].state = "ZOMBIE"
      BY <2>2, ThreadOf DEF Keeps
    <2>3. CASE ~(\E d \in SpCpus : Running(d) = x) /\ Parked(x)
      <3>1. stack'[x] = stack[x]  BY <2>3, <1>5
      <3> QED  BY <2>3, <3>1 DEF Parked
    <2> QED  BY <2>1, <2>2, <2>3 DEF SpInv, AllParked
  <1> QED  BY <1>2, <1>3, <1>6, <1>7, <1>8, <1>9 DEF SpInv, Keeps

LEMMA LockFree ==
    ASSUME SpInv, NEW c \in SpCpus, NEW s, NEW r, Steps(c, s, r), Keeps(c), lock' = lock,
           stack[Running(c)] = <<>> \/ Next1(c).k \notin {"own", "unlock"},
           s = <<>> \/ Head(s).k \notin {"own", "unlock"},
           Good(Running(c)[1], s, r, Hold(c)')
    PROVE  SpInv' /\ \A d \in SpCpus : Running(d)' = Running(d) /\ proc(d)' = proc(d)
  <1>1. LocalLocks(c)  BY DEF LocalLocks, SpInv, SpTypes
  <1>2. \A d \in SpCpus : Running(d)' = Running(d)
    BY DEF Running, Steps, SpInv, SpTypes
  <1>3. ASSUME NEW d \in SpCpus, NEW l \in Locks  PROVE  Busy(d, l)' <=> Busy(d, l)
    <2>1. Running(d) \in KThreads /\ Running(c) \in KThreads /\ (Running(d) = Running(c) => d = c)
      BY RunOf DEF SpInv, OnOne
    <2>2. CASE d = c
      <3>1. stack'[Running(c)] = s  BY <2>1 DEF Steps, SpInv, SpTypes
      <3>2. ~Partly(c, l) /\ ~Partly(c, l)'  BY <1>2, <3>1 DEF Partly, Next1
      <3> QED  BY <2>2, <3>2 DEF Busy
    <2>3. CASE d # c
      <3>1. stack'[Running(d)] = stack[Running(d)]  BY <2>1, <2>3 DEF Steps, SpInv, SpTypes
      <3>2. Partly(d, l)' <=> Partly(d, l)  BY <1>2, <3>1 DEF Partly, Next1
      <3> QED  BY <3>2 DEF Busy
    <2> QED  BY <2>2, <2>3
  <1>4. Mutex'  BY <1>3 DEF Mutex, SpInv
  <1> QED  BY <1>1, <1>4, LocalStep

\* Nothing else changes.
LEMMA StackStep ==
    ASSUME SpInv, NEW c \in SpCpus, NEW s, NEW r, Steps(c, s, r),
           lock' = lock, procs' = procs, panic' = panic, DOMAIN clock' = DOMAIN clock, clock'.ticks \in Int,
           stack[Running(c)] = <<>> \/ Next1(c).k \notin {"own", "unlock"},
           s = <<>> \/ Head(s).k \notin {"own", "unlock"},
           Good(Running(c)[1], s, r, Hold(c))
    PROVE  SpInv' /\ \A d \in SpCpus : Running(d)' = Running(d) /\ proc(d)' = proc(d)
  <1>1. Keeps(c)  BY DEF Keeps, SpInv, SpTypes
  <1>2. Running(c)' = Running(c)  BY DEF Running, Steps, SpInv, SpTypes
  <1>3. Hold(c)' = Hold(c)  BY <1>2 DEF Hold, Mark, proc
  <1> QED  BY <1>1, <1>3, LockFree
-----------------------------------------------------------------------------
(* The steps of acquire and release *)
LEMMA GoSteps ==
    ASSUME SpInv, NEW c \in SpCpus, stack[Running(c)] # <<>>, NEW ops \in Seq(Ops), Go(c, ops)
    PROVE  /\ cpu' = cpu => Steps(c, ops \o Tail(stack[Running(c)]), cpu[c])
           /\ \A r \in Cpu : r.on = Running(c) /\ cpu' = [cpu EXCEPT ![c] = r]
                 => Steps(c, ops \o Tail(stack[Running(c)]), r)
  <1>1. ops \o Tail(stack[Running(c)]) \in Seq(Ops)  BY NextOf, Assoc
  <1>2. stack' = [stack EXCEPT ![Running(c)] = ops \o Tail(stack[Running(c)])]  BY DEF Go
  <1>3. cpu = [cpu EXCEPT ![c] = cpu[c]]  BY DEF SpInv, SpTypes
  <1> QED  BY <1>1, <1>2, <1>3, RunOf DEF Steps

\* One operation for another: o2 for the top.
LEMMA ReplaceStep ==
    ASSUME SpInv, NEW c \in SpCpus, stack[Running(c)] # <<>>, NEW o2 \in Ops, Go(c, <<o2>>),
           UNCHANGED <<cpu, lock, procs, clock, panic>>,
           Next1(c).k \notin {"own", "unlock"}, o2.k \notin {"own", "unlock"},
           Good(Running(c)[1], <<o2>> \o Tail(stack[Running(c)]), cpu[c], Hold(c))
    PROVE  SpInv'
  <1> DEFINE s == <<o2>> \o Tail(stack[Running(c)])
  <1>1. Steps(c, s, cpu[c])
    <2>1. <<o2>> \in Seq(Ops)  OBVIOUS
    <2> QED  BY <2>1, GoSteps
  <1>2. s # <<>> /\ Head(s) = o2  BY NextOf, Cons
  <1>3. DOMAIN clock' = DOMAIN clock /\ clock'.ticks \in Int  BY DEF SpInv, SpTypes
  <1> HIDE DEF s
  <1>4. Good(Running(c)[1], s, cpu[c], Hold(c))  BY DEF s
  <1> QED  BY <1>1, <1>2, <1>3, <1>4, StackStep

LEMMA PushcliStep ==
    ASSUME SpInv, NEW c \in SpCpus, pushcli(c)
    PROVE  SpInv'
  <1>1. /\ stack[Running(c)] # <<>> /\ Next1(c).k = "pushcli" /\ cpu[c].ifl
        /\ Go(c, <<Op("cli", Next1(c).l)>>) /\ UNCHANGED <<cpu, lock, procs, clock, panic>>
    BY DEF pushcli, Top
  <1>2. cpu[c] \in Cpu  BY RunOf
  <1>3. Good(Running(c)[1], <<Op("cli", Next1(c).l)>> \o Tail(stack[Running(c)]), cpu[c], Hold(c))
    BY <1>1, <1>2, NextOf, GoodPushcli
  <1>4. Op("cli", Next1(c).l) \in Ops /\ Op("cli", Next1(c).l).k = "cli"
    <2>1. Next1(c).l \in Locks \cup {""} /\ "cli" \in Kinds  BY <1>1, NextOf DEF Ops, Kinds
    <2> QED  BY <2>1, OpIs
  <1> HIDE DEF Op
  <1> QED  BY <1>1, <1>3, <1>4, ReplaceStep

LEMMA CliStep ==
    ASSUME SpInv, NEW c \in SpCpus, cli(c)
    PROVE  SpInv'
  <1> DEFINE o2 == [k |-> "locked", l |-> Next1(c).l, v |-> "acquire"]
             r2 == [cpu[c] EXCEPT !.ifl = FALSE, !.ncli = @ + 1,
                                  !.intena = IF cpu[c].ncli = 0 THEN Next1(c).k = "cli" ELSE @]
  <1>1. /\ stack[Running(c)] # <<>> /\ (Next1(c).k = "cli" \/ (Next1(c).k = "pushcli" /\ ~cpu[c].ifl))
        /\ Go(c, <<o2>>) /\ UNCHANGED <<lock, procs, clock, panic>>
    BY DEF cli, Top, OnlyCpu
  <1>2. cpu' = [cpu EXCEPT ![c] = r2]
    <2>1. Top(c, "cli") = (Next1(c).k = "cli")  BY <1>1 DEF Top
    <2> QED  BY <2>1 DEF cli, OnlyCpu
  <1>3. cpu[c] \in Cpu /\ cpu[c].on = Running(c)  BY RunOf
  <1>4. o2 \in Ops /\ o2.k = "locked"
    <2>1. Next1(c).l \in Locks \cup {""}  BY <1>1, NextOf DEF Ops
    <2> QED  BY <2>1 DEF Ops, Kinds
  <1>5. Good(Running(c)[1], <<o2>> \o Tail(stack[Running(c)]), r2, Hold(c))
    BY <1>1, <1>3, NextOf, GoodCli
  <1>6. r2 \in Cpu /\ r2.on = Running(c)
    <2>1. cpu[c].ncli + 1 \in Nat /\ (IF cpu[c].ncli = 0 THEN Next1(c).k = "cli" ELSE cpu[c].intena) \in BOOLEAN
      <3>1. cpu[c].ncli \in Nat /\ cpu[c].intena \in BOOLEAN  BY <1>3 DEF Cpu
      <3>2. CASE cpu[c].ncli = 0  BY <3>2
      <3>3. CASE cpu[c].ncli # 0  BY <3>1, <3>3
      <3> QED  BY <3>2, <3>3
    <2>2. \A n \in Nat, f \in BOOLEAN :
             LET q == [cpu[c] EXCEPT !.ifl = FALSE, !.ncli = n, !.intena = f] IN q \in Cpu /\ q.on = cpu[c].on
      BY <1>3 DEF Cpu
    <2> QED  BY <1>3, <2>1, <2>2
  <1> HIDE DEF o2, r2
  <1>7. Steps(c, <<o2>> \o Tail(stack[Running(c)]), r2)
    <2>1. <<o2>> \in Seq(Ops)  BY <1>4
    <2> QED  BY <1>1, <1>2, <1>6, <2>1, GoSteps
  <1>8. /\ <<o2>> \o Tail(stack[Running(c)]) # <<>> /\ Head(<<o2>> \o Tail(stack[Running(c)])) = o2
    BY <1>1, <1>4, NextOf, Cons
  <1>9. DOMAIN clock' = DOMAIN clock /\ clock'.ticks \in Int  BY <1>1 DEF SpInv, SpTypes
  <1> QED  BY <1>1, <1>4, <1>5, <1>7, <1>8, <1>9, StackStep

\* The top that asks holding, and the answer it must get.
LEMMA HeldStep ==
    ASSUME SpInv, NEW c \in SpCpus, stack[Running(c)] # <<>>, Next1(c).k \in {"locked", "cpu"},
           NEW yes \in BOOLEAN, yes <=> Next1(c).l \in Hold(c), Held(c, Next1(c), yes)
    PROVE  SpInv'
  <1> DEFINE o == Next1(c)
             u == Tail(stack[Running(c)])
             t == Running(c)[1]
             H == Hold(c)
  <1>1. o \in Ops /\ u \in Seq(Ops) /\ Good(t, <<o>> \o u, cpu[c], H)  BY NextOf
  <1>2. PICK K : Trans(t, o, H, K)  BY NextOf
  <1>3. \/ Acquiring(o) /\ o.v = "acquire" /\ o.l \in Locks \ H
        \/ Releasing(o) /\ o.v = "release" /\ o.l \in Locks \cap H
        \/ Switching(o) /\ o.v = "sched" /\ o.l = "ptable" /\ t = "proc" /\ "ptable" \in H /\ H \cap {"off", "dead"} # {}
    BY <1>2 DEF Trans, Acquiring, Releasing, Switching
  <1>4. o.l \in Locks  BY <1>3 DEF Locks
  <1>5. CASE Acquiring(o) /\ o.v = "acquire" /\ o.l \in Locks \ H
    <2>1. Go(c, <<Op("xchg", o.l)>>) /\ UNCHANGED <<cpu, lock, procs, clock, panic>>  BY <1>5 DEF Held
    <2>2. Op("xchg", o.l) \in Ops /\ Op("xchg", o.l).k = "xchg" /\ Op("xchg", o.l).l = o.l
      <3>1. "xchg" \in Kinds /\ o.l \in Locks \cup {""}  BY <1>4 DEF Kinds
      <3> QED  BY <3>1, OpIs
    <2> HIDE DEF Op, o, H, t
    <2>3. \A L : Trans(t, o, H, L) => Trans(t, Op("xchg", o.l), H, L)
      BY <1>3, <1>5, <2>2 DEF Trans, Acquiring, Releasing, Switching, o
    <2>4. MidOp(o) /\ MidOp(Op("xchg", o.l))  BY <1>5, <2>2 DEF MidOp, o
    <2>5. Good(t, <<Op("xchg", o.l)>> \o u, cpu[c], H)  BY <1>1, <2>2, <2>3, <2>4, GoodRelabel DEF o
    <2> QED  BY <2>1, <2>2, <2>5, ReplaceStep DEF o, t, H
  <1>6. CASE Releasing(o) /\ o.v = "release" /\ o.l \in Locks \cap H
    <2>1. Go(c, <<Op("disown", o.l)>>) /\ UNCHANGED <<cpu, lock, procs, clock, panic>>  BY <1>6 DEF Held
    <2>2. Op("disown", o.l) \in Ops /\ Op("disown", o.l).k = "disown" /\ Op("disown", o.l).l = o.l
      <3>1. "disown" \in Kinds /\ o.l \in Locks \cup {""}  BY <1>4 DEF Kinds
      <3> QED  BY <3>1, OpIs
    <2> HIDE DEF Op, o, H, t
    <2>3. \A L : Trans(t, o, H, L) => Trans(t, Op("disown", o.l), H, L)
      BY <1>3, <1>6, <2>2 DEF Trans, Acquiring, Releasing, Switching, o
    <2>4. ~MidOp(o) /\ ~MidOp(Op("disown", o.l))  BY <1>6, <2>2 DEF MidOp, o
    <2>5. Good(t, <<Op("disown", o.l)>> \o u, cpu[c], H)  BY <1>1, <2>2, <2>3, <2>4, GoodRelabel DEF o
    <2> QED  BY <2>1, <2>2, <2>5, ReplaceStep DEF o, t, H
  <1>7. CASE Switching(o) /\ o.v = "sched" /\ o.l = "ptable" /\ t = "proc" /\ "ptable" \in H
             /\ H \cap {"off", "dead"} # {}
    <2>1. cpu[c].ncli = 1 /\ ~cpu[c].ifl
      <3>1. H = {"ptable", "off"} \/ H = {"ptable", "dead"}
        BY <1>2, <1>7 DEF Trans, Acquiring, Releasing, Switching
      <3>2. Count(H) = 1  BY <3>1, Counts
      <3>3. ~MidOp(o)  BY <1>7 DEF MidOp
      <3> HIDE DEF o, u, t, H
      <3>4. cpu[c].ncli = Count(H) + (IF MidOp(o) THEN 1 ELSE 0) /\ (cpu[c].ifl => cpu[c].ncli = 0)
        BY ONLY <1>1, GoodTop
      <3> QED  BY <3>2, <3>3, <3>4
    <2>2. procs[proc(c)].state # "RUNNING"
      <3>1. Mark(c) # {}  BY <1>7, HoldOf
      <3> QED  BY <3>1, HoldOf
    <2>3. Go(c, <<Op("swtch", "")>>) /\ UNCHANGED <<cpu, lock, procs, clock, panic>>
      BY <1>7, <2>1, <2>2 DEF Held
    <2>4. Op("swtch", "") \in Ops /\ Op("swtch", "").k = "swtch"
      <3>1. "swtch" \in Kinds /\ "" \in Locks \cup {""}  BY DEF Kinds
      <3> QED  BY <3>1, OpIs
    <2> HIDE DEF Op, o, H, t
    <2>5. \A L : Trans(t, o, H, L) => Trans(t, Op("swtch", ""), H, L)
      BY <1>3, <1>7, <2>4 DEF Trans, Acquiring, Releasing, Switching, o
    <2>6. ~MidOp(o) /\ ~MidOp(Op("swtch", ""))  BY <1>7, <2>4 DEF MidOp, o
    <2>7. Good(t, <<Op("swtch", "")>> \o u, cpu[c], H)  BY <1>1, <2>4, <2>5, <2>6, GoodRelabel DEF o
    <2> QED  BY <2>3, <2>4, <2>7, ReplaceStep DEF o, t, H
  <1> QED  BY <1>3, <1>5, <1>6, <1>7

LEMMA HoldingStep ==
    ASSUME SpInv, NEW c \in SpCpus, holding(c) \/ holdingCpu(c)
    PROVE  SpInv'
  <1> DEFINE o == Next1(c)
             t == Running(c)[1]
             H == Hold(c)
  <1>1. stack[Running(c)] # <<>> /\ o.k \in {"locked", "cpu"}  BY DEF holding, holdingCpu, Top
  <1>2. o \in Ops /\ Tail(stack[Running(c)]) \in Seq(Ops)
        /\ Good(t, <<o>> \o Tail(stack[Running(c)]), cpu[c], H)
    BY <1>1, NextOf
  <1>3. PICK K : Trans(t, o, H, K)  BY <1>1, NextOf
  <1>4. o.l \in Locks  BY <1>1, <1>3 DEF Trans, Acquiring, Releasing, Switching, Locks
  <1>5. o.l \in H <=> lock[o.l].cpu = c  BY <1>4, HoldOf
  <1>6. o.l \in H => lock[o.l].locked  BY <1>4, <1>5 DEF SpInv, Mutex, Busy
  <1>7. CASE holding(c) /\ lock[o.l].locked
    <2> DEFINE o2 == [o EXCEPT !.k = "cpu"]
    <2>1. o.k = "locked" /\ Go(c, <<o2>>) /\ UNCHANGED <<cpu, lock, procs, clock, panic>>
      BY <1>7 DEF holding, Top
    <2>2. o2 \in Ops /\ o2.k = "cpu" /\ o2.l = o.l /\ o2.v = o.v  BY <1>2 DEF Ops, Kinds
    <2> HIDE DEF o, o2, H, t
    <2>3. \A L : Trans(t, o, H, L) => Trans(t, o2, H, L)
      BY <2>1, <2>2 DEF Trans, Acquiring, Releasing, Switching
    <2>4. MidOp(o) <=> MidOp(o2)  BY <2>1, <2>2 DEF MidOp
    <2>5. Good(t, <<o2>> \o Tail(stack[Running(c)]), cpu[c], H)
      BY <1>2, <2>1, <2>2, <2>3, <2>4, GoodRelabel
    <2> QED  BY <1>1, <2>1, <2>2, <2>5, ReplaceStep DEF o, t, H
  <1>8. CASE holding(c) /\ ~lock[o.l].locked
    <2>1. Held(c, o, FALSE)  BY <1>8 DEF holding
    <2> QED  BY <1>1, <1>6, <1>8, <2>1, HeldStep
  <1>9. CASE holdingCpu(c)
    <2>1. Held(c, o, lock[o.l].cpu = c)  BY <1>9 DEF holdingCpu
    <2> QED  BY <1>1, <1>5, <2>1, HeldStep
  <1> QED  BY <1>7, <1>8, <1>9


\* A step of c that changes the lock l, which no other CPU has.
LEMMA LockStep ==
    ASSUME SpInv, NEW c \in SpCpus, NEW s, NEW r, Steps(c, s, r), UNCHANGED <<procs, clock, panic>>,
           NEW l \in Locks, NEW new \in Lock, lock' = [lock EXCEPT ![l] = new], new.cpu \in {0, c},
           \A d \in SpCpus : Busy(d, l) => d = c,
           stack[Running(c)] # <<>>, Next1(c).k \in {"own", "unlock"} => Next1(c).l = l,
           s # <<>> /\ Head(s).k \in {"own", "unlock"} => Head(s).l = l,
           new.locked <=> new.cpu = c \/ (s # <<>> /\ Head(s).k \in {"own", "unlock"}),
           Good(Running(c)[1], s, r, {m \in Locks : lock'[m].cpu = c} \cup Mark(c))
    PROVE  SpInv'
  <1>1. \A d \in SpCpus : Running(d)' = Running(d)  BY DEF Running, Steps, SpInv, SpTypes
  <1>2. lock' \in [Locks -> Lock] /\ lock'[l] = new /\ \A m \in Locks : m # l => lock'[m] = lock[m]
    BY DEF SpInv, SpTypes
  <1>3. lock[l].cpu \in {0, c}
    <2>1. lock[l].cpu \in SpCpus \cup {0}  BY DEF SpInv, SpTypes, Lock
    <2> QED  BY <2>1 DEF Busy
  <1>4. LocalLocks(c)
    <2>1. ASSUME NEW d \in SpCpus, NEW m \in Locks, d # c  PROVE  lock'[m].cpu = d <=> lock[m].cpu = d
      <3>1. d # 0  BY ThreadOf
      <3>2. CASE m = l  BY <1>2, <1>3, <2>1, <3>1, <3>2
      <3>3. CASE m # l  BY <1>2, <3>3
      <3> QED  BY <3>2, <3>3
    <2> QED  BY <1>2, <2>1 DEF LocalLocks
  <1>5. Keeps(c)  BY DEF Keeps, SpInv, SpTypes
  <1>6. Running(c) \in KThreads /\ stack'[Running(c)] = s  BY RunOf DEF Steps, SpInv, SpTypes
  <1>7. \A m \in Locks : Partly(c, m)' <=> s # <<>> /\ Head(s).k \in {"own", "unlock"} /\ Head(s).l = m
    BY <1>1, <1>6 DEF Partly, Next1
  <1>8. ASSUME NEW d \in SpCpus, d # c, NEW m \in Locks  PROVE  Busy(d, m)' <=> Busy(d, m)
    <2>1. Running(d) \in KThreads /\ Running(d) # Running(c)  BY <1>8, RunOf DEF SpInv, OnOne
    <2>2. stack'[Running(d)] = stack[Running(d)]  BY <2>1, <1>6 DEF Steps, SpInv, SpTypes
    <2>3. Partly(d, m)' <=> Partly(d, m)  BY <1>1, <2>2 DEF Partly, Next1
    <2>4. lock'[m].cpu = d <=> lock[m].cpu = d  BY <1>4, <1>8 DEF LocalLocks
    <2> QED  BY <2>3, <2>4 DEF Busy
  <1>9. ASSUME NEW m \in Locks, m # l  PROVE  Busy(c, m)' <=> Busy(c, m)
    <2>1. ~Partly(c, m)  BY <1>9 DEF Partly
    <2>2. ~Partly(c, m)'  BY <1>7, <1>9
    <2>3. lock'[m] = lock[m]  BY <1>2, <1>9
    <2> QED  BY <2>1, <2>2, <2>3 DEF Busy
  <1>10. Busy(c, l)' <=> new.locked  BY <1>2, <1>7 DEF Busy
  <1>11. Mutex'
    <2>1. ASSUME NEW m \in Locks, m # l
          PROVE  /\ lock'[m].locked <=> \E d \in SpCpus : Busy(d, m)'
                 /\ \A d, e \in SpCpus : Busy(d, m)' /\ Busy(e, m)' => d = e
      <3>1. \A d \in SpCpus : Busy(d, m)' <=> Busy(d, m)  BY <1>8, <1>9, <2>1
      <3>2. lock'[m] = lock[m]  BY <1>2, <2>1
      <3> QED  BY <3>1, <3>2 DEF SpInv, Mutex
    <2>2. \A d \in SpCpus : Busy(d, l)' => d = c  BY <1>8
    <2>3. lock'[l].locked <=> \E d \in SpCpus : Busy(d, l)'  BY <1>2, <1>10, <2>2
    <2> QED  BY <2>1, <2>2, <2>3 DEF Mutex
  <1>12. Hold(c)' = {m \in Locks : lock'[m].cpu = c} \cup Mark(c)  BY <1>1 DEF Hold, Mark, proc
  <1> QED  BY <1>4, <1>5, <1>11, <1>12, LocalStep

LEMMA XchgStep ==
    ASSUME SpInv, NEW c \in SpCpus, xchg(c)
    PROVE  SpInv'
  <1> DEFINE o == Next1(c)
             o2 == Op("own", o.l)
             u == Tail(stack[Running(c)])
             t == Running(c)[1]
             new == [lock[o.l] EXCEPT !.locked = TRUE]
  <1>1. /\ stack[Running(c)] # <<>> /\ o.k = "xchg" /\ ~lock[o.l].locked /\ Go(c, <<o2>>)
        /\ lock' = [lock EXCEPT ![o.l] = new] /\ UNCHANGED <<cpu, procs, clock, panic>>
    BY DEF xchg, Top, OnlyLock
  <1>2. o \in Ops /\ u \in Seq(Ops) /\ Good(t, <<o>> \o u, cpu[c], Hold(c))  BY <1>1, NextOf
  <1>3. PICK K : Trans(t, o, Hold(c), K)  BY <1>1, NextOf
  <1>4. o.l \in Locks \ Hold(c)  BY <1>1, <1>3 DEF Trans, Acquiring, Releasing, Switching
  <1>5. o2 \in Ops /\ o2.k = "own" /\ o2.l = o.l
    <2>1. "own" \in Kinds /\ o.l \in Locks \cup {""}  BY <1>4 DEF Kinds
    <2> QED  BY <2>1, OpIs
  <1>6. /\ lock[o.l] \in Lock /\ new \in Lock /\ new.locked /\ new.cpu = lock[o.l].cpu
        /\ \A d \in SpCpus : ~Busy(d, o.l)
    BY ZenonT(40), <1>1, <1>4 DEF SpInv, SpTypes, Lock, Mutex
  <1>7. new.cpu = 0  BY <1>6 DEF Busy, Lock
  <1> HIDE DEF o, o2, u, new
  <1>8. \A L : Trans(t, o, Hold(c), L) => Trans(t, o2, Hold(c), L)
    BY <1>1, <1>5 DEF Trans, Acquiring, Releasing, Switching
  <1>9. MidOp(o) /\ MidOp(o2)  BY <1>1, <1>5 DEF MidOp
  <1>10. Good(t, <<o2>> \o u, cpu[c], Hold(c))  BY <1>1, <1>2, <1>5, <1>8, <1>9, GoodRelabel
  <1>11. Steps(c, <<o2>> \o u, cpu[c])
    <2>1. <<o2>> \in Seq(Ops)  BY <1>5
    <2> QED  BY <1>1, <2>1, GoSteps DEF u
  <1>12. <<o2>> \o u # <<>> /\ Head(<<o2>> \o u) = o2  BY <1>2, <1>5, Cons
  <1>13. {m \in Locks : lock'[m].cpu = c} \cup Mark(c) = Hold(c)
    <2>1. \A m \in Locks : lock'[m].cpu = lock[m].cpu  BY <1>1, <1>4, <1>6 DEF SpInv, SpTypes
    <2> QED  BY <2>1 DEF Hold
  <1>14. Next1(c) = o  BY DEF o
  <1> QED  BY <1>1, <1>4, <1>5, <1>6, <1>7, <1>10, <1>11, <1>12, <1>13, <1>14, LockStep

LEMMA OwnStep ==
    ASSUME SpInv, NEW c \in SpCpus, own(c)
    PROVE  SpInv'
  <1> DEFINE o == Next1(c)
             u == Tail(stack[Running(c)])
             t == Running(c)[1]
             new == [lock[o.l] EXCEPT !.cpu = c]
  <1>1. /\ stack[Running(c)] # <<>> /\ o.k = "own" /\ Go(c, <<>>)
        /\ lock' = [lock EXCEPT ![o.l] = new] /\ UNCHANGED <<cpu, procs, clock, panic>>
    BY DEF own, Top, OnlyLock
  <1>2. o \in Ops /\ u \in Seq(Ops) /\ Quiet(u) /\ Good(t, <<o>> \o u, cpu[c], Hold(c)) /\ cpu[c] \in Cpu
    BY <1>1, NextOf, RunOf
  <1> HIDE DEF u, t
  <1>3. o.l \in Locks \ Hold(c) /\ Good(t, u, cpu[c], Hold(c) \cup {o.l})  BY <1>1, <1>2, GoodOwn
  <1>4. Busy(c, o.l) /\ \A d \in SpCpus : Busy(d, o.l) => d = c
    <2>1. Partly(c, o.l)  BY <1>1 DEF Partly
    <2> QED  BY <1>3, <2>1 DEF Busy, SpInv, Mutex
  <1>5. lock[o.l] \in Lock /\ new \in Lock /\ new.locked /\ new.cpu = c
    BY <1>3, <1>4 DEF SpInv, SpTypes, Lock, Mutex
  <1>6. Steps(c, u, cpu[c])
    <2>1. <<>> \in Seq(Ops) /\ <<>> \o u = u  BY <1>2, Assoc
    <2> QED  BY <1>1, <2>1, GoSteps DEF u
  <1>7. u # <<>> => Head(u).k \notin {"own", "unlock"}
    <2>1. u # <<>> => Waits(Head(u))  BY <1>1, <1>2, TopOf
    <2> QED  BY <2>1 DEF Waits
  <1>8. {m \in Locks : lock'[m].cpu = c} \cup Mark(c) = Hold(c) \cup {o.l}
    <2>1. \A m \in Locks : lock'[m].cpu = c <=> m = o.l \/ lock[m].cpu = c
      BY <1>1, <1>3, <1>5 DEF SpInv, SpTypes
    <2> QED  BY <1>3, <2>1 DEF Hold
  <1> HIDE DEF o, new
  <1>9. Next1(c) = o  BY DEF o
  <1>10. Good(Running(c)[1], u, cpu[c], {m \in Locks : lock'[m].cpu = c} \cup Mark(c))  BY <1>3, <1>8 DEF t
  <1>11. UNCHANGED <<procs, clock, panic>>  BY <1>1
  <1> QED  BY <1>1, <1>3, <1>4, <1>5, <1>6, <1>7, <1>9, <1>10, <1>11, LockStep

LEMMA DisownStep ==
    ASSUME SpInv, NEW c \in SpCpus, disown(c)
    PROVE  SpInv'
  <1> DEFINE o == Next1(c)
             o2 == Op("unlock", o.l)
             u == Tail(stack[Running(c)])
             t == Running(c)[1]
             new == [lock[o.l] EXCEPT !.cpu = 0]
  <1>1. /\ stack[Running(c)] # <<>> /\ o.k = "disown" /\ Go(c, <<o2>>)
        /\ lock' = [lock EXCEPT ![o.l] = new] /\ UNCHANGED <<cpu, procs, clock, panic>>
    BY DEF disown, Top, OnlyLock
  <1>2. o \in Ops /\ u \in Seq(Ops) /\ Good(t, <<o>> \o u, cpu[c], Hold(c)) /\ cpu[c] \in Cpu
    BY <1>1, NextOf, RunOf
  <1> HIDE DEF u, t, o2
  <1>3. o.l \in Locks \cap Hold(c) /\ Good(t, <<o2>> \o u, cpu[c], Hold(c) \ {o.l})
    BY <1>1, <1>2, GoodDisown DEF o2
  <1>4. o2 \in Ops /\ o2.k = "unlock" /\ o2.l = o.l
    <2>1. "unlock" \in Kinds /\ o.l \in Locks \cup {""}  BY <1>3 DEF Kinds
    <2> QED  BY <2>1, OpIs DEF o2
  <1>5. Busy(c, o.l) /\ \A d \in SpCpus : Busy(d, o.l) => d = c
    <2>1. lock[o.l].cpu = c  BY <1>3, HoldOf
    <2> QED  BY <1>3, <2>1 DEF Busy, SpInv, Mutex
  <1>6. lock[o.l] \in Lock /\ new \in Lock /\ new.locked /\ new.cpu = 0
    BY <1>3, <1>5 DEF SpInv, SpTypes, Lock, Mutex
  <1>7. Steps(c, <<o2>> \o u, cpu[c])
    <2>1. <<o2>> \in Seq(Ops)  BY <1>4
    <2> QED  BY <1>1, <2>1, GoSteps DEF u
  <1>8. <<o2>> \o u # <<>> /\ Head(<<o2>> \o u) = o2  BY <1>2, <1>4, Cons
  <1>9. {m \in Locks : lock'[m].cpu = c} \cup Mark(c) = Hold(c) \ {o.l}
    <2>1. \A m \in Locks : lock'[m].cpu = c <=> m # o.l /\ lock[m].cpu = c
      <3>1. c # 0  BY ThreadOf
      <3> QED  BY <1>1, <1>3, <1>6, <3>1 DEF SpInv, SpTypes
    <2>2. o.l \notin Mark(c)  BY <1>3 DEF Mark, Locks
    <2> QED  BY <1>3, <2>1, <2>2 DEF Hold
  <1> HIDE DEF o, new
  <1>10. Next1(c) = o  BY DEF o
  <1>11. Good(Running(c)[1], <<o2>> \o u, cpu[c], {m \in Locks : lock'[m].cpu = c} \cup Mark(c))
    BY <1>3, <1>9 DEF t
  <1>12. UNCHANGED <<procs, clock, panic>>  BY <1>1
  <1> QED  BY <1>1, <1>3, <1>4, <1>5, <1>6, <1>7, <1>8, <1>10, <1>11, <1>12, LockStep

LEMMA UnlockStep ==
    ASSUME SpInv, NEW c \in SpCpus, unlock(c)
    PROVE  SpInv'
  <1> DEFINE o == Next1(c)
             u == Tail(stack[Running(c)])
             t == Running(c)[1]
             r == popcli(cpu[c])
             new == [lock[o.l] EXCEPT !.locked = FALSE]
  <1>1. stack[Running(c)] # <<>> /\ o.k = "unlock"  BY DEF unlock, Top
  <1>2. /\ o \in Ops /\ u \in Seq(Ops) /\ Quiet(u) /\ Good(t, <<o>> \o u, cpu[c], Hold(c)) /\ cpu[c] \in Cpu
        /\ cpu[c].on = Running(c)
    BY <1>1, NextOf, RunOf
  <1> HIDE DEF u, t
  <1>3. /\ ~cpu[c].ifl /\ cpu[c].ncli >= 1 /\ o.l \in Locks \ Hold(c)
        /\ r \in Cpu /\ r.on = Running(c) /\ Good(t, u, r, Hold(c))
    BY <1>1, <1>2, GoodUnlock
  <1>4. /\ Go(c, <<>>) /\ lock' = [lock EXCEPT ![o.l] = new] /\ cpu' = [cpu EXCEPT ![c] = r]
        /\ UNCHANGED <<procs, clock, panic>>
    <2>1. cpu[c].ncli \in Nat  BY <1>2 DEF Cpu
    <2>2. ~(cpu[c].ifl \/ cpu[c].ncli < 1)  BY <1>3, <2>1
    <2> QED  BY <2>2 DEF unlock
  <1> HIDE DEF r
  <1>5. Busy(c, o.l) /\ \A d \in SpCpus : Busy(d, o.l) => d = c
    <2>1. Partly(c, o.l)  BY <1>1 DEF Partly
    <2> QED  BY <1>3, <2>1 DEF Busy, SpInv, Mutex
  <1>6. lock[o.l] \in Lock /\ new \in Lock /\ ~new.locked /\ new.cpu = lock[o.l].cpu
    BY <1>3 DEF SpInv, SpTypes, Lock
  <1>7. new.cpu = 0 /\ c # 0
    <2>1. lock[o.l].cpu \in SpCpus \cup {0}  BY <1>6 DEF Lock
    <2>2. lock[o.l].cpu # c  BY <1>3, HoldOf
    <2> QED  BY <1>5, <1>6, <2>1, <2>2, ThreadOf DEF Busy
  <1>8. Steps(c, u, r)
    <2>1. <<>> \in Seq(Ops) /\ <<>> \o u = u  BY <1>2, Assoc
    <2> QED  BY <1>1, <1>3, <1>4, <2>1, GoSteps DEF u
  <1>9. u # <<>> => Head(u).k \notin {"own", "unlock"}
    <2>1. u # <<>> => Waits(Head(u))  BY <1>1, <1>2, TopOf
    <2> QED  BY <2>1 DEF Waits
  <1>10. {m \in Locks : lock'[m].cpu = c} \cup Mark(c) = Hold(c)
    <2>1. \A m \in Locks : lock'[m].cpu = lock[m].cpu
      BY <1>3, <1>4, <1>6 DEF SpInv, SpTypes
    <2> QED  BY <2>1 DEF Hold
  <1> HIDE DEF o, new
  <1>11. Next1(c) = o  BY DEF o
  <1>12. new.cpu \in {0, c} /\ (Next1(c).k \in {"own", "unlock"} => Next1(c).l = o.l)  BY <1>7, <1>11
  <1>13. u # <<>> /\ Head(u).k \in {"own", "unlock"} => Head(u).l = o.l  BY <1>9
  <1>14. new.locked <=> new.cpu = c \/ (u # <<>> /\ Head(u).k \in {"own", "unlock"})  BY <1>6, <1>7, <1>9
  <1>15. Good(Running(c)[1], u, r, {m \in Locks : lock'[m].cpu = c} \cup Mark(c))  BY <1>3, <1>10 DEF t
  <1>16. UNCHANGED <<procs, clock, panic>> /\ o.l \in Locks /\ new \in Lock /\ lock' = [lock EXCEPT ![o.l] = new]
    BY <1>3, <1>4, <1>6
  <1> QED  BY <1>1, <1>5, <1>8, <1>12, <1>13, <1>14, <1>15, <1>16, LockStep
-----------------------------------------------------------------------------
(* The steps that leave the locks alone *)
\* The top is replaced by code, which may be none.
LEMMA CodeStep ==
    ASSUME SpInv, NEW c \in SpCpus, stack[Running(c)] # <<>>, NEW ops, Go(c, ops), cpu' = cpu, lock' = lock, Keeps(c),
           ~MidOp(Next1(c)), Next1(c).k \notin {"intena", "iret"},
           \A K : Trans(Running(c)[1], Next1(c), Hold(c), K) => Code(Running(c)[1], ops, Hold(c)', K)
    PROVE  SpInv' /\ \A d \in SpCpus : Running(d)' = Running(d) /\ proc(d)' = proc(d)
  <1> DEFINE o == Next1(c)
             u == Tail(stack[Running(c)])
             t == Running(c)[1]
             H == Hold(c)
             G == Hold(c)'
  <1>1. /\ o \in Ops /\ u \in Seq(Ops) /\ Quiet(u) /\ Good(t, <<o>> \o u, cpu[c], H)
        /\ \E K : Trans(t, o, H, K)
    BY NextOf
  <1>2. Running(c)' = Running(c)  BY DEF Running
  <1>3. G \cap Locks = H \cap Locks
    <2>1. Mark(c) \cap Locks = {} /\ Mark(c)' \cap Locks = {}  BY DEF Mark, Locks
    <2>2. {l \in Locks : lock'[l].cpu = c} = {l \in Locks : lock[l].cpu = c}  OBVIOUS
    <2> QED  BY <2>1, <2>2 DEF Hold
  <1>4. ~MidOp(o) /\ o.k \notin {"intena", "iret"} /\ \A K : Trans(t, o, H, K) => Code(t, ops, G, K)  OBVIOUS
  <1>5. o.k \notin {"own", "unlock"}  BY DEF MidOp
  <1>6. Go(c, ops)  OBVIOUS
  <1> HIDE DEF o, u, t, H, G
  <1>7. ops \in Seq(Ops) /\ Quiet(ops)  BY <1>1, <1>4 DEF Code
  <1>8. Good(t, ops \o u, cpu[c], G)  BY <1>1, <1>3, <1>4, GoodCode
  <1>9. ops \o u = <<>> \/ Head(ops \o u).k \notin {"own", "unlock"}
    <2>1. Quiet(ops \o u) /\ ops \o u \in Seq(Ops)  BY <1>1, <1>7, QuietCat, Assoc
    <2>2. ops \o u = <<>> \/ Waits(Head(ops \o u))  BY ONLY <1>1, <2>1, TopOf
    <2> QED  BY <2>2 DEF Waits
  <1>10. Steps(c, ops \o u, cpu[c])  BY <1>6, <1>7, GoSteps DEF u
  <1>11. Good(Running(c)[1], ops \o u, cpu[c], Hold(c)')  BY <1>8 DEF t, G
  <1>12. Next1(c).k \notin {"own", "unlock"}  BY <1>5 DEF o
  <1> QED  BY <1>9, <1>10, <1>11, <1>12, LockFree

\* The state of its own process, and the top is gone.
MarkOf(state) == IF state = "RUNNING" THEN {} ELSE IF state = "ZOMBIE" THEN {"dead"} ELSE {"off"}
LEMMA MineStep ==
    ASSUME SpInv, NEW c \in SpCpus, stack[Running(c)] # <<>>, Go(c, <<>>), UNCHANGED <<cpu, lock, clock, panic>>,
           Running(c)[1] = "proc", Next1(c).k \notin {"locked", "cpu", "xchg", "own", "unlock", "intena", "iret"},
           procs[proc(c)].state = "RUNNING",
           NEW q \in Proc, procs' = [procs EXCEPT ![proc(c)] = q],
           \A K : Trans("proc", Next1(c), Hold(c), K) => K = (Hold(c) \cap Locks) \cup MarkOf(q.state)
    PROVE  SpInv'
  <1>1. proc(c) \in SpProcs /\ proc(c) # 0 /\ Running(c) = Thread(proc(c))  BY RunOf, ThreadOf
  <1>2. /\ procs' \in [SpProcs -> Proc] /\ procs'[proc(c)] = q
        /\ \A p \in SpProcs : p # proc(c) => procs'[p] = procs[p]
    BY <1>1 DEF SpInv, SpTypes
  <1>3. Keeps(c)
    <2>1. ASSUME NEW d \in SpCpus, d # c, proc(d) # 0  PROVE  proc(d) # proc(c) /\ proc(d) \in SpProcs
      <3>1. Running(d) = Thread(proc(d)) /\ proc(d) \in SpProcs  BY <2>1, RunOf
      <3>2. Running(d) # Running(c)  BY <2>1 DEF SpInv, OnOne
      <3> QED  BY <1>1, <3>1, <3>2
    <2>2. DOMAIN clock' = DOMAIN clock /\ clock'.ticks \in Int /\ panic' = panic  BY DEF SpInv, SpTypes
    <2>3. \A p \in SpProcs : procs[p].state = "ZOMBIE" => procs'[p].state = "ZOMBIE"  BY <1>2
    <2> QED  BY <1>2, <2>1, <2>2, <2>3 DEF Keeps
  <1>4. Hold(c)' = (Hold(c) \cap Locks) \cup MarkOf(q.state)
    <2>1. Mark(c)' = MarkOf(q.state)  BY <1>1, <1>2 DEF Mark, MarkOf, proc, Running
    <2>2. Mark(c) \cap Locks = {}  BY DEF Mark, Locks
    <2> QED  BY <2>1, <2>2 DEF Hold
  <1>5. ~MidOp(Next1(c))  BY DEF MidOp
  <1>6. \A K : Trans(Running(c)[1], Next1(c), Hold(c), K) => Code(Running(c)[1], <<>>, Hold(c)', K)
    BY <1>4, CodeNil
  <1> QED  BY <1>3, <1>5, <1>6, CodeStep

\* The same of any process, when the mark of c stays.
LEMMA OtherStep ==
    ASSUME SpInv, NEW c \in SpCpus, stack[Running(c)] # <<>>, NEW ops, Go(c, ops), UNCHANGED <<cpu, lock, clock, panic>>,
           Next1(c).k \notin {"locked", "cpu", "xchg", "own", "unlock", "intena", "iret"},
           procs' \in [SpProcs -> Proc],
           \A p \in SpProcs : procs'[p].state # procs[p].state =>
              procs[p].state = "SLEEPING" /\ \A d \in SpCpus : proc(d) # p,
           \A K : Trans(Running(c)[1], Next1(c), Hold(c), K) => Code(Running(c)[1], ops, Hold(c), K)
    PROVE  SpInv'
  <1>1. \A d \in SpCpus : proc(d) = 0 \/ (proc(d) \in SpProcs /\ procs'[proc(d)].state = procs[proc(d)].state)
    BY RunOf
  <1>2. Keeps(c)
    <2>1. DOMAIN clock' = DOMAIN clock /\ clock'.ticks \in Int /\ panic' = panic  BY DEF SpInv, SpTypes
    <2> QED  BY <1>1, <2>1 DEF Keeps
  <1>3. Hold(c)' = Hold(c)
    <2>1. Mark(c)' = Mark(c)  BY <1>1 DEF Mark, proc, Running
    <2> QED  BY <2>1 DEF Hold
  <1>4. ~MidOp(Next1(c))  BY DEF MidOp
  <1> QED  BY <1>2, <1>3, <1>4, CodeStep
-----------------------------------------------------------------------------
(* What is done under the locks *)
LEMMA OwnOp ==
    ASSUME SpInv, NEW c \in SpCpus, stack[Running(c)] # <<>>, NEW K, Trans(Running(c)[1], Next1(c), Hold(c), K),
           Next1(c).k \in {"block", "awake", "runnable", "zombie", "kill", "ticks0", "nap", "start", "done?", "check",
                           "preempt"}
    PROVE  /\ Running(c)[1] = "proc" /\ proc(c) \in SpProcs /\ procs[proc(c)].state = "RUNNING" /\ procs[proc(c)] \in Proc
           /\ Hold(c) \subseteq Locks
           /\ Next1(c).k \in {"block", "awake", "runnable", "zombie", "kill"} => Hold(c) = {"ptable"}
           /\ Next1(c).k \in {"awake", "kill", "ticks0", "nap", "start", "done?", "check", "preempt"} => K = Hold(c)
           /\ Next1(c).k \in {"block", "runnable"} => K = {"ptable", "off"}
           /\ Next1(c).k = "zombie" => K = {"ptable", "dead"}
           /\ Next1(c).k \in {"ticks0", "nap"} => Hold(c) = {"ticks"}
           /\ Next1(c).k \in {"start", "done?"} => Hold(c) = {"ide"}
           /\ Next1(c).k \in {"check", "preempt"} => Hold(c) = {}
  <1> DEFINE o == Next1(c)
             t == Running(c)[1]
             H == Hold(c)
  <1>1. Trans(t, o, H, K)
        /\ o.k \in {"block", "awake", "runnable", "zombie", "kill", "ticks0", "nap", "start", "done?", "check", "preempt"}
    OBVIOUS
  <1> HIDE DEF o, t, H
  <1>2. /\ t = "proc" /\ H \subseteq Locks
        /\ o.k \in {"block", "awake", "runnable", "zombie", "kill"} => H = {"ptable"}
        /\ o.k \in {"awake", "kill", "ticks0", "nap", "start", "done?", "check", "preempt"} => K = H
        /\ o.k \in {"block", "runnable"} => K = {"ptable", "off"}
        /\ o.k = "zombie" => K = {"ptable", "dead"}
        /\ o.k \in {"ticks0", "nap"} => H = {"ticks"}
        /\ o.k \in {"start", "done?"} => H = {"ide"}
        /\ o.k \in {"check", "preempt"} => H = {}
    BY <1>1 DEF Trans, Acquiring, Releasing, Switching, Locks
  <1>3. proc(c) \in SpProcs /\ proc(c) # 0  BY <1>2, RunOf DEF t
  <1>4. Mark(c) = {}  BY <1>2, HoldOf DEF H, Locks
  <1>5. procs[proc(c)].state = "RUNNING" /\ procs[proc(c)] \in Proc  BY <1>3, <1>4, HoldOf DEF SpInv, SpTypes
  <1> QED  BY <1>2, <1>3, <1>5 DEF o, t, H

LEMMA BlockStep ==
    ASSUME SpInv, NEW c \in SpCpus, Top(c, "block"), Go(c, <<>>),
           OnlyProcs([procs EXCEPT ![proc(c)].state = "SLEEPING", ![proc(c)].chan = Next1(c).l])
    PROVE  SpInv'
  <1> DEFINE q == [procs[proc(c)] EXCEPT !.state = "SLEEPING", !.chan = Next1(c).l]
  <1>1. stack[Running(c)] # <<>> /\ Next1(c).k = "block" /\ UNCHANGED <<cpu, lock, clock, panic>>
    BY DEF Top, OnlyProcs
  <1>2. PICK K : Trans(Running(c)[1], Next1(c), Hold(c), K)  BY <1>1, NextOf
  <1>3. /\ Running(c)[1] = "proc" /\ proc(c) \in SpProcs /\ procs[proc(c)].state = "RUNNING" /\ procs[proc(c)] \in Proc
        /\ Hold(c) = {"ptable"}
    BY <1>1, <1>2, OwnOp
  <1>4. \A L : Trans("proc", Next1(c), Hold(c), L) => L = {"ptable", "off"}  BY <1>1, <1>3, OwnOp
  <1>5. Next1(c).l \in Locks \cup {""}  BY <1>1, NextOf DEF Ops
  <1>6. q \in Proc /\ q.state = "SLEEPING"  BY <1>3, <1>5 DEF Proc
  <1>7. procs' = [procs EXCEPT ![proc(c)] = q]  BY <1>3 DEF OnlyProcs, SpInv, SpTypes
  <1>8. (Hold(c) \cap Locks) \cup MarkOf(q.state) = {"ptable", "off"}  BY <1>3, <1>6 DEF MarkOf, Locks
  <1> HIDE DEF q
  <1> QED  BY <1>1, <1>3, <1>4, <1>6, <1>7, <1>8, MineStep

LEMMA RunnableStep ==
    ASSUME SpInv, NEW c \in SpCpus, Top(c, "runnable"), Go(c, <<>>),
           OnlyProcs([procs EXCEPT ![proc(c)].state = "RUNNABLE"])
    PROVE  SpInv'
  <1> DEFINE q == [procs[proc(c)] EXCEPT !.state = "RUNNABLE"]
  <1>1. stack[Running(c)] # <<>> /\ Next1(c).k = "runnable" /\ UNCHANGED <<cpu, lock, clock, panic>>
    BY DEF Top, OnlyProcs
  <1>2. PICK K : Trans(Running(c)[1], Next1(c), Hold(c), K)  BY <1>1, NextOf
  <1>3. /\ Running(c)[1] = "proc" /\ proc(c) \in SpProcs /\ procs[proc(c)].state = "RUNNING" /\ procs[proc(c)] \in Proc
        /\ Hold(c) = {"ptable"}
    BY <1>1, <1>2, OwnOp
  <1>4. \A L : Trans("proc", Next1(c), Hold(c), L) => L = {"ptable", "off"}  BY <1>1, <1>3, OwnOp
  <1>6. q \in Proc /\ q.state = "RUNNABLE"  BY <1>3 DEF Proc
  <1>7. procs' = [procs EXCEPT ![proc(c)] = q]  BY <1>3 DEF OnlyProcs, SpInv, SpTypes
  <1>8. (Hold(c) \cap Locks) \cup MarkOf(q.state) = {"ptable", "off"}  BY <1>3, <1>6 DEF MarkOf, Locks
  <1> HIDE DEF q
  <1> QED  BY <1>1, <1>3, <1>4, <1>6, <1>7, <1>8, MineStep

LEMMA ZombieStep ==
    ASSUME SpInv, NEW c \in SpCpus, Top(c, "zombie"), Go(c, <<>>),
           OnlyProcs([procs EXCEPT ![proc(c)].state = "ZOMBIE"])
    PROVE  SpInv'
  <1> DEFINE q == [procs[proc(c)] EXCEPT !.state = "ZOMBIE"]
  <1>1. stack[Running(c)] # <<>> /\ Next1(c).k = "zombie" /\ UNCHANGED <<cpu, lock, clock, panic>>
    BY DEF Top, OnlyProcs
  <1>2. PICK K : Trans(Running(c)[1], Next1(c), Hold(c), K)  BY <1>1, NextOf
  <1>3. /\ Running(c)[1] = "proc" /\ proc(c) \in SpProcs /\ procs[proc(c)].state = "RUNNING" /\ procs[proc(c)] \in Proc
        /\ Hold(c) = {"ptable"}
    BY <1>1, <1>2, OwnOp
  <1>4. \A L : Trans("proc", Next1(c), Hold(c), L) => L = {"ptable", "dead"}  BY <1>1, <1>3, OwnOp
  <1>6. q \in Proc /\ q.state = "ZOMBIE"  BY <1>3 DEF Proc
  <1>7. procs' = [procs EXCEPT ![proc(c)] = q]  BY <1>3 DEF OnlyProcs, SpInv, SpTypes
  <1>8. (Hold(c) \cap Locks) \cup MarkOf(q.state) = {"ptable", "dead"}  BY <1>3, <1>6 DEF MarkOf, Locks
  <1> HIDE DEF q
  <1> QED  BY <1>1, <1>3, <1>4, <1>6, <1>7, <1>8, MineStep

\* A change of fields of its own process that is not the state.
LEMMA FieldStep ==
    ASSUME SpInv, NEW c \in SpCpus, stack[Running(c)] # <<>>, Go(c, <<>>), UNCHANGED <<cpu, lock, clock, panic>>,
           Next1(c).k \in {"awake", "start", "ticks0"},
           NEW q \in Proc, procs' = [procs EXCEPT ![proc(c)] = q], q.state = procs[proc(c)].state
    PROVE  SpInv'
  <1>1. procs' \in [SpProcs -> Proc] /\ \A p \in SpProcs : procs'[p].state = procs[p].state
    BY DEF SpInv, SpTypes
  <1>2. \A K : Trans(Running(c)[1], Next1(c), Hold(c), K) => Code(Running(c)[1], <<>>, Hold(c), K)
    BY ZenonT(40), OwnOp, CodeNil
  <1> QED  BY <1>1, <1>2, OtherStep

LEMMA FieldSteps ==
    ASSUME SpInv, NEW c \in SpCpus, Go(c, <<>>),
           \/ Top(c, "awake") /\ OnlyProcs([procs EXCEPT ![proc(c)].chan = ""])
           \/ Top(c, "start") /\ OnlyProcs([procs EXCEPT ![proc(c)].request = "busy"])
           \/ Top(c, "ticks0") /\ OnlyProcs([procs EXCEPT ![proc(c)].ticks0 = clock.ticks])
    PROVE  SpInv'
  <1>1. /\ stack[Running(c)] # <<>> /\ Next1(c).k \in {"awake", "start", "ticks0"}
        /\ UNCHANGED <<cpu, lock, clock, panic>>
    BY DEF Top, OnlyProcs
  <1>2. procs[proc(c)] \in Proc /\ proc(c) \in SpProcs  BY <1>1, NextOf, OwnOp
  <1>3. PICK q \in Proc : q.state = procs[proc(c)].state /\ procs' = [procs EXCEPT ![proc(c)] = q]
    <2>1. CASE procs' = [procs EXCEPT ![proc(c)].chan = ""]
      <3> DEFINE q == [procs[proc(c)] EXCEPT !.chan = ""]
      <3>1. q \in Proc /\ q.state = procs[proc(c)].state  BY <1>2 DEF Proc
      <3>2. procs' = [procs EXCEPT ![proc(c)] = q]  BY <2>1, <1>2 DEF SpInv, SpTypes
      <3> QED  BY <3>1, <3>2
    <2>2. CASE procs' = [procs EXCEPT ![proc(c)].request = "busy"]
      <3> DEFINE q == [procs[proc(c)] EXCEPT !.request = "busy"]
      <3>1. q \in Proc /\ q.state = procs[proc(c)].state  BY <1>2 DEF Proc
      <3>2. procs' = [procs EXCEPT ![proc(c)] = q]  BY <2>2, <1>2 DEF SpInv, SpTypes
      <3> QED  BY <3>1, <3>2
    <2>3. CASE procs' = [procs EXCEPT ![proc(c)].ticks0 = clock.ticks]
      <3> DEFINE q == [procs[proc(c)] EXCEPT !.ticks0 = clock.ticks]
      <3>1. q \in Proc /\ q.state = procs[proc(c)].state  BY <1>2 DEF Proc, SpInv, SpTypes
      <3>2. procs' = [procs EXCEPT ![proc(c)] = q]  BY <2>3, <1>2 DEF SpInv, SpTypes
      <3> QED  BY <3>1, <3>2
    <2> QED  BY <2>1, <2>2, <2>3 DEF OnlyProcs
  <1> QED  BY <1>1, <1>3, FieldStep

\* Under ptable.lock, who sleeps runs nowhere.
LEMMA AsleepAway ==
    ASSUME SpInv, NEW c \in SpCpus, Hold(c) \subseteq Locks, "ptable" \in Hold(c),
           NEW p \in SpProcs, procs[p].state = "SLEEPING", NEW d \in SpCpus
    PROVE  proc(d) # p
  <1> SUFFICES ASSUME proc(d) = p  PROVE FALSE  OBVIOUS
  <1>1. p # 0  BY ThreadOf
  <1>2. CASE d = c
    <2>1. Mark(c) = {}  BY HoldOf DEF Locks
    <2> QED  BY <1>1, <1>2, <2>1, HoldOf
  <1>3. CASE d # c  BY <1>1, <1>3, OthersRun
  <1> QED  BY <1>2, <1>3

LEMMA WakeupStep ==
    ASSUME SpInv, NEW c \in SpCpus, Go(c, <<>>),
           \/ /\ Top(c, "wakeup1")
              /\ OnlyProcs([p \in SpProcs |-> IF procs[p].state = "SLEEPING" /\ procs[p].chan = Next1(c).l
                                              THEN [procs[p] EXCEPT !.state = "RUNNABLE"] ELSE procs[p]])
           \/ /\ Top(c, "kill")
              /\ \E p \in SpProcs : OnlyProcs([procs EXCEPT ![p].killed = TRUE,
                                                      ![p].state = IF @ = "SLEEPING" THEN "RUNNABLE" ELSE @])
    PROVE  SpInv'
  <1>1. stack[Running(c)] # <<>> /\ Next1(c).k \in {"wakeup1", "kill"} /\ UNCHANGED <<cpu, lock, clock, panic>>
    BY DEF Top, OnlyProcs
  <1>2. \A K : Trans(Running(c)[1], Next1(c), Hold(c), K) => K = Hold(c) /\ Hold(c) \subseteq Locks /\ "ptable" \in Hold(c)
    BY <1>1 DEF Trans, Acquiring, Releasing, Switching, Locks
  <1>3. Hold(c) \subseteq Locks /\ "ptable" \in Hold(c)  BY <1>1, <1>2, NextOf
  <1>4. procs' \in [SpProcs -> Proc] /\ \A p \in SpProcs : procs'[p].state # procs[p].state => procs[p].state = "SLEEPING"
    <2>1. procs \in [SpProcs -> Proc]  BY DEF SpInv, SpTypes
    <2>2. CASE procs' = [p \in SpProcs |-> IF procs[p].state = "SLEEPING" /\ procs[p].chan = Next1(c).l
                                           THEN [procs[p] EXCEPT !.state = "RUNNABLE"] ELSE procs[p]]
      <3>1. \A p \in SpProcs : [procs[p] EXCEPT !.state = "RUNNABLE"] \in Proc  BY <2>1 DEF Proc
      <3> QED  BY <2>1, <2>2, <3>1
    <2>3. CASE \E p \in SpProcs : procs' = [procs EXCEPT ![p].killed = TRUE,
                                                   ![p].state = IF @ = "SLEEPING" THEN "RUNNABLE" ELSE @]
      <3>1. PICK p \in SpProcs : procs' = [procs EXCEPT ![p].killed = TRUE,
                                                   ![p].state = IF @ = "SLEEPING" THEN "RUNNABLE" ELSE @]
        BY <2>3
      <3> DEFINE q == [procs[p] EXCEPT !.killed = TRUE, !.state = IF @ = "SLEEPING" THEN "RUNNABLE" ELSE @]
      <3>2. q \in Proc /\ (q.state # procs[p].state => procs[p].state = "SLEEPING")
        <4>1. CASE procs[p].state = "SLEEPING"  BY <2>1, <4>1 DEF Proc
        <4>2. CASE procs[p].state # "SLEEPING"  BY <2>1, <4>2 DEF Proc
        <4> QED  BY <4>1, <4>2
      <3>3. procs' = [procs EXCEPT ![p] = q]  BY <2>1, <3>1
      <3> HIDE DEF q
      <3> QED  BY <2>1, <3>2, <3>3
    <2> QED  BY <2>2, <2>3 DEF OnlyProcs
  <1>5. \A p \in SpProcs : procs'[p].state # procs[p].state =>
           procs[p].state = "SLEEPING" /\ \A d \in SpCpus : proc(d) # p
    BY <1>3, <1>4, AsleepAway
  <1>6. \A K : Trans(Running(c)[1], Next1(c), Hold(c), K) => Code(Running(c)[1], <<>>, Hold(c), K)
    BY <1>2, CodeNil
  <1> QED  BY <1>1, <1>4, <1>5, <1>6, OtherStep

LEMMA FinishStep ==
    ASSUME SpInv, NEW c \in SpCpus, Top(c, "finish"), Go(c, <<>>), NEW p \in SpProcs,
           OnlyProcs([procs EXCEPT ![p].request = "done"])
    PROVE  SpInv'
  <1>1. stack[Running(c)] # <<>> /\ Next1(c).k = "finish" /\ UNCHANGED <<cpu, lock, clock, panic>>
    BY DEF Top, OnlyProcs
  <1>2. \A K : Trans(Running(c)[1], Next1(c), Hold(c), K) => Code(Running(c)[1], <<>>, Hold(c), K)
    <2>1. \A K : Trans(Running(c)[1], Next1(c), Hold(c), K) => K = Hold(c)
      BY <1>1 DEF Trans, Acquiring, Releasing, Switching
    <2> QED  BY <2>1, CodeNil
  <1>3. procs \in [SpProcs -> Proc] /\ procs' = [procs EXCEPT ![p].request = "done"]
    BY DEF SpInv, SpTypes, OnlyProcs
  <1>4. [procs[p] EXCEPT !.request = "done"] \in Proc /\ [procs[p] EXCEPT !.request = "done"].state = procs[p].state
    BY <1>3 DEF Proc
  <1>5. procs' \in [SpProcs -> Proc] /\ \A q \in SpProcs : procs'[q].state = procs[q].state
    BY <1>3, <1>4
  <1> QED  BY <1>1, <1>2, <1>5, OtherStep

LEMMA ChangesStep ==
    ASSUME SpInv, NEW c \in SpCpus, Changes(c)
    PROVE  SpInv'
  BY BlockStep, RunnableStep, ZombieStep, FieldSteps, WakeupStep, FinishStep DEF Changes
-----------------------------------------------------------------------------
(* The other steps of a thread *)
LEMMA TickStep ==
    ASSUME SpInv, NEW c \in SpCpus, tick(c)
    PROVE  SpInv'
  <1>1. /\ stack[Running(c)] # <<>> /\ Next1(c).k = "tick" /\ Go(c, <<>>) /\ UNCHANGED <<cpu, lock, procs, panic>>
        /\ clock' = [clock EXCEPT !.ticks = (@ + 1) % 2 ^ SpWidth]
    BY DEF tick, Top
  <1>2. DOMAIN clock' = DOMAIN clock /\ clock'.ticks \in Int
    <2> DEFINE w == 2 ^ SpWidth
               k == (clock.ticks + 1) % w
    <2>1. w \in Nat \ {0} /\ clock.ticks \in Int  BY SpinConstants DEF SpInv, SpTypes
    <2>2. clock' = [clock EXCEPT !.ticks = k] /\ DOMAIN clock = {"ticks", "timers", "calls"}
      BY <1>1 DEF SpInv, SpTypes
    <2> HIDE DEF w
    <2>3. k \in Int  BY <2>1
    <2> HIDE DEF k
    <2> QED  BY <2>2, <2>3
  <1>3. Keeps(c)
    <2>1. procs' \in [SpProcs -> Proc]  BY <1>1 DEF SpInv, SpTypes
    <2> QED  BY <1>1, <1>2, <2>1 DEF Keeps
  <1>4. Hold(c)' = Hold(c)  BY <1>1 DEF Hold, Mark, proc, Running
  <1>5. \A K : Trans(Running(c)[1], Next1(c), Hold(c), K) => Code(Running(c)[1], <<>>, Hold(c)', K)
    <2>1. \A K : Trans(Running(c)[1], Next1(c), Hold(c), K) => K = Hold(c)
      BY <1>1 DEF Trans, Acquiring, Releasing, Switching
    <2> QED  BY <2>1, <1>4, CodeNil
  <1>6. ~MidOp(Next1(c))  BY <1>1 DEF MidOp
  <1> QED  BY <1>1, <1>3, <1>5, <1>6, CodeStep

\* The loops and the tests put code in the place of the top.
LEMMA ExpandStep ==
    ASSUME SpInv, NEW c \in SpCpus, stack[Running(c)] # <<>>, NEW ops, Go(c, ops),
           UNCHANGED <<cpu, lock, procs, clock, panic>>,
           Next1(c).k \in {"nap", "done?", "check", "preempt"},
           \A K : Trans("proc", Next1(c), Hold(c), K) => Code("proc", ops, Hold(c), K)
    PROVE  SpInv'
  <1>1. PICK K : Trans(Running(c)[1], Next1(c), Hold(c), K)  BY NextOf
  <1>2. Running(c)[1] = "proc"  BY <1>1, OwnOp
  <1>3. procs' \in [SpProcs -> Proc]  BY DEF SpInv, SpTypes
  <1> QED  BY <1>2, <1>3, OtherStep

LEMMA NapStep ==
    ASSUME SpInv, NEW c \in SpCpus, nap(c)
    PROVE  SpInv'
  <1> DEFINE ops == IF Elapsed(proc(c)) >= procs[proc(c)].nap % 2 ^ SpWidth \/ procs[proc(c)].killed THEN <<>>
                    ELSE sleep("ticks", "ticks") \o <<Next1(c)>>
  <1>1. /\ stack[Running(c)] # <<>> /\ Next1(c).k = "nap" /\ Go(c, ops) /\ UNCHANGED <<cpu, lock, procs, clock, panic>>
    BY DEF nap, Top
  <1>2. PICK K : Trans(Running(c)[1], Next1(c), Hold(c), K)  BY <1>1, NextOf
  <1>3. Running(c)[1] = "proc" /\ Hold(c) = {"ticks"} /\ Next1(c) \in Ops /\ Waits(Next1(c))
    BY <1>1, <1>2, OwnOp, NextOf DEF Waits
  <1>4. \A L : Trans("proc", Next1(c), Hold(c), L) => L = {"ticks"}  BY <1>1, <1>3, OwnOp
  <1>5. Code("proc", <<>>, {"ticks"}, {"ticks"})  BY CodeNil
  <1>6. Code("proc", sleep("ticks", "ticks") \o <<Next1(c)>>, {"ticks"}, {"ticks"})
    <2>1. Trans("proc", Next1(c), {"ticks"}, {"ticks"})  BY <1>1 DEF Trans
    <2>2. Code("proc", <<Next1(c)>>, {"ticks"}, {"ticks"})  BY <1>3, <2>1, CodeOne
    <2>3. Code("proc", sleep("ticks", "ticks"), {"ticks"}, {"ticks"})  BY CodeSleep
    <2> QED  BY <2>2, <2>3, CodeCat
  <1>7. Code("proc", ops, {"ticks"}, {"ticks"})  BY <1>5, <1>6
  <1> HIDE DEF ops
  <1> QED  BY <1>1, <1>3, <1>4, <1>7, ExpandStep

LEMMA IderwStep ==
    ASSUME SpInv, NEW c \in SpCpus, iderw(c)
    PROVE  SpInv'
  <1> DEFINE ops == IF procs[proc(c)].request = "done" THEN <<>> ELSE sleep("ide", "ide") \o <<Next1(c)>>
  <1>1. /\ stack[Running(c)] # <<>> /\ Next1(c).k = "done?" /\ Go(c, ops)
        /\ UNCHANGED <<cpu, lock, procs, clock, panic>>
    BY DEF iderw, Top
  <1>2. PICK K : Trans(Running(c)[1], Next1(c), Hold(c), K)  BY <1>1, NextOf
  <1>3. Running(c)[1] = "proc" /\ Hold(c) = {"ide"} /\ Next1(c) \in Ops /\ Waits(Next1(c))
    BY <1>1, <1>2, OwnOp, NextOf DEF Waits
  <1>4. \A L : Trans("proc", Next1(c), Hold(c), L) => L = {"ide"}  BY <1>1, <1>3, OwnOp
  <1>5. Code("proc", <<>>, {"ide"}, {"ide"})  BY CodeNil
  <1>6. Code("proc", sleep("ide", "ide") \o <<Next1(c)>>, {"ide"}, {"ide"})
    <2>1. Trans("proc", Next1(c), {"ide"}, {"ide"})  BY <1>1 DEF Trans
    <2>2. Code("proc", <<Next1(c)>>, {"ide"}, {"ide"})  BY <1>3, <2>1, CodeOne
    <2>3. Code("proc", sleep("ide", "ide"), {"ide"}, {"ide"})  BY CodeSleep
    <2> QED  BY <2>2, <2>3, CodeCat
  <1>7. Code("proc", ops, {"ide"}, {"ide"})  BY <1>5, <1>6
  <1> HIDE DEF ops
  <1> QED  BY <1>1, <1>3, <1>4, <1>7, ExpandStep

LEMMA CheckStep ==
    ASSUME SpInv, NEW c \in SpCpus, Check(c) \/ preempt(c)
    PROVE  SpInv'
  <1>1. PICK ops \in {exit_end, yield, <<>>} :
           /\ stack[Running(c)] # <<>> /\ Next1(c).k \in {"check", "preempt"} /\ Go(c, ops)
           /\ UNCHANGED <<cpu, lock, procs, clock, panic>>
    BY DEF Check, preempt, Top
  <1>2. PICK K : Trans(Running(c)[1], Next1(c), Hold(c), K)  BY <1>1, NextOf
  <1>3. Running(c)[1] = "proc" /\ Hold(c) = {}  BY <1>1, <1>2, OwnOp
  <1>4. \A L : Trans("proc", Next1(c), Hold(c), L) => L = {}  BY <1>1, <1>3, OwnOp
  <1>5. Code("proc", ops, {}, {})  BY CodeYield, CodeNil
  <1> QED  BY <1>1, <1>3, <1>4, <1>5, ExpandStep

LEMMA FlagStep ==
    ASSUME SpInv, NEW c \in SpCpus, Swtched(c) \/ sti(c) \/ iret(c)
    PROVE  SpInv'
  <1> DEFINE o == Next1(c)
             u == Tail(stack[Running(c)])
             t == Running(c)[1]
             H == Hold(c)
  <1>1. stack[Running(c)] # <<>> /\ o.k \in {"intena", "sti", "iret"} /\ UNCHANGED <<lock, procs, clock, panic>>
    BY DEF Swtched, sti, iret, Top, OnlyCpu
  <1>2. /\ o \in Ops /\ u \in Seq(Ops) /\ Quiet(u) /\ Good(t, <<o>> \o u, cpu[c], H) /\ cpu[c] \in Cpu
        /\ cpu[c].on = Running(c)
    BY <1>1, NextOf, RunOf
  <1>3. PICK r \in Cpu, ops \in {<<>>, scheduler} :
           cpu' = [cpu EXCEPT ![c] = r] /\ Go(c, ops) /\ r.on = Running(c) /\ Good(t, ops \o u, r, H)
           /\ ops \in Seq(Ops) /\ Quiet(ops)
    <2> HIDE DEF o, u, t, H
    <2>0. <<>> \in Seq(Ops) /\ Quiet(<<>>)  BY DEF Quiet
    <2>1. CASE Swtched(c)
      <3> DEFINE r == [cpu[c] EXCEPT !.intena = o.v = "on"]
      <3>1. o.k = "intena" /\ cpu' = [cpu EXCEPT ![c] = r] /\ Go(c, <<>>)
        BY <2>1 DEF Swtched, Top, OnlyCpu, o
      <3>2. r \in Cpu /\ r.on = Running(c)
        <4>1. (o.v = "on") \in BOOLEAN  OBVIOUS
        <4>2. \A f \in BOOLEAN : [cpu[c] EXCEPT !.intena = f] \in Cpu /\ [cpu[c] EXCEPT !.intena = f].on = cpu[c].on
          BY <1>2 DEF Cpu
        <4> QED  BY <1>2, <4>1, <4>2
      <3>3. Good(t, u, r, H)  BY <1>2, <3>1, GoodIntena
      <3>4. <<>> \o u = u  BY <1>2, Assoc
      <3> HIDE DEF r
      <3> QED  BY <2>0, <3>1, <3>2, <3>3, <3>4
    <2>2. CASE sti(c) \/ iret(c)
      <3> DEFINE r == [cpu[c] EXCEPT !.ifl = TRUE]
      <3>1. PICK ops \in {<<>>, scheduler} :
               cpu' = [cpu EXCEPT ![c] = r] /\ Go(c, ops) /\ (ops = <<>> \/ o.k = "sti") /\ o.k \in {"sti", "iret"}
        <4>1. CASE sti(c)
          <5>1. cpu' = [cpu EXCEPT ![c] = r] /\ Go(c, scheduler) /\ o.k = "sti"  BY <4>1 DEF sti, Top, OnlyCpu, o
          <5> QED  BY <5>1
        <4>2. CASE iret(c)
          <5>1. cpu' = [cpu EXCEPT ![c] = r] /\ Go(c, <<>>) /\ o.k = "iret"  BY <4>2 DEF iret, Top, OnlyCpu, o
          <5> QED  BY <5>1
        <4> QED  BY <2>2, <4>1, <4>2
      <3>2. r \in Cpu /\ r.on = Running(c)  BY <1>2 DEF Cpu
      <3>3. Code(t, ops, {}, {})
        <4>1. ASSUME o.k = "sti"  PROVE t = "cpu"
          <5>1. \E K : Trans(t, o, H, K)  BY <1>2, GoodTop
          <5> QED  BY <4>1, <5>1 DEF Trans, Acquiring, Releasing, Switching
        <4>2. Code(t, <<>>, {}, {})  BY CodeNil
        <4> QED  BY <3>1, <4>1, <4>2, CodeScheduler
      <3>4. Good(t, ops \o u, r, H)  BY <1>2, <3>1, <3>3, GoodOn
      <3> HIDE DEF r
      <3>5. ops \in Seq(Ops) /\ Quiet(ops)  BY <3>3 DEF Code
      <3> QED  BY <3>1, <3>2, <3>4, <3>5
    <2> QED  BY <2>1, <2>2
  <1>4. Steps(c, ops \o u, r)  BY <1>1, <1>3, GoSteps
  <1>5. ops \o u = <<>> \/ Head(ops \o u).k \notin {"own", "unlock"}
    <2>1. Quiet(ops \o u) /\ ops \o u \in Seq(Ops)  BY <1>2, <1>3, QuietCat, Assoc
    <2>2. ops \o u = <<>> \/ Waits(Head(ops \o u))  BY ONLY <1>2, <2>1, TopOf
    <2> QED  BY <2>2 DEF Waits
  <1>6. DOMAIN clock' = DOMAIN clock /\ clock'.ticks \in Int  BY <1>1 DEF SpInv, SpTypes
  <1>7. o.k \notin {"own", "unlock"}  BY <1>1
  <1> QED  BY <1>1, <1>3, <1>4, <1>5, <1>6, <1>7, StackStep
-----------------------------------------------------------------------------
(* System calls and interrupts *)
LEMMA FirstWaits ==
    ASSUME NEW s \in Seq(Ops), Quiet(s)
    PROVE  s = <<>> \/ Head(s).k \notin {"own", "unlock"}
  <1>1. PICK o \in Ops : TRUE
    <2>1. Op("sti", "") \in Ops  BY OpIs DEF Kinds
    <2> QED  BY <2>1
  <1>2. s = <<>> \/ Waits(Head(s))  BY <1>1, TopOf
  <1> QED  BY <1>2 DEF Waits

LEMMA TrapStep ==
    ASSUME SpInv, NEW c \in SpCpus, trap(c)
    PROVE  SpInv'
  <1>1. PICK name \in SpCalls[proc(c)], n \in SpNaps :
          /\ stack' = [stack EXCEPT ![Running(c)] =
                          IF procs[proc(c)].killed THEN exit_end ELSE syscall(name) \o check("user")]
          /\ procs' = [procs EXCEPT ![proc(c)].nap = IF name = "sleep" THEN n ELSE 0]
    BY DEF trap
  <1>2. /\ proc(c) # 0 /\ stack[Running(c)] = <<>> /\ UNCHANGED <<cpu, lock, panic>>
        /\ clock' = [clock EXCEPT !.calls[proc(c)] = @ + 1]
    BY DEF trap
  <1> DEFINE ops == IF procs[proc(c)].killed THEN exit_end ELSE syscall(name) \o check("user")
  <1>3. Running(c)[1] = "proc" /\ proc(c) \in SpProcs /\ cpu[c] \in Cpu /\ cpu[c].on = Running(c)
    BY <1>2, RunOf
  <1>4. Code("proc", ops, {}, {})
    <2>1. name \in {"uptime", "sleep", "disk", "kill"}
      <3>1. SpCalls[proc(c)] \in SUBSET {"uptime", "sleep", "disk", "kill"}  BY <1>3, SpinConstants
      <3> QED  BY <3>1
    <2>2. Code("proc", syscall(name), {}, {})  BY <2>1, CodeSyscall
    <2>3. Code("proc", check("user"), {}, {})  BY CodeCheck
    <2>4. Code("proc", syscall(name) \o check("user"), {}, {})  BY <2>2, <2>3, CodeCat
    <2> QED  BY <2>4, CodeYield
  <1>5. ops \in Seq(Ops) /\ Quiet(ops)  BY <1>4 DEF Code
  <1>6. stack' = [stack EXCEPT ![Running(c)] = ops]  BY <1>1
  <1> HIDE DEF ops
  <1>7. Good("proc", ops, cpu[c], Hold(c))
    <2>1. Good("proc", <<>>, cpu[c], Hold(c))  BY <1>2, <1>3, RunOf
    <2> QED  BY <1>3, <1>4, <2>1, GoodTrap
  <1>8. procs' \in [SpProcs -> Proc] /\ \A p \in SpProcs : procs'[p].state = procs[p].state
    <2> DEFINE k == IF name = "sleep" THEN n ELSE 0
               q == [procs[proc(c)] EXCEPT !.nap = k]
    <2>1. k \in Int  BY SpinConstants
    <2> HIDE DEF k
    <2>2. q \in Proc /\ q.state = procs[proc(c)].state  BY <1>3, <2>1 DEF Proc, SpInv, SpTypes
    <2>3. procs' = [procs EXCEPT ![proc(c)] = q]  BY <1>1, <1>3 DEF SpInv, SpTypes, k
    <2> HIDE DEF q
    <2> QED  BY <2>2, <2>3 DEF SpInv, SpTypes
  <1>9. DOMAIN clock' = DOMAIN clock /\ clock'.ticks \in Int  BY <1>2 DEF SpInv, SpTypes
  <1>10. Keeps(c)
    <2>1. \A d \in SpCpus : proc(d) = 0 \/ proc(d) \in SpProcs  BY RunOf
    <2> QED  BY <1>2, <1>8, <1>9, <2>1 DEF Keeps
  <1>11. Hold(c)' = Hold(c)
    <2>1. Mark(c)' = Mark(c)  BY <1>2, <1>3, <1>8 DEF Mark, proc, Running
    <2> QED  BY <1>2, <2>1 DEF Hold
  <1>12. Steps(c, ops, cpu[c])
    <2>1. cpu = [cpu EXCEPT ![c] = cpu[c]]  BY DEF SpInv, SpTypes
    <2> QED  BY <1>2, <1>3, <1>5, <1>6, <2>1 DEF Steps
  <1>13. ops = <<>> \/ Head(ops).k \notin {"own", "unlock"}  BY <1>5, FirstWaits
  <1>14. Good(Running(c)[1], ops, cpu[c], Hold(c)')  BY <1>3, <1>7, <1>11
  <1>15. lock' = lock  BY <1>2
  <1> QED  BY <1>2, <1>10, <1>12, <1>13, <1>14, <1>15, LockFree

LEMMA IretEnds ==
    ASSUME NEW t, NEW a, Code(t, a, {}, {})
    PROVE  Code(t, a \o <<Op("iret", "")>>, {}, {}) /\ ~NoIret(a \o <<Op("iret", "")>>)
  <1>1. Code(t, <<Op("iret", "")>>, {}, {})  BY CodeHandlerOps
  <1>2. <<Op("iret", "")>> \in Seq(Ops) /\ a \in Seq(Ops)  BY <1>1 DEF Code
  <1>3. Op("iret", "").k = "iret"  BY DEF Op
  <1>4. ~NoIret(<<Op("iret", "")>>)
    <2>1. 1 \in DOMAIN <<Op("iret", "")>> /\ <<Op("iret", "")>>[1] = Op("iret", "")  OBVIOUS
    <2> QED  BY <1>3, <2>1 DEF NoIret
  <1>5. ~NoIret(a \o <<Op("iret", "")>>)  BY <1>2, <1>4, NoIretCat
  <1> QED  BY ONLY <1>1, <1>5, Code(t, a, {}, {}), CodeCat

LEMMA CodeTimer ==
    ASSUME SpInv, NEW c \in SpCpus, NEW from \in {"user", "kernel"}, from = "user" => proc(c) # 0
    PROVE  Code(Running(c)[1], timer(c, from), {}, {}) /\ ~NoIret(timer(c, from))
  <1> DEFINE t == Running(c)[1]
             A == IF c = 1 THEN acquire("ticks") \o <<Op("tick", "")>> \o wakeup("ticks") \o release("ticks") ELSE <<>>
             P == IF proc(c) # 0 THEN <<Op("preempt", "")>> ELSE <<>>
  <1>1. proc(c) # 0 => t = "proc"  BY RunOf
  <1> HIDE DEF t
  <1>2. Code(t, A, {}, {})
    <2>1. Code(t, acquire("ticks"), {}, {"ticks"}) /\ Code(t, release("ticks"), {"ticks"}, {})
      BY CodeLock DEF Locks
    <2>2. Code(t, acquire("ticks") \o <<Op("tick", "")>>, {}, {"ticks"})  BY ONLY <2>1, CodeHandlerOps, CodeCat
    <2>3. Code(t, wakeup("ticks"), {"ticks"}, {"ticks"})  BY CodeWakeup
    <2>4. Code(t, acquire("ticks") \o <<Op("tick", "")>> \o wakeup("ticks"), {}, {"ticks"})
      BY ONLY <2>2, <2>3, CodeCat
    <2>5. Code(t, acquire("ticks") \o <<Op("tick", "")>> \o wakeup("ticks") \o release("ticks"), {}, {})
      BY ONLY <2>1, <2>4, CodeCat
    <2> QED  BY <2>5, CodeNil
  <1>3. Code(t, check(from), {}, {})  BY <1>1, CodeCheck
  <1>4. Code(t, P, {}, {})
    <2>1. CASE proc(c) # 0  BY <1>1, <2>1, CodeOps
    <2>2. CASE proc(c) = 0  BY <2>2, CodeNil
    <2> QED  BY <2>1, <2>2
  <1>5. timer(c, from) = A \o check(from) \o P \o check(from) \o <<Op("iret", "")>>  BY DEF timer
  <1> HIDE DEF A, P
  <1>6. Code(t, A \o check(from), {}, {})  BY ONLY <1>2, <1>3, CodeCat
  <1>7. Code(t, A \o check(from) \o P, {}, {})  BY ONLY <1>4, <1>6, CodeCat
  <1>8. Code(t, A \o check(from) \o P \o check(from), {}, {})  BY ONLY <1>3, <1>7, CodeCat
  <1>9. /\ Code(t, A \o check(from) \o P \o check(from) \o <<Op("iret", "")>>, {}, {})
        /\ ~NoIret(A \o check(from) \o P \o check(from) \o <<Op("iret", "")>>)
    BY ONLY <1>8, IretEnds
  <1> QED  BY <1>5, <1>9 DEF t

LEMMA CodeIdeintr ==
    ASSUME SpInv, NEW c \in SpCpus, NEW from \in {"user", "kernel"}, from = "user" => proc(c) # 0
    PROVE  Code(Running(c)[1], ideintr(from), {}, {}) /\ ~NoIret(ideintr(from))
  <1> DEFINE t == Running(c)[1]
  <1>1. proc(c) # 0 => t = "proc"  BY RunOf
  <1> HIDE DEF t
  <1>2. Code(t, acquire("ide"), {}, {"ide"}) /\ Code(t, release("ide"), {"ide"}, {})
    BY CodeLock DEF Locks
  <1>3. Code(t, acquire("ide") \o <<Op("finish", "")>>, {}, {"ide"})  BY ONLY <1>2, CodeHandlerOps, CodeCat
  <1>4. Code(t, wakeup("ide"), {"ide"}, {"ide"})  BY CodeWakeup
  <1>5. Code(t, acquire("ide") \o <<Op("finish", "")>> \o wakeup("ide"), {}, {"ide"})  BY ONLY <1>3, <1>4, CodeCat
  <1>6. Code(t, acquire("ide") \o <<Op("finish", "")>> \o wakeup("ide") \o release("ide"), {}, {})
    BY ONLY <1>2, <1>5, CodeCat
  <1>7. Code(t, check(from), {}, {})  BY <1>1, CodeCheck
  <1>8. Code(t, acquire("ide") \o <<Op("finish", "")>> \o wakeup("ide") \o release("ide") \o check(from), {}, {})
    BY ONLY <1>6, <1>7, CodeCat
  <1>9. Code(t, ideintr(from), {}, {}) /\ ~NoIret(ideintr(from))  BY <1>8, IretEnds DEF ideintr
  <1> QED  BY <1>9 DEF t

LEMMA IrqStep ==
    ASSUME SpInv, NEW c \in SpCpus, IrqTimer(c) \/ IrqIde(c)
    PROVE  SpInv'
  <1> DEFINE t == Running(c)[1]
             s == stack[Running(c)]
             r == [cpu[c] EXCEPT !.ifl = FALSE]
  <1>1. From(c) \in {"user", "kernel"} /\ (From(c) = "user" => proc(c) # 0)  BY DEF From
  <1>2. PICK ops : Code(t, ops, {}, {}) /\ ~NoIret(ops) /\ Interrupted(c, ops)
    BY <1>1, CodeTimer, CodeIdeintr DEF IrqTimer, IrqIde
  <1>3. /\ cpu[c].ifl /\ stack' = [stack EXCEPT ![Running(c)] = ops \o s] /\ UNCHANGED <<lock, procs, panic>>
        /\ cpu' = [cpu EXCEPT ![c] = r]
    BY <1>2 DEF Interrupted
  <1>4. s \in Seq(Ops) /\ cpu[c] \in Cpu /\ cpu[c].on = Running(c) /\ Good(t, s, cpu[c], Hold(c))  BY RunOf
  <1>5. Good(t, ops \o s, r, Hold(c))  BY <1>2, <1>3, <1>4, GoodInterrupt
  <1>6. r \in Cpu /\ r.on = Running(c)  BY <1>4 DEF Cpu
  <1>7. ops \in Seq(Ops) /\ ops \o s \in Seq(Ops) /\ Quiet(ops) /\ ops # <<>>
    <2>1. ops \in Seq(Ops) /\ Quiet(ops)  BY <1>2 DEF Code
    <2>2. ops # <<>>  BY <1>2 DEF NoIret
    <2> QED  BY <1>4, <2>1, <2>2, Assoc
  <1>8. Steps(c, ops \o s, r)  BY <1>3, <1>6, <1>7 DEF Steps
  <1>9. s = <<>> \/ Next1(c).k \notin {"own", "unlock"}
    <2>1. ~Mid(s)  BY <1>3, <1>4, Counts DEF Good
    <2> QED  BY <2>1 DEF Mid, Next1
  <1>10. ops \o s = <<>> \/ Head(ops \o s).k \notin {"own", "unlock"}
    <2>1. ops = <<Head(ops)>> \o Tail(ops) /\ Head(ops) \in Ops /\ Tail(ops) \in Seq(Ops)  BY <1>7, Uncons
    <2>2. ops \o s = <<Head(ops)>> \o (Tail(ops) \o s) /\ Tail(ops) \o s \in Seq(Ops)
      <3>1. <<Head(ops)>> \in Seq(Ops)  BY <2>1
      <3> QED  BY <1>4, <2>1, <3>1, Assoc
    <2>3. Head(ops \o s) = Head(ops)  BY <2>1, <2>2, Cons
    <2> QED  BY <1>7, <2>3, FirstWaits
  <1>11. DOMAIN clock' = DOMAIN clock /\ clock'.ticks \in Int
    <2>1. clock' = clock \/ clock' = [clock EXCEPT !.timers = @ + 1]  BY DEF IrqTimer, IrqIde
    <2> QED  BY <2>1 DEF SpInv, SpTypes
  <1> HIDE DEF r
  <1> QED  BY <1>3, <1>5, <1>8, <1>9, <1>10, <1>11, StackStep
-----------------------------------------------------------------------------
(* swtch: a CPU goes from the thread x to the thread y. *)
LEMMA SwitchStep ==
    ASSUME SpInv, NEW c \in SpCpus, NEW x \in KThreads, x = Running(c), NEW y \in KThreads, y # x,
           \A d \in SpCpus : Running(d) # y, y[1] = "cpu" => y = Sched(c),
           NEW r \in Cpu, r.on = y, cpu' = [cpu EXCEPT ![c] = r],
           stack' \in [KThreads -> Seq(Ops)], \A z \in KThreads : z # x => stack'[z] = stack[z],
           lock' = lock, Keeps(c),
           stack[x] # <<>>, Next1(c).k \notin {"own", "unlock"}, ~Mid(stack[y]),
           Good(y[1], stack[y], r, Hold(c)'),
           (x[1] = "proc" /\ procs'[x[2]].state = "ZOMBIE") \/ Parked(x)'
    PROVE  SpInv'
  <1>1. cpu' \in [SpCpus -> Cpu] /\ cpu'[c] = r /\ \A d \in SpCpus : d # c => cpu'[d] = cpu[d]
    BY DEF SpInv, SpTypes
  <1>2. Running(c)' = y /\ \A d \in SpCpus : d # c => Running(d)' = Running(d) /\ Running(d) # x /\ Running(d) # y
    BY <1>1 DEF Running, SpInv, OnOne
  <1>3. \A d \in SpCpus : d # c => proc(d)' = proc(d)  BY <1>2 DEF proc
  <1>4. SpTypes'  BY <1>1 DEF SpInv, SpTypes, Keeps
  <1>5. OnOne'
    <2>1. \A d \in SpCpus : Sched(d)' = Sched(d)  BY DEF Sched
    <2>2. ASSUME NEW d \in SpCpus  PROVE  Running(d)'[1] = "cpu" => Running(d)' = Sched(d)
      <3>1. CASE d = c  BY <1>2, <3>1
      <3>2. CASE d # c  BY <1>2, <3>2 DEF SpInv, OnOne
      <3> QED  BY <3>1, <3>2
    <2>3. ASSUME NEW d \in SpCpus, NEW e \in SpCpus, Running(d)' = Running(e)'  PROVE  d = e
      <3>1. CASE d = c  BY <1>2, <2>3, <3>1
      <3>2. CASE d # c /\ e = c  BY <1>2, <2>3, <3>2
      <3>3. CASE d # c /\ e # c  BY <1>2, <2>3, <3>3 DEF SpInv, OnOne
      <3> QED  BY <3>1, <3>2, <3>3
    <2> QED  BY <2>1, <2>2, <2>3 DEF OnOne
  <1>6. Mutex'
    <2>1. ASSUME NEW d \in SpCpus, NEW l \in Locks  PROVE  Busy(d, l)' <=> Busy(d, l)
      <3>1. CASE d = c
        <4>1. ~Partly(c, l)  BY DEF Partly
        <4>2. ~Partly(c, l)'  BY <1>2 DEF Partly, Next1, Mid
        <4> QED  BY <3>1, <4>1, <4>2 DEF Busy
      <3>2. CASE d # c
        <4>1. Running(d)' = Running(d) /\ stack'[Running(d)] = stack[Running(d)]  BY <3>2, <1>2, RunOf
        <4>2. Partly(d, l)' <=> Partly(d, l)  BY <4>1 DEF Partly, Next1
        <4> QED  BY <4>2 DEF Busy
      <3> QED  BY <3>1, <3>2
    <2> QED  BY <2>1 DEF Mutex, SpInv
  <1>7. AllGood'
    <2> SUFFICES ASSUME NEW d \in SpCpus
                 PROVE  Good(Running(d)'[1], stack'[Running(d)'], cpu'[d], Hold(d)')
      BY DEF AllGood
    <2>1. CASE d = c  BY <2>1, <1>1, <1>2
    <2>2. CASE d # c
      <3>1. Running(d)' = Running(d) /\ stack'[Running(d)] = stack[Running(d)]  BY <2>2, <1>2, RunOf
      <3>2. Mark(d)' = Mark(d)
        <4>1. proc(d) = 0 \/ procs'[proc(d)].state = procs[proc(d)].state  BY <2>2 DEF Keeps
        <4> QED  BY <1>3, <2>2, <4>1 DEF Mark
      <3>3. Hold(d)' = Hold(d)  BY <3>2 DEF Hold
      <3> QED  BY <1>1, <2>2, <3>1, <3>3, RunOf
    <2> QED  BY <2>1, <2>2
  <1>8. AllParked'
    <2> SUFFICES ASSUME NEW z \in KThreads
                 PROVE  \/ \E d \in SpCpus : Running(d)' = z
                        \/ z[1] = "proc" /\ procs'[z[2]].state = "ZOMBIE"
                        \/ Parked(z)'
      BY DEF AllParked
    <2>1. CASE z = x  BY <2>1
    <2>2. CASE z # x
      <3>1. CASE \E d \in SpCpus : Running(d) = z
        <4>1. PICK d \in SpCpus : Running(d) = z  BY <3>1
        <4>2. d # c  BY <2>2, <4>1
        <4> QED  BY <1>2, <4>1, <4>2
      <3>2. CASE z[1] = "proc" /\ procs[z[2]].state = "ZOMBIE"  BY <3>2, ThreadOf DEF Keeps
      <3>3. CASE Parked(z)
        <4>1. stack'[z] = stack[z]  BY <2>2
        <4> QED  BY <3>3, <4>1 DEF Parked
      <3> QED  BY <3>1, <3>2, <3>3 DEF SpInv, AllParked
    <2> QED  BY <2>1, <2>2
  <1> QED  BY <1>4, <1>5, <1>6, <1>7, <1>8 DEF SpInv, Keeps

LEMMA SwtchStep ==
    ASSUME SpInv, NEW c \in SpCpus, swtch(c)
    PROVE  SpInv'
  <1>x. PICK x : x = Running(c)  OBVIOUS
  <1>y. PICK y : y = Sched(c)  OBVIOUS
  <1> DEFINE o == Next1(c)
             u == Tail(stack[x])
             H == Hold(c)
             o2 == [k |-> "intena", l |-> "", v |-> IF cpu[c].intena THEN "on" ELSE "off"]
             r == [cpu[c] EXCEPT !.on = y]
  <1>1. /\ stack[x] # <<>> /\ o.k = "swtch" /\ Go(c, <<o2>>) /\ cpu' = [cpu EXCEPT ![c] = r]
        /\ UNCHANGED <<lock, procs, clock, panic>>
    BY <1>x, <1>y DEF swtch, Top, OnlyCpu
  <1>2. /\ o \in Ops /\ u \in Seq(Ops) /\ Quiet(u) /\ Good(x[1], <<o>> \o u, cpu[c], H) /\ cpu[c] \in Cpu
        /\ x \in KThreads
    BY <1>x, <1>1, NextOf, RunOf
  <1>3. y \in KThreads /\ y[1] = "cpu"  BY <1>y, ThreadOf
  <1> HIDE DEF o, u, H, o2
  <1>4. PICK K : Trans(x[1], o, H, K) /\ Legal(x[1], u, K)  BY <1>2, GoodTop
  <1>5. x[1] = "proc" /\ ((H = {"ptable", "off"} /\ K = {"ptable"}) \/ H = {"ptable", "dead"})
    BY <1>1, <1>4 DEF Trans, Acquiring, Releasing, Switching
  <1>6. /\ cpu[c].ncli = 1 /\ ~cpu[c].ifl /\ (o.k # "iret" /\ NoIret(u) => cpu[c].intena)
    <2>1. Count(H) = 1 /\ ~MidOp(o)  BY <1>1, <1>5, Counts DEF MidOp
    <2>2. /\ cpu[c].ncli = Count(H) + (IF MidOp(o) THEN 1 ELSE 0) /\ (cpu[c].ifl => cpu[c].ncli = 0)
          /\ x[1] = "proc" /\ o.k # "iret" /\ NoIret(u) =>
              IF o.k = "intena" THEN o.v = "on" ELSE IF cpu[c].ncli = 0 THEN cpu[c].ifl ELSE cpu[c].intena
      <3>0. PICK q : q = cpu[c]  OBVIOUS
      <3>1. o \in Ops /\ u \in Seq(Ops) /\ Good("proc", <<o>> \o u, q, H)  BY <1>2, <1>5, <3>0
      <3>2. /\ q.ncli = Count(H) + (IF MidOp(o) THEN 1 ELSE 0) /\ (q.ifl => q.ncli = 0)
            /\ o.k # "iret" /\ NoIret(u) =>
                 IF o.k = "intena" THEN o.v = "on" ELSE IF q.ncli = 0 THEN q.ifl ELSE q.intena
        BY ONLY <3>1, GoodTop
      <3> QED  BY <3>0, <3>2
    <2>3. cpu[c].ncli = 1 /\ ~cpu[c].ifl  BY <2>1, <2>2
    <2> QED  BY <1>1, <1>5, <2>2, <2>3
  <1>7. o2 \in Ops /\ o2.k = "intena" /\ (cpu[c].intena => o2.v = "on")  BY DEF o2, Ops, Kinds
  <1>8. \A d \in SpCpus : Running(d) # y
    <2> SUFFICES ASSUME NEW d \in SpCpus, Running(d) = y  PROVE FALSE  OBVIOUS
    <2>1. Running(d) = Sched(d)  BY <1>3 DEF SpInv, OnOne
    <2>2. d = c  BY <1>y, <2>1 DEF Sched
    <2> QED  BY <1>x, <1>3, <1>5, <2>2
  <1>9. Parked(y)
    <2>1. "cpu" # "proc"  OBVIOUS
    <2> QED  BY <1>3, <1>8, <2>1 DEF SpInv, AllParked
  <1>10. r \in Cpu /\ r.on = y /\ r.ncli = 1 /\ ~r.ifl  BY <1>2, <1>3, <1>6 DEF Cpu
  <1>11. /\ stack' \in [KThreads -> Seq(Ops)] /\ \A z \in KThreads : z # x => stack'[z] = stack[z]
         /\ stack'[x] = <<o2>> \o u
    <2>1. stack' = [stack EXCEPT ![x] = <<o2>> \o u]  BY <1>x, <1>1 DEF Go, u
    <2>2. <<o2>> \o u \in Seq(Ops)  BY <1>2, <1>7, Cons
    <2> QED  BY <1>2, <2>1, <2>2 DEF SpInv, SpTypes
  <1>12. Keeps(c)
    <2>1. DOMAIN clock' = DOMAIN clock /\ clock'.ticks \in Int /\ procs' \in [SpProcs -> Proc]
      BY <1>1 DEF SpInv, SpTypes
    <2> QED  BY <1>1, <2>1 DEF Keeps
  <1> HIDE DEF r
  <1>13. Hold(c)' = {"ptable"}
    <2>1. Running(c)' = y  BY <1>1, <1>10 DEF Running, SpInv, SpTypes
    <2>2. Mark(c)' = {}  BY <1>3, <2>1 DEF Mark, proc
    <2>3. {l \in Locks : lock[l].cpu = c} = {"ptable"}
      <3>1. \A l \in Locks : lock[l].cpu = c <=> l \in H  BY HoldOf DEF H
      <3> QED  BY <1>5, <3>1 DEF Locks
    <2> QED  BY <1>1, <2>2, <2>3 DEF Hold
  <1>14. Good(y[1], stack[y], r, Hold(c)')
    <2>1. y[1] # "proc"  BY <1>3
    <2> QED  BY <1>9, <1>10, <1>13, <2>1, Counts DEF Good, Parked
  <1>15. (x[1] = "proc" /\ procs'[x[2]].state = "ZOMBIE") \/ Parked(x)'
    <2>1. CASE H = {"ptable", "dead"}
      <3>1. proc(c) # 0 /\ x = Thread(proc(c)) /\ proc(c) \in SpProcs  BY <1>x, <1>5, RunOf
      <3>2. Mark(c) = {"dead"}  BY <2>1, HoldOf DEF H
      <3>3. procs[proc(c)].state = "ZOMBIE" /\ x[2] = proc(c)  BY <3>1, <3>2, HoldOf, ThreadOf
      <3> QED  BY <1>1, <1>5, <3>3
    <2>2. CASE H = {"ptable", "off"} /\ K = {"ptable"}
      <3>1. Trans("proc", o2, {"ptable"}, {"ptable"})  BY <1>7 DEF Trans
      <3>2. Legal("proc", <<o2>> \o u, {"ptable"})  BY <1>2, <1>4, <1>5, <1>7, <2>2, <3>1, LegalPush
      <3>3. Calm(<<o2>> \o u) /\ ~Mid(<<o2>> \o u) /\ (NoIret(<<o2>> \o u) => NoIret(u))
            /\ <<o2>> \o u # <<>> /\ Head(<<o2>> \o u) = o2
        BY <1>2, <1>7, TopOf, Cons DEF MidOp
      <3>4. o.k # "iret"  BY <1>1
      <3>5. stack'[x] = <<o2>> \o u  BY <1>11
      <3>6. x[1] = "proc" /\ NoIret(stack'[x]) => o2.v = "on"  BY <1>6, <1>7, <3>3, <3>4, <3>5
      <3> QED  BY <1>5, <1>7, <3>2, <3>3, <3>5, <3>6 DEF Parked
    <2> QED  BY <1>5, <2>1, <2>2
  <1>16. Next1(c).k \notin {"own", "unlock"} /\ ~Mid(stack[y]) /\ y # x  BY <1>1, <1>3, <1>5, <1>9 DEF Parked, o
  <1>17. lock' = lock /\ cpu' = [cpu EXCEPT ![c] = r] /\ stack[x] # <<>>  BY <1>1
  <1> QED
    BY <1>x, <1>y, <1>2, <1>3, <1>8, <1>10, <1>11, <1>12, <1>14, <1>15, <1>16, <1>17, SwitchStep


LEMMA ScanStep ==
    ASSUME SpInv, NEW c \in SpCpus, Scan(c)
    PROVE  SpInv'
  <1>x. PICK x : x = Running(c)  OBVIOUS
  <1> DEFINE o == Next1(c)
             u == Tail(stack[x])
             H == Hold(c)
             ready == {p \in SpProcs : p >= cpu[c].p /\ procs[p].state = "RUNNABLE"}
  <1>1. stack[x] # <<>> /\ o.k = "scan" /\ UNCHANGED <<lock, clock, panic>>
    BY <1>x DEF Scan, Top, OnlyCpu
  <1>2. /\ o \in Ops /\ u \in Seq(Ops) /\ Quiet(u) /\ stack[x] = <<o>> \o u /\ Good(x[1], <<o>> \o u, cpu[c], H)
        /\ cpu[c] \in Cpu /\ x \in KThreads /\ cpu[c].on = x
    BY <1>x, <1>1, NextOf, RunOf
  <1>o. Next1(c) = o /\ Hold(c) = H  OBVIOUS
  <1>s. \/ ready = {} /\ Go(c, <<>>) /\ OnlyCpu(c, [cpu[c] EXCEPT !.p = 1])
        \/ /\ ready # {}
           /\ cpu' = [cpu EXCEPT ![c].on = Thread(Min(ready)), ![c].p = Min(ready) + 1]
           /\ procs' = [procs EXCEPT ![Min(ready)].state = "RUNNING"] /\ stack' = stack
    BY DEF Scan
  <1> HIDE DEF o, u, H
  <1>3. x[1] = "cpu" /\ H = {"ptable"} /\ \A K : Trans(x[1], o, H, K) => K = H
    <2>1. \E K : Trans(x[1], o, H, K)  BY <1>2, GoodTop
    <2> QED  BY <1>1, <2>1 DEF Trans, Acquiring, Releasing, Switching
  <1>4. cpu[c].ncli = 1 /\ ~cpu[c].ifl /\ Legal(x[1], stack[x], H) /\ Calm(stack[x])
    <2>1. PICK q : q = cpu[c]  OBVIOUS
    <2>2. o \in Ops /\ u \in Seq(Ops) /\ Good("cpu", <<o>> \o u, q, H)  BY <1>2, <1>3, <2>1
    <2>3. q.ncli = Count(H) + (IF MidOp(o) THEN 1 ELSE 0) /\ (q.ifl => q.ncli = 0)  BY ONLY <2>2, GoodTop
    <2>4. Count(H) = 1 /\ ~MidOp(o)  BY <1>1, <1>3, Counts DEF MidOp
    <2>5. Legal(x[1], stack[x], H) /\ Calm(stack[x])  BY <1>2 DEF Good
    <2> QED  BY <2>1, <2>3, <2>4, <2>5
  <1>5. CASE ready = {} /\ Go(c, <<>>) /\ OnlyCpu(c, [cpu[c] EXCEPT !.p = 1])
    <2> DEFINE r == [cpu[c] EXCEPT !.p = 1]
    <2>1. cpu' = [cpu EXCEPT ![c] = r] /\ procs' = procs  BY <1>5 DEF OnlyCpu
    <2>2. r \in Cpu /\ r.on = x /\ r.ncli = 1 /\ ~r.ifl  BY <1>2, <1>4 DEF Cpu
    <2> HIDE DEF r
    <2>3. Legal(x[1], u, H)
      <3>1. \E K : Trans(x[1], o, H, K) /\ Legal(x[1], u, K)  BY <1>2, GoodTop
      <3> QED  BY <1>3, <3>1
    <2>4. Good(x[1], u, r, H)
      <3>1. x[1] # "proc" /\ r.ncli = Count(H)  BY <1>3, <2>2, Counts
      <3> QED  BY <1>2, <2>2, <2>3, <3>1, GoodPop
    <2>5. Steps(c, u, r)
      <3>1. <<>> \in Seq(Ops) /\ <<>> \o u = u  BY <1>2, Assoc
      <3> QED  BY <1>x, <1>1, <1>5, <2>1, <2>2, <3>1, GoSteps DEF u
    <2>6. u = <<>> \/ Head(u).k \notin {"own", "unlock"}  BY <1>2, FirstWaits
    <2>7. DOMAIN clock' = DOMAIN clock /\ clock'.ticks \in Int  BY <1>1 DEF SpInv, SpTypes
    <2>8. Next1(c).k \notin {"own", "unlock"}  BY <1>1, <1>o
    <2>9. Good(Running(c)[1], u, r, Hold(c))  BY <1>x, <1>o, <2>4
    <2> QED  BY <1>1, <2>1, <2>5, <2>6, <2>7, <2>8, <2>9, StackStep
  <1>6. CASE /\ ready # {}
             /\ cpu' = [cpu EXCEPT ![c].on = Thread(Min(ready)), ![c].p = Min(ready) + 1]
             /\ procs' = [procs EXCEPT ![Min(ready)].state = "RUNNING"] /\ stack' = stack
    <2>1. PICK p \in ready : p = Min(ready)
      <3>1. ready \subseteq Nat  BY SpinConstants
      <3>2. \E m \in ready : \A n \in ready : m <= n  BY <1>6, <3>1, Least
      <3> HIDE DEF ready
      <3> QED  BY <3>2 DEF Min
    <2>2. p \in SpProcs /\ procs[p].state = "RUNNABLE" /\ p \in Nat \ {0}  BY <2>1, SpinConstants
    <2>y. PICK y : y = Thread(p)  OBVIOUS
    <2> DEFINE r == [cpu[c] EXCEPT !.on = y, !.p = p + 1]
    <2>3. cpu' = [cpu EXCEPT ![c] = r] /\ procs' = [procs EXCEPT ![p].state = "RUNNING"] /\ stack' = stack
      <3>1. cpu' = [cpu EXCEPT ![c].on = Thread(p), ![c].p = p + 1]  BY <1>6, <2>1
      <3> QED  BY <1>6, <2>1, <2>y, <3>1 DEF SpInv, SpTypes
    <2>4. y \in KThreads /\ y[1] = "proc" /\ y[2] = p /\ y # x  BY <1>3, <2>2, <2>y, ThreadOf
    <2>5. \A d \in SpCpus : Running(d) # y
      <3> SUFFICES ASSUME NEW d \in SpCpus, Running(d) = y  PROVE FALSE  OBVIOUS
      <3>1. d # c  BY <1>x, <2>4
      <3>2. proc(d) = p /\ proc(d) # 0  BY <2>2, <2>4 DEF proc
      <3>3. procs[proc(d)].state = "RUNNING"  BY <1>3, <1>o, <3>1, <3>2, OthersRun
      <3> QED  BY <2>2, <3>2, <3>3
    <2>6. Parked(y)  BY <2>2, <2>4, <2>5 DEF SpInv, AllParked
    <2>7. r \in Cpu /\ r.on = y /\ r.ncli = 1 /\ ~r.ifl /\ r.ifl = cpu[c].ifl
      <3>1. p + 1 \in Nat  BY <2>2
      <3> QED  BY <1>2, <1>4, <2>4, <3>1 DEF Cpu
    <2> HIDE DEF ready, r
    <2>8. procs' \in [SpProcs -> Proc] /\ procs'[p].state = "RUNNING" /\ \A q \in SpProcs : q # p => procs'[q] = procs[q]
      <3>1. [procs[p] EXCEPT !.state = "RUNNING"] \in Proc /\ [procs[p] EXCEPT !.state = "RUNNING"].state = "RUNNING"
        BY <2>2 DEF Proc, SpInv, SpTypes
      <3> QED  BY <2>2, <2>3, <3>1 DEF SpInv, SpTypes
    <2>9. Keeps(c)
      <3>1. DOMAIN clock' = DOMAIN clock /\ clock'.ticks \in Int /\ panic' = panic  BY <1>1 DEF SpInv, SpTypes
      <3>2. ASSUME NEW d \in SpCpus, d # c, proc(d) # 0  PROVE  procs'[proc(d)].state = procs[proc(d)].state
        <4>1. proc(d) \in SpProcs /\ Running(d) = Thread(proc(d))  BY <3>2, RunOf
        <4>2. proc(d) # p  BY <2>5, <2>y, <4>1
        <4> QED  BY <2>8, <4>1, <4>2
      <3>3. \A q \in SpProcs : procs[q].state = "ZOMBIE" => procs'[q].state = "ZOMBIE"  BY <2>2, <2>8
      <3> QED  BY <2>8, <3>1, <3>2, <3>3 DEF Keeps
    <2>10. Hold(c)' = {"ptable"}
      <3>1. Running(c)' = y  BY <2>3, <2>7 DEF Running, SpInv, SpTypes
      <3>2. Mark(c)' = {}  BY <2>4, <2>8, <3>1 DEF Mark, proc
      <3>3. {l \in Locks : lock[l].cpu = c} = {"ptable"}
        <4>1. \A l \in Locks : lock[l].cpu = c <=> l \in H  BY <1>o, HoldOf
        <4> QED  BY <1>3, <4>1 DEF Locks
      <3> QED  BY <1>1, <3>2, <3>3 DEF Hold
    <2>11. Good(y[1], stack[y], r, {"ptable"})
      <3>1. NoIret(stack[y]) => Base(stack[y], r)  BY <2>4, <2>6 DEF Parked, Base
      <3>2. Count({"ptable"}) = 1  BY Counts
      <3> QED  BY <2>6, <2>7, <3>1, <3>2 DEF Good, Parked
    <2>12. Parked(x)'
      <3>1. ~Mid(stack[x])
        <4>1. ~MidOp(o)  BY <1>1 DEF MidOp
        <4> QED  BY <1>2, <4>1, TopOf
      <3>2. stack'[x] = stack[x]  BY <2>3
      <3> QED  BY <1>3, <1>4, <3>1, <3>2 DEF Parked
    <2>13. Next1(c).k \notin {"own", "unlock"} /\ ~Mid(stack[y])  BY <1>1, <1>o, <2>6 DEF Parked
    <2>14. stack' \in [KThreads -> Seq(Ops)] /\ \A z \in KThreads : z # x => stack'[z] = stack[z]
      BY <2>3 DEF SpInv, SpTypes
    <2>15. y[1] # "cpu" /\ lock' = lock /\ cpu' = [cpu EXCEPT ![c] = r]  BY <1>1, <2>3, <2>4
    <2> QED
      BY <1>x, <1>1, <1>2, <2>4, <2>5, <2>7, <2>9, <2>10, <2>11, <2>12, <2>13, <2>14, <2>15, SwitchStep
  <1> QED  BY <1>s, <1>5, <1>6
-----------------------------------------------------------------------------
LEMMA SpInvInit == SpInit => SpInv
  <1> SUFFICES ASSUME SpInit PROVE SpInv  OBVIOUS
  <1>1. Op("sti", "") \in Ops /\ Waits(Op("sti", ""))
    <2>1. "sti" \in Kinds /\ "" \in Locks \cup {""}  BY DEF Kinds
    <2> QED  BY <2>1, OpIs
  <1>2. Code("cpu", <<Op("sti", "")>>, {}, {}) /\ Code("proc", forkret, {"ptable"}, {})
    BY CodeOps, CodeForkret
  <1>3. /\ <<Op("sti", "")>> \in Seq(Ops) /\ forkret \in Seq(Ops) /\ Quiet(<<Op("sti", "")>>) /\ Quiet(forkret)
        /\ Legal("cpu", <<Op("sti", "")>>, {}) /\ Legal("proc", forkret, {"ptable"})
    <2>1. <<Op("sti", "")>> \in Seq(Ops) /\ forkret \in Seq(Ops) /\ Quiet(<<Op("sti", "")>>) /\ Quiet(forkret)
      BY <1>2 DEF Code
    <2>2. <<>> \in Seq(Ops) /\ Legal("cpu", <<>>, {}) /\ Legal("proc", <<>>, {})  BY LegalEmpty
    <2>3. Legal("cpu", <<Op("sti", "")>> \o <<>>, {}) /\ Legal("proc", forkret \o <<>>, {"ptable"})
      BY <1>2, <2>2 DEF Code
    <2> QED  BY <2>1, <2>3, ConcatEmptySeq
  <1>4. \A x \in KThreads : /\ x[1] = "cpu" => stack[x] = <<Op("sti", "")>>
                            /\ x[1] = "proc" => stack[x] = forkret
    BY DEF SpInit
  <1>5. \A c \in SpCpus : Running(c) = Sched(c) /\ Running(c) \in KThreads /\ Running(c)[1] = "cpu" /\ proc(c) = 0
    BY ThreadOf DEF SpInit, Running, proc
  <1>6. SpTypes
    <2>1. cpu \in [SpCpus -> Cpu]  BY ThreadOf DEF SpInit, Cpu
    <2>2. stack \in [KThreads -> Seq(Ops)]
      <3>1. \A x \in KThreads : (IF x[1] = "cpu" THEN <<Op("sti", "")>> ELSE forkret) \in Seq(Ops)  BY <1>3
      <3> QED  BY <3>1 DEF SpInit
    <2>3. lock \in [Locks -> Lock]  BY DEF SpInit, Lock
    <2>4. procs \in [SpProcs -> Proc]
      <3> DEFINE q == [state |-> "RUNNABLE", chan |-> "", killed |-> FALSE, request |-> "done", nap |-> 0, ticks0 |-> 0]
      <3>1. q \in Proc  BY DEF Proc
      <3>2. procs = [p \in SpProcs |-> q]  BY DEF SpInit
      <3> HIDE DEF q
      <3> QED  BY <3>1, <3>2
    <2>5. DOMAIN clock = {"ticks", "timers", "calls"} /\ clock.ticks \in Int
      <3>1. PICK k : k = [p \in SpProcs |-> 0]  OBVIOUS
      <3>2. clock = [ticks |-> 0, timers |-> 0, calls |-> k]  BY <3>1 DEF SpInit
      <3> QED  BY ONLY <3>2
    <2> QED  BY <2>1, <2>2, <2>3, <2>4, <2>5 DEF SpTypes
  <1>7. OnOne
    <2>1. \A c, d \in SpCpus : Sched(c) = Sched(d) => c = d  BY DEF Sched
    <2> QED  BY <1>5, <2>1 DEF OnOne
  <1>8. \A c \in SpCpus, l \in Locks : ~Busy(c, l)
    <2> SUFFICES ASSUME NEW c \in SpCpus, NEW l \in Locks  PROVE ~Busy(c, l)  OBVIOUS
    <2>1. stack[Running(c)] = <<Op("sti", "")>>  BY <1>4, <1>5
    <2>2. Next1(c) = Op("sti", "")
      <3>1. \A o : Head(<<o>>) = o  OBVIOUS
      <3> QED  BY <2>1, <3>1 DEF Next1
    <2>3. Op("sti", "").k = "sti"  BY DEF Op
    <2>4. ~Partly(c, l)  BY <2>2, <2>3 DEF Partly
    <2>5. lock[l].cpu = 0 /\ c # 0  BY ThreadOf DEF SpInit
    <2> QED  BY <2>4, <2>5 DEF Busy
  <1>9. Mutex  BY <1>8 DEF Mutex, SpInit
  <1>10. AllGood
    <2> SUFFICES ASSUME NEW c \in SpCpus
                 PROVE  Good(Running(c)[1], stack[Running(c)], cpu[c], Hold(c))
      BY DEF AllGood
    <2>1. stack[Running(c)] = <<Op("sti", "")>> /\ Running(c)[1] = "cpu"  BY <1>4, <1>5
    <2>2. Hold(c) = {}
      <3>1. Mark(c) = {}  BY <1>5 DEF Mark
      <3>2. \A l \in Locks : lock[l].cpu # c  BY <1>8 DEF Busy
      <3> QED  BY <3>1, <3>2 DEF Hold
    <2>3. cpu[c].ncli = 0 /\ ~cpu[c].ifl  BY DEF SpInit
    <2> QED  BY <1>3, <2>1, <2>2, <2>3, Counts, GoodPop
  <1>11. AllParked
    <2> SUFFICES ASSUME NEW x \in KThreads, x[1] = "proc"  PROVE Parked(x)
      BY <1>5, ThreadOf DEF AllParked
    <2>1. stack[x] = forkret  BY <1>4
    <2>2. forkret = release("ptable") \o <<Op("iret", "")>>  BY DEF forkret
    <2>3. Code("proc", release("ptable"), {"ptable"}, {})
      BY CodeLock DEF Locks
    <2>4. ~NoIret(forkret)
      <3>1. <<Op("iret", "")>> \in Seq(Ops) /\ release("ptable") \in Seq(Ops)  BY <2>3, CodeHandlerOps DEF Code
      <3>2. ~NoIret(<<Op("iret", "")>>)
        <4>1. 1 \in DOMAIN <<Op("iret", "")>> /\ <<Op("iret", "")>>[1] = Op("iret", "")  OBVIOUS
        <4>2. Op("iret", "").k = "iret"  BY DEF Op
        <4> QED  BY <4>1, <4>2 DEF NoIret
      <3> QED  BY <2>2, <3>1, <3>2, NoIretCat
    <2>5. Calm(forkret) /\ ~Mid(forkret)
      <3>1. forkret = <<>> \/ ~Mid(forkret)  BY <1>1, <1>3, TopOf
      <3>2. ~Mid(<<>>)  BY DEF Mid
      <3> QED  BY <1>3, <3>1, <3>2 DEF Calm, Quiet
    <2> QED  BY <1>3, <2>1, <2>4, <2>5 DEF Parked
  <1> QED  BY <1>6, <1>7, <1>9, <1>10, <1>11 DEF SpInv, SpInit

LEMMA SpInvNext == SpInv /\ [SpNext]_spVars => SpInv'
  <1> SUFFICES ASSUME SpInv, [SpNext]_spVars PROVE SpInv'  OBVIOUS
  <1>1. CASE UNCHANGED spVars
    <2>1. UNCHANGED <<cpu, stack, lock, procs, clock, panic>>  BY <1>1 DEF spVars
    <2>2. \A c \in SpCpus : Running(c)' = Running(c) /\ proc(c)' = proc(c) /\ Sched(c)' = Sched(c)
      BY <2>1 DEF Running, proc, Sched
    <2>3. SpTypes' /\ OnOne'  BY <2>1, <2>2 DEF SpInv, SpTypes, OnOne
    <2>4. \A c \in SpCpus : Hold(c)' = Hold(c) /\ \A l \in Locks : Busy(c, l)' <=> Busy(c, l)
      BY <2>1, <2>2 DEF Hold, Mark, Busy, Partly, Next1
    <2>5. Mutex'  BY <2>1, <2>4 DEF SpInv, Mutex
    <2>6. AllGood'  BY <2>1, <2>2, <2>4 DEF SpInv, AllGood
    <2>7. \A x \in KThreads : Parked(x)' <=> Parked(x)  BY <2>1 DEF Parked
    <2>8. AllParked'  BY <2>1, <2>2, <2>7 DEF SpInv, AllParked
    <2> QED  BY <2>1, <2>3, <2>5, <2>6, <2>8 DEF SpInv
  <1>2. ASSUME NEW c \in SpCpus, Step(c)  PROVE SpInv'
    BY <1>2, PushcliStep, CliStep, HoldingStep, XchgStep, OwnStep, DisownStep, UnlockStep, SwtchStep, FlagStep,
       ScanStep, ChangesStep, TickStep, NapStep, IderwStep, CheckStep, TrapStep
       DEF Step
  <1>3. ASSUME NEW c \in SpCpus, IrqTimer(c) \/ IrqIde(c)  PROVE SpInv'
    BY <1>3, IrqStep
  <1> QED  BY <1>1, <1>2, <1>3 DEF SpNext

\* Nothing panics: acquire never finds its CPU the holder of the lock, release
\* never anybody else, sched always one lock held and interrupts off, and the
\* stacks of all threads, running or not, give back what they hold
\* (spinlock.c, trap.c, swtch and sched of proc.c).
THEOREM SpinsRight == SpSpec => []SpInv
  BY SpInvInit, SpInvNext, PTL DEF SpSpec
-----------------------------------------------------------------------------
(* What follows from the invariant *)
LEMMA UsedRight == SpInv => LocksUsedRight
  BY DEF SpInv, LocksUsedRight

LEMMA FlagsFollow == SpInv => FlagsRight
  <1> SUFFICES ASSUME SpInv, NEW c \in SpCpus
               PROVE  /\ (cpu[c].ncli > 0 \/ \E l \in Locks : lock[l].cpu = c) => ~cpu[c].ifl
                      /\ (proc(c) # 0 /\ cpu[c].ncli = 0 /\ ~InHandler(Running(c))) => cpu[c].ifl
    BY DEF FlagsRight
  <1>1. Good(Running(c)[1], stack[Running(c)], cpu[c], Hold(c)) /\ cpu[c] \in Cpu /\ stack[Running(c)] \in Seq(Ops)
    BY RunOf
  <1>2. cpu[c].ncli \in Nat /\ Count(Hold(c)) \in Nat  BY <1>1, Counts DEF Cpu
  <1>3. /\ cpu[c].ncli = Count(Hold(c)) + (IF Mid(stack[Running(c)]) THEN 1 ELSE 0)
        /\ cpu[c].ifl => cpu[c].ncli = 0
    BY <1>1 DEF Good
  <1>4. cpu[c].ncli = 0 => Count(Hold(c)) = 0  BY <1>2, <1>3
  <1>5. cpu[c].ncli = 0 => \A l \in Locks : lock[l].cpu # c
    <2>1. cpu[c].ncli = 0 => Hold(c) \cap Locks = {}  BY <1>4, Counts
    <2> QED  BY <2>1, HoldOf
  <1>6. ASSUME proc(c) # 0, cpu[c].ncli = 0, ~InHandler(Running(c))  PROVE cpu[c].ifl
    <2>1. Running(c)[1] = "proc" /\ NoIret(stack[Running(c)])  BY <1>6, RunOf DEF InHandler, NoIret
    <2>2. Base(stack[Running(c)], cpu[c])  BY <1>1, <2>1 DEF Good
    <2>3. ASSUME stack[Running(c)] # <<>>  PROVE Head(stack[Running(c)]).k # "intena"
      <3>1. PICK K : Trans(Running(c)[1], Next1(c), Hold(c), K)  BY <2>3, NextOf
      <3>2. ASSUME Next1(c).k = "intena"  PROVE FALSE
        <4>1. Hold(c) = {"ptable"}  BY <3>1, <3>2 DEF Trans, Acquiring, Releasing, Switching
        <4>2. "ptable" \in Locks /\ lock["ptable"].cpu = c  BY <4>1, HoldOf DEF Locks
        <4> QED  BY <1>5, <1>6, <4>2
      <3> QED  BY <3>2 DEF Next1
    <2> QED  BY <1>6, <2>2, <2>3 DEF Base
  <1> QED  BY <1>2, <1>3, <1>5, <1>6

\* A legal stack that has l gives it back.
Gives(o, l) == \/ o.l = l /\ o.k \in {"disown", "unlock"}
               \/ o.l = l /\ o.k \in {"locked", "cpu"} /\ o.v # "acquire"
               \/ o.k = "swtch" /\ l = "ptable"
LEMMA Returns ==
    ASSUME NEW t, NEW s \in Seq(Ops), NEW H, Legal(t, s, H), NEW l \in Locks \cap H
    PROVE  \E i \in DOMAIN s : Gives(s[i], l)
  <1>1. PICK h \in [1 .. Len(s) + 1 -> SUBSET Marks] :
            /\ h[1] = H /\ h[Len(s) + 1] = {}
            /\ \A i \in 1 .. Len(s) : Trans(t, s[i], h[i], h[i + 1])
    BY DEF Legal
  <1>2. Len(s) \in Nat /\ DOMAIN s = 1 .. Len(s)  BY LenProperties
  <1> DEFINE S == {i \in 1 .. Len(s) + 1 : l \notin h[i]}
  <1>3. PICK j \in S : \A i \in S : j <= i
    <2>1. S \subseteq Nat /\ Len(s) + 1 \in S  BY <1>1, <1>2
    <2> QED  BY <2>1, Least
  <1>4. j # 1 /\ j - 1 \in 1 .. Len(s) /\ (j - 1) + 1 = j /\ j - 1 \in 1 .. Len(s) + 1  BY <1>1, <1>2, <1>3
  <1>5. l \in h[j - 1] /\ l \notin h[j]
    <2>1. j - 1 \notin S  BY <1>2, <1>3, <1>4
    <2> QED  BY <1>3, <1>4, <2>1
  <1>6. Trans(t, s[j - 1], h[j - 1], h[j])  BY <1>1, <1>4
  <1>7. \A o, G, K : Trans(t, o, G, K) /\ l \in G /\ l \notin K => Gives(o, l)
    BY DEF Trans, Gives, Acquiring, Releasing, Switching, Locks
  <1>8. Gives(s[j - 1], l)  BY <1>5, <1>6, <1>7
  <1> QED  BY <1>2, <1>4, <1>8

LEMMA BackFollows == SpInv => LocksComeBack
  <1> SUFFICES ASSUME SpInv PROVE LocksComeBack  OBVIOUS
  <1>1. ASSUME NEW l \in Locks, lock[l].locked  PROVE \E c \in SpCpus : Releases(Running(c), l)
    <2>1. PICK c \in SpCpus : Busy(c, l)  BY <1>1 DEF SpInv, Mutex
    <2>2. stack[Running(c)] \in Seq(Ops) /\ Good(Running(c)[1], stack[Running(c)], cpu[c], Hold(c))  BY RunOf
    <2>3. \E i \in DOMAIN stack[Running(c)] : Gives(stack[Running(c)][i], l)
      <3>1. CASE lock[l].cpu = c
        <4>1. l \in Hold(c)  BY <3>1, HoldOf
        <4> QED  BY <2>2, <4>1, Returns DEF Good
      <3>2. CASE Partly(c, l)
        <4>1. stack[Running(c)] # <<>> /\ Next1(c).k \in {"own", "unlock"} /\ Next1(c).l = l  BY <3>2 DEF Partly
        <4>2. 1 \in DOMAIN stack[Running(c)] /\ stack[Running(c)][1] = Next1(c)  BY <2>2, <4>1, Uncons DEF Next1
        <4>3. CASE Next1(c).k = "unlock"
          <5>1. Gives(Next1(c), l)  BY <4>1, <4>3 DEF Gives
          <5> QED  BY <4>2, <5>1
        <4>4. CASE Next1(c).k = "own"
          <5>1. PICK K : Trans(Running(c)[1], Next1(c), Hold(c), K) /\ Legal(Running(c)[1], Tail(stack[Running(c)]), K)
            <6>1. /\ Next1(c) \in Ops /\ Tail(stack[Running(c)]) \in Seq(Ops)
                  /\ Legal(Running(c)[1], <<Next1(c)>> \o Tail(stack[Running(c)]), Hold(c))
              BY <4>1, NextOf DEF Good
            <6> HIDE DEF Next1
            <6> QED  BY <6>1, LegalPop
          <5>2. l \in K  BY <4>1, <4>4, <5>1 DEF Trans, Acquiring, Releasing, Switching
          <5>3. Tail(stack[Running(c)]) \in Seq(Ops)  BY <4>1, NextOf
          <5>4. PICK i \in DOMAIN Tail(stack[Running(c)]) : Gives(Tail(stack[Running(c)])[i], l)
            BY <5>1, <5>2, <5>3, Returns
          <5>5. i + 1 \in DOMAIN stack[Running(c)] /\ stack[Running(c)][i + 1] = Tail(stack[Running(c)])[i]
            BY <2>2, <4>1, <5>4, HeadTailProperties
          <5> QED  BY <5>4, <5>5
        <4> QED  BY <4>1, <4>3, <4>4
      <3> QED  BY <2>1, <3>1, <3>2 DEF Busy
    <2> QED  BY <2>3 DEF Releases, Gives
  <1>2. \E c \in SpCpus : ~(Top(c, "xchg") /\ lock[Next1(c).l].locked)
    <2> SUFFICES ASSUME \A c \in SpCpus : Top(c, "xchg") /\ lock[Next1(c).l].locked  PROVE FALSE
      OBVIOUS
    <2>1. ASSUME NEW c \in SpCpus
          PROVE  /\ Next1(c).l \in Locks \ Hold(c) /\ Hold(c) \subseteq {"ticks", "ide"}
                 /\ Hold(c) = {} \/ Next1(c).l = "ptable"
                 /\ \E d \in SpCpus : Next1(c).l \in Hold(d)
      <3>1. stack[Running(c)] # <<>> /\ Next1(c).k = "xchg" /\ lock[Next1(c).l].locked  BY DEF Top
      <3>2. PICK K : Trans(Running(c)[1], Next1(c), Hold(c), K)  BY <3>1, NextOf
      <3>3. /\ Next1(c).l \in Locks \ Hold(c) /\ Hold(c) \subseteq {"ticks", "ide"}
            /\ Hold(c) = {} \/ Next1(c).l = "ptable"
        BY <3>1, <3>2 DEF Trans, Acquiring, Releasing, Switching
      <3>4. PICK d \in SpCpus : Busy(d, Next1(c).l)  BY <3>1, <3>3 DEF SpInv, Mutex
      <3>5. ~Partly(d, Next1(c).l)
        <4>1. Next1(d).k = "xchg"  BY DEF Top
        <4> QED  BY <4>1 DEF Partly
      <3>6. Next1(c).l \in Hold(d)  BY <3>3, <3>4, <3>5, HoldOf DEF Busy
      <3> QED  BY <3>3, <3>6
    <2>2. PICK c \in SpCpus : TRUE  BY SpinConstants
    <2>3. PICK d \in SpCpus : Next1(c).l \in Hold(d)  BY <2>1
    <2>4. Next1(d).l = "ptable"  BY <2>1, <2>3
    <2>5. PICK e \in SpCpus : "ptable" \in Hold(e)  BY <2>1, <2>4
    <2>6. Hold(e) \subseteq {"ticks", "ide"}  BY <2>1
    <2> QED  BY <2>5, <2>6
  <1> QED  BY <1>1, <1>2 DEF LocksComeBack
-----------------------------------------------------------------------------
(* Sleeping and waking: what the stacks contain *)
NoBlock(s) == \A i \in DOMAIN s : s[i].k # "block"
\* Neither a block nor what a wakeup has to follow.
Plain(s) == \A i \in DOMAIN s : s[i].k \notin {"block", "tick", "finish"}

LEMMA AnyCat ==
    ASSUME NEW a \in Seq(Ops), NEW b \in Seq(Ops)
    PROVE  /\ NoBlock(a \o b) <=> NoBlock(a) /\ NoBlock(b)
           /\ Plain(a \o b) <=> Plain(a) /\ Plain(b)
           /\ \A k, l : Has(a \o b, k, l) <=> Has(a, k, l) \/ Has(b, k, l)
  <1> DEFINE c == a \o b
  <1>1. /\ \A i \in DOMAIN a : i \in DOMAIN c /\ c[i] = a[i]
        /\ \A i \in DOMAIN b : Len(a) + i \in DOMAIN c /\ c[Len(a) + i] = b[i]
        /\ \A i \in DOMAIN c : (i \in DOMAIN a /\ c[i] = a[i]) \/ (\E j \in DOMAIN b : c[i] = b[j])
    BY Places
  <1> HIDE DEF c
  <1>2. NoBlock(c) <=> NoBlock(a) /\ NoBlock(b)  BY ONLY <1>1 DEF NoBlock
  <1>3. Plain(c) <=> Plain(a) /\ Plain(b)  BY ONLY <1>1 DEF Plain
  <1>4. ASSUME NEW k, NEW l  PROVE Has(c, k, l) <=> Has(a, k, l) \/ Has(b, k, l)
    <2>1. Has(c, k, l) => Has(a, k, l) \/ Has(b, k, l)  BY ONLY <1>1 DEF Has
    <2>2. Has(a, k, l) => Has(c, k, l)  BY ONLY <1>1 DEF Has
    <2>3. Has(b, k, l) => Has(c, k, l)  BY ONLY <1>1 DEF Has
    <2> QED  BY <2>1, <2>2, <2>3
  <1> QED  BY <1>2, <1>3, <1>4 DEF c

\* Every k in s is followed by a wakeup of l.
Follows(s, k, l) == \A i \in DOMAIN s : s[i].k = k => \E j \in DOMAIN s : j > i /\ s[j].k = "wakeup1" /\ s[j].l = l
LEMMA WakesIs ==
    ASSUME NEW s
    PROVE  Wakes(s) <=> Follows(s, "tick", "ticks") /\ Follows(s, "finish", "ide")
  BY DEF Wakes, Follows

LEMMA FollowsCat ==
    ASSUME NEW a \in Seq(Ops), NEW b \in Seq(Ops), NEW k, NEW l, Follows(b, k, l),
           Follows(a, k, l) \/ Has(b, "wakeup1", l)
    PROVE  Follows(a \o b, k, l)
  <1> DEFINE c == a \o b
  <1>1. /\ Len(a) \in Nat /\ DOMAIN a \subseteq Nat /\ DOMAIN b \subseteq Nat \ {0} /\ DOMAIN c \subseteq Nat \ {0}
        /\ \A i \in DOMAIN a : i \in DOMAIN c /\ c[i] = a[i] /\ i <= Len(a)
        /\ \A i \in DOMAIN b : Len(a) + i \in DOMAIN c /\ c[Len(a) + i] = b[i]
        /\ \A i \in DOMAIN c : (i \in DOMAIN a /\ c[i] = a[i]) \/ (\E j \in DOMAIN b : i = Len(a) + j /\ c[i] = b[j])
    BY Places
  <1> HIDE DEF c
  <1>2. ASSUME NEW i \in DOMAIN c, c[i].k = k
        PROVE  \E m \in DOMAIN c : m > i /\ c[m].k = "wakeup1" /\ c[m].l = l
    <2>1. CASE i \in DOMAIN a /\ c[i] = a[i]
      <3>1. CASE Follows(a, k, l)
        <4>1. PICK m \in DOMAIN a : m > i /\ a[m].k = "wakeup1" /\ a[m].l = l  BY <1>2, <2>1, <3>1 DEF Follows
        <4> QED  BY <1>1, <4>1
      <3>2. CASE Has(b, "wakeup1", l)
        <4>1. PICK m \in DOMAIN b : b[m].k = "wakeup1" /\ b[m].l = l  BY <3>2 DEF Has
        <4>2. Len(a) + m \in DOMAIN c /\ c[Len(a) + m] = b[m]  BY <1>1, <4>1
        <4>3. Len(a) + m > i
          <5>1. m \in Nat \ {0} /\ i \in Nat /\ i <= Len(a) /\ Len(a) \in Nat  BY <1>1, <2>1, <4>1
          <5> QED  BY ONLY <5>1
        <4> QED  BY <4>1, <4>2, <4>3
      <3> QED  BY <3>1, <3>2
    <2>2. CASE \E j \in DOMAIN b : i = Len(a) + j /\ c[i] = b[j]
      <3>1. PICK j \in DOMAIN b : i = Len(a) + j /\ c[i] = b[j]  BY <2>2
      <3>2. PICK m \in DOMAIN b : m > j /\ b[m].k = "wakeup1" /\ b[m].l = l  BY <1>2, <3>1 DEF Follows
      <3>3. Len(a) + m \in DOMAIN c /\ c[Len(a) + m] = b[m]  BY <1>1, <3>2
      <3>4. Len(a) + m > i
        <4>1. m \in Nat /\ j \in Nat /\ Len(a) \in Nat  BY <1>1, <3>1, <3>2
        <4> QED  BY ONLY <3>1, <3>2, <4>1
      <3> QED  BY <3>2, <3>3, <3>4
    <2> QED  BY <1>1, <2>1, <2>2
  <1>3. Follows(c, k, l)  BY <1>2 DEF Follows
  <1> QED  BY <1>3 DEF c

LEMMA WakesCat ==
    ASSUME NEW a \in Seq(Ops), NEW b \in Seq(Ops), Wakes(a), Wakes(b)
    PROVE  Wakes(a \o b)
  BY FollowsCat, WakesIs

LEMMA PlainWakes ==
    ASSUME NEW a, Plain(a)
    PROVE  Wakes(a) /\ NoBlock(a)
  BY DEF Plain, Wakes, NoBlock

LEMMA FollowsTail ==
    ASSUME NEW o \in Ops, NEW u \in Seq(Ops), NEW k, NEW l, Follows(<<o>> \o u, k, l)
    PROVE  Follows(u, k, l) /\ (o.k = k => Has(u, "wakeup1", l))
  <1> DEFINE c == <<o>> \o u
  <1>1. <<o>> \in Seq(Ops) /\ Len(<<o>>) = 1 /\ DOMAIN <<o>> = {1} /\ <<o>>[1] = o  OBVIOUS
  <1>2. /\ DOMAIN u \subseteq Nat \ {0} /\ 1 \in DOMAIN c /\ c[1] = o
        /\ \A i \in DOMAIN u : 1 + i \in DOMAIN c /\ c[1 + i] = u[i]
        /\ \A i \in DOMAIN c : i = 1 \/ \E j \in DOMAIN u : i = 1 + j /\ c[i] = u[j]
    <2>0. PICK a \in Seq(Ops) : a = <<o>>  BY <1>1
    <2>1. /\ DOMAIN u \subseteq Nat \ {0}
          /\ \A i \in DOMAIN a : i \in DOMAIN (a \o u) /\ (a \o u)[i] = a[i]
          /\ \A i \in DOMAIN u : Len(a) + i \in DOMAIN (a \o u) /\ (a \o u)[Len(a) + i] = u[i]
          /\ \A i \in DOMAIN (a \o u) : \/ i \in DOMAIN a /\ (a \o u)[i] = a[i]
                                        \/ \E j \in DOMAIN u : i = Len(a) + j /\ (a \o u)[i] = u[j]
      BY Places
    <2>2. Len(a) = 1 /\ DOMAIN a = {1} /\ a[1] = o  BY <1>1, <2>0
    <2>3. c = a \o u  BY <2>0
    <2> HIDE DEF c
    <2> QED  BY ONLY <2>1, <2>2, <2>3
  <1> HIDE DEF c
  <1>3. ASSUME NEW i \in DOMAIN c, i \in Nat, c[i].k = k
        PROVE  \E j \in DOMAIN u : 1 + j > i /\ u[j].k = "wakeup1" /\ u[j].l = l
    <2>1. PICK m \in DOMAIN c : m > i /\ c[m].k = "wakeup1" /\ c[m].l = l  BY <1>3 DEF Follows, c
    <2>2. i >= 1
      <3>1. i = 1 \/ \E j \in DOMAIN u : i = 1 + j  BY <1>2, <1>3
      <3> QED  BY <1>2, <3>1
    <2>3. PICK j \in DOMAIN u : m = 1 + j /\ c[m] = u[j]
      <3>1. m = 1 \/ \E j \in DOMAIN u : m = 1 + j /\ c[m] = u[j]  BY <1>2, <2>1
      <3>2. m # 1  BY <1>3, <2>1, <2>2
      <3> QED  BY <3>1, <3>2
    <2> QED  BY <2>1, <2>3
  <1>4. ASSUME NEW i \in DOMAIN u, u[i].k = k
        PROVE  \E j \in DOMAIN u : j > i /\ u[j].k = "wakeup1" /\ u[j].l = l
    <2>1. 1 + i \in DOMAIN c /\ c[1 + i].k = k /\ i \in Nat \ {0} /\ 1 + i \in Nat  BY <1>2, <1>4
    <2>2. PICK j \in DOMAIN u : 1 + j > 1 + i /\ u[j].k = "wakeup1" /\ u[j].l = l  BY <1>3, <2>1
    <2>3. j \in Nat  BY <1>2
    <2> QED  BY <2>1, <2>2, <2>3
  <1>5. o.k = k => Has(u, "wakeup1", l)  BY <1>2, <1>3 DEF Has
  <1> QED  BY <1>4, <1>5 DEF Follows

LEMMA WakesTail ==
    ASSUME NEW o \in Ops, NEW u \in Seq(Ops), Wakes(<<o>> \o u)
    PROVE  /\ Wakes(u)
           /\ o.k = "tick" => Has(u, "wakeup1", "ticks")
           /\ o.k = "finish" => Has(u, "wakeup1", "ide")
  BY FollowsTail, WakesIs
-----------------------------------------------------------------------------
(* Sleeping and waking: one step *)
LEMMA BlockAt ==
    ASSUME SpInv, SleepInv, NEW c \in SpCpus, NEW i \in DOMAIN stack[Running(c)], stack[Running(c)][i].k = "block"
    PROVE  /\ i \in {1, 2, 3} /\ stack[Running(c)] # <<>> /\ stack[Running(c)][1] = Next1(c)
           /\ Running(c)[1] = "proc" /\ proc(c) \in SpProcs /\ proc(c) # 0
           /\ stack[Running(c)][i].l \in {"ticks", "ide"}
           /\ i = 1 => Next1(c).k = "block"
           /\ i = 2 => (Releasing(Next1(c)) \/ Next1(c).k = "unlock") /\ Next1(c).l = stack[Running(c)][i].l
           /\ i = 3 => Acquiring(Next1(c)) /\ Next1(c).l = "ptable"
           /\ \E l \in Locks : lock[l].cpu = c
  <1>1. Going(c, i)  BY DEF SleepInv
  <1>2. stack[Running(c)] \in Seq(Ops) /\ Legal(Running(c)[1], stack[Running(c)], Hold(c))  BY RunOf DEF Good
  <1>3. i \in 1 .. Len(stack[Running(c)]) /\ DOMAIN stack[Running(c)] = 1 .. Len(stack[Running(c)])
        /\ Len(stack[Running(c)]) \in Nat
    BY <1>2, LenProperties
  <1>4. i \in {1, 2, 3} /\ stack[Running(c)] # <<>>  BY <1>1, <1>3 DEF Going
  <1>5. stack[Running(c)][1] = Next1(c)  BY <1>2, <1>4, Uncons DEF Next1
  <1>6. Running(c)[1] = "proc"
    <2>1. \E H, K : Trans(Running(c)[1], stack[Running(c)][i], H, K)  BY <1>2, <1>3 DEF Legal
    <2> QED  BY <2>1 DEF Trans, Acquiring, Releasing, Switching
  <1>7. proc(c) \in SpProcs /\ proc(c) # 0  BY <1>6, RunOf
  <1>8. \E l \in Locks : lock[l].cpu = c  BY <1>1, <1>4 DEF Going, Locks
  <1> HIDE DEF Next1
  <1>9. stack[Running(c)][i].l \in {"ticks", "ide"}  BY <1>1 DEF Going
  <1>10. i = 2 => (Releasing(Next1(c)) \/ Next1(c).k = "unlock") /\ Next1(c).l = stack[Running(c)][i].l
    BY <1>1, <1>5 DEF Going
  <1>11. i = 3 => Acquiring(Next1(c)) /\ Next1(c).l = "ptable"  BY <1>1, <1>5 DEF Going
  <1>12. i = 1 => Next1(c).k = "block"  BY <1>5
  <1> QED  BY <1>4, <1>5, <1>6, <1>7, <1>8, <1>9, <1>10, <1>11, <1>12

LEMMA NoBlockAt ==
    ASSUME SpInv, SleepInv, NEW c \in SpCpus,
           \/ stack[Running(c)] = <<>>
           \/ cpu[c].ifl
           \/ ~Acquiring(Next1(c)) /\ ~Releasing(Next1(c)) /\ Next1(c).k \notin {"block", "unlock"}
    PROVE  NoBlock(stack[Running(c)])
  <1> SUFFICES ASSUME NEW i \in DOMAIN stack[Running(c)], stack[Running(c)][i].k = "block"  PROVE FALSE
    BY DEF NoBlock
  <1>1. cpu[c].ifl => \A l \in Locks : lock[l].cpu # c
    <2>1. FlagsRight  BY FlagsFollow
    <2> QED  BY <2>1 DEF FlagsRight
  <1> QED  BY <1>1, BlockAt

\* What a step of c must do for SleepInv to stay.
LEMMA SleepStep ==
    ASSUME SpInv, SleepInv, NEW c \in SpCpus, NEW x \in KThreads, x = Running(c),
           \A z \in KThreads : z # x => stack'[z] = stack[z],
           Wakes(stack'[x]),
           \A d \in SpCpus : d # c => Running(d)' = Running(d),
           Running(c)' # x => \A d \in SpCpus : Running(d) # Running(c)',
           Running(c)' \in KThreads,
           \A i \in DOMAIN stack'[x] : stack'[x][i].k = "block" => Running(c)' = x /\ Going(c, i)',
           \A d \in SpCpus, l \in Locks : d # c /\ lock[l].cpu = d => lock'[l].cpu = d,
           \A l \in {"ticks", "ide"} : Waking(l) =>
              \/ Waking(l)'
              \/ "ptable" \in Hold(c) /\ \A p \in SpProcs : procs'[p].state = "SLEEPING" => procs'[p].chan # l,
           \A p \in SpProcs, l \in {"ticks", "ide"} : NotDue(p, l) =>
              \/ NotDue(p, l)'
              \/ Waking(l)' /\ l \in Hold(c)
              \/ p = proc(c) /\ procs'[p].state # "SLEEPING",
           \A p \in SpProcs : procs'[p].state = "SLEEPING" =>
              \/ procs[p].state = "SLEEPING" /\ procs'[p].chan = procs[p].chan
              \/ \E l \in {"ticks", "ide"} : procs'[p].chan = l /\ (NotDue(p, l)' \/ Waking(l)')
    PROVE  SleepInv'
  <1>1. \A z \in KThreads : Wakes(stack'[z])
    <2> TAKE z \in KThreads
    <2>1. CASE z = x  BY <2>1
    <2>2. CASE z # x  BY <2>2 DEF SleepInv
    <2> QED  BY <2>1, <2>2
  <1>2. ASSUME NEW z \in KThreads, \E i \in DOMAIN stack'[z] : stack'[z][i].k = "block"
        PROVE  \E d \in SpCpus : Running(d)' = z
    <2>1. CASE z = x  BY <1>2, <2>1
    <2>2. CASE z # x
      <3>1. PICK d \in SpCpus : Running(d) = z  BY <1>2, <2>2 DEF SleepInv
      <3>2. d # c  BY <2>2, <3>1
      <3> QED  BY <3>1, <3>2
    <2> QED  BY <2>1, <2>2
  <1>3. ASSUME NEW d \in SpCpus, NEW i \in DOMAIN stack'[Running(d)'], stack'[Running(d)'][i].k = "block"
        PROVE  Going(d, i)'
    <2>1. CASE d = c
      <3>1. CASE Running(c)' = x  BY <1>3, <2>1, <3>1
      <3>2. CASE Running(c)' # x
        <4>1. stack'[Running(c)'] = stack[Running(c)']  BY <3>2
        <4>2. \E e \in SpCpus : Running(e) = Running(c)'  BY <1>3, <2>1, <4>1 DEF SleepInv
        <4> QED  BY <3>2, <4>2
      <3> QED  BY <3>1, <3>2
    <2>2. CASE d # c
      <3>1. Running(d)' = Running(d) /\ Running(d) # x /\ Running(d) \in KThreads
        BY <2>2, RunOf DEF SpInv, OnOne
      <3>2. stack'[Running(d)] = stack[Running(d)] /\ proc(d)' = proc(d)  BY <3>1 DEF proc
      <3>3. i \in DOMAIN stack[Running(d)] /\ stack[Running(d)][i].k = "block"  BY <1>3, <3>1, <3>2
      <3>4. proc(d) \in SpProcs /\ proc(d) # proc(c)
        <4>1. proc(d) \in SpProcs /\ proc(d) # 0 /\ Running(d) = Thread(proc(d))  BY <3>3, BlockAt, RunOf
        <4>2. proc(c) = 0 \/ Running(c) = Thread(proc(c))  BY RunOf
        <4> QED  BY <3>1, <4>1, <4>2
      <3>5. Going(d, i)  BY <3>3 DEF SleepInv
      <3>6. PICK l \in {"ticks", "ide"} : l = stack[Running(d)][i].l  BY <3>5 DEF Going
      <3>q. PICK q \in SpProcs : q = proc(d) /\ q # proc(c)  BY <3>4
      <3>7. NotDue(q, l) => NotDue(q, l)' \/ (Waking(l)' /\ l \in Hold(c))  BY <3>q
      <3>8. i = 3 => NotDue(q, l)'
        <4>1. i = 3 => lock[l].cpu = d /\ NotDue(q, l)  BY <3>5, <3>6, <3>q DEF Going
        <4>2. lock[l].cpu = d => l \notin Hold(c)  BY <2>2, HoldOf DEF Locks
        <4> QED  BY <3>7, <4>1, <4>2
      <3>9. i < 3 => NotDue(q, l)' \/ Waking(l)'
        <4>1. i < 3 => lock["ptable"].cpu = d /\ (NotDue(q, l) \/ Waking(l))  BY <3>5, <3>6, <3>q DEF Going
        <4>2. lock["ptable"].cpu = d => "ptable" \notin Hold(c)  BY <2>2, HoldOf DEF Locks
        <4> QED  BY <3>7, <4>1, <4>2
      <3>10. \A m \in Locks : lock[m].cpu = d => lock'[m].cpu = d  BY <2>2
      <3>11. proc(d)' = q  BY <3>2, <3>q
      <3>12. /\ i = 3 => /\ Acquiring(stack[Running(d)][1]) /\ stack[Running(d)][1].l = "ptable"
                         /\ stack[Running(d)][2].k = "locked" /\ stack[Running(d)][2].v = "release"
                         /\ stack[Running(d)][2].l = l
                         /\ lock[l].cpu = d
             /\ i = 2 => (Releasing(stack[Running(d)][1]) \/ stack[Running(d)][1].k = "unlock")
                         /\ stack[Running(d)][1].l = l
             /\ i < 3 => lock["ptable"].cpu = d
             /\ i <= 3
        BY <3>5, <3>6 DEF Going
      <3>13. "ptable" \in Locks /\ l \in Locks  BY DEF Locks
      <3> QED  BY <3>1, <3>2, <3>6, <3>8, <3>9, <3>10, <3>11, <3>12, <3>13 DEF Going
    <2> QED  BY <2>1, <2>2
  <1>4. ASSUME NEW p \in SpProcs, procs'[p].state = "SLEEPING"
        PROVE  \E l \in {"ticks", "ide"} : procs'[p].chan = l /\ (NotDue(p, l)' \/ Waking(l)')
    <2>1. CASE procs[p].state = "SLEEPING" /\ procs'[p].chan = procs[p].chan
      <3>1. PICK l \in {"ticks", "ide"} : l = procs[p].chan /\ l = procs'[p].chan  BY <2>1 DEF SleepInv
      <3>2. NotDue(p, l) \/ Waking(l)  BY <2>1, <3>1 DEF SleepInv
      <3>3. NotDue(p, l)' \/ Waking(l)'  BY <1>4, <3>1, <3>2
      <3> QED  BY <3>1, <3>3
    <2> QED  BY <1>4, <2>1
  <1>5. \A p \in SpProcs : procs'[p].state = "SLEEPING" =>
           /\ procs'[p].chan \in {"ticks", "ide"}
           /\ (NotDue(p, procs[p].chan) \/ Waking(procs[p].chan))'
    <2> TAKE p \in SpProcs
    <2> HAVE procs'[p].state = "SLEEPING"
    <2>1. PICK l \in {"ticks", "ide"} : procs'[p].chan = l /\ (NotDue(p, l)' \/ Waking(l)')  BY <1>4
    <2>2. Waking(l)' => Waking(procs[p].chan)'  BY <2>1 DEF Waking
    <2>3. NotDue(p, l)' => NotDue(p, procs[p].chan)'  BY <2>1 DEF NotDue, Elapsed
    <2> QED  BY <2>1, <2>2, <2>3
  <1>6. \A z \in KThreads : (\E i \in DOMAIN stack'[z] : stack'[z][i].k = "block") => \E d \in SpCpus : Running(d)' = z
    BY <1>2
  <1>7. \A d \in SpCpus : \A i \in DOMAIN stack'[Running(d)'] : stack'[Running(d)'][i].k = "block" => Going(d, i)'
    BY <1>3
  <1> QED  BY ONLY <1>1, <1>5, <1>6, <1>7 DEF SleepInv


\* The stack after c takes its next operation.
LEMMA GoWakes ==
    ASSUME SpInv, SleepInv, NEW c \in SpCpus, stack[Running(c)] # <<>>, NEW ops \in Seq(Ops), Go(c, ops), Wakes(ops),
           NEW x, x = Running(c)
    PROVE  /\ x \in KThreads /\ stack'[x] = ops \o Tail(stack[x]) /\ Tail(stack[x]) \in Seq(Ops)
           /\ \A z \in KThreads : z # x => stack'[z] = stack[z]
           /\ Wakes(stack'[x])
           /\ \A l : Waking(l) => Waking(l)' \/ (Next1(c).k = "wakeup1" /\ Next1(c).l = l)
           /\ NoBlock(stack[x]) /\ NoBlock(ops) => NoBlock(stack'[x])
           /\ Next1(c).k = "tick" => Waking("ticks")'
           /\ Next1(c).k = "finish" => Waking("ide")'
  <1> DEFINE o == Next1(c)
             u == Tail(stack[x])
  <1>1. x \in KThreads /\ stack[x] = <<o>> \o u /\ o \in Ops /\ u \in Seq(Ops)  BY RunOf, NextOf
  <1>2. stack'[x] = ops \o u /\ \A z \in KThreads : z # x => stack'[z] = stack[z]
    BY <1>1 DEF Go, SpInv, SpTypes
  <1>3. Wakes(<<o>> \o u)  BY <1>1 DEF SleepInv
  <1>o. o = Next1(c)  OBVIOUS
  <1>u. u = Tail(stack[x])  OBVIOUS
  <1> HIDE DEF o, u
  <1>4. Wakes(u) /\ (o.k = "tick" => Has(u, "wakeup1", "ticks")) /\ (o.k = "finish" => Has(u, "wakeup1", "ide"))
    BY <1>1, <1>3, WakesTail
  <1>5. Wakes(stack'[x])  BY <1>1, <1>2, <1>4, WakesCat
  <1>6. <<o>> \in Seq(Ops) /\ DOMAIN <<o>> = {1} /\ <<o>>[1] = o  BY <1>1
  <1>7. ASSUME NEW l, Waking(l)  PROVE Waking(l)' \/ (o.k = "wakeup1" /\ o.l = l)
    <2>1. PICK z \in KThreads : Has(stack[z], "wakeup1", l)  BY <1>7 DEF Waking, Has
    <2>2. CASE z = x
      <3>1. Has(<<o>>, "wakeup1", l) \/ Has(u, "wakeup1", l)  BY ZenonT(40), <1>1, <1>6, <2>1, <2>2, AnyCat
      <3>2. Has(<<o>>, "wakeup1", l) => o.k = "wakeup1" /\ o.l = l  BY ONLY <1>6 DEF Has
      <3>3. Has(u, "wakeup1", l) => Has(stack'[x], "wakeup1", l)  BY <1>1, <1>2, AnyCat
      <3>4. Has(stack'[x], "wakeup1", l) => Waking(l)'  BY <1>1 DEF Waking, Has
      <3> QED  BY <3>1, <3>2, <3>3, <3>4
    <2>3. CASE z # x
      <3>1. stack'[z] = stack[z]  BY <1>2, <2>3
      <3> QED  BY <2>1, <3>1 DEF Waking, Has
    <2> QED  BY <2>2, <2>3
  <1>8. NoBlock(stack[x]) /\ NoBlock(ops) => NoBlock(stack'[x])
    <2>1. NoBlock(stack[x]) => NoBlock(u)  BY ZenonT(40), <1>1, <1>6, AnyCat
    <2>2. NoBlock(ops) /\ NoBlock(u) => NoBlock(ops \o u)  BY <1>1, AnyCat
    <2> QED  BY <1>2, <2>1, <2>2
  <1>9. \A l : Has(u, "wakeup1", l) => Waking(l)'
    <2> TAKE l
    <2>1. Has(u, "wakeup1", l) => Has(stack'[x], "wakeup1", l)  BY <1>1, <1>2, AnyCat
    <2>2. Has(stack'[x], "wakeup1", l) => Waking(l)'  BY <1>1 DEF Waking, Has
    <2> QED  BY <2>1, <2>2
  <1> QED  BY <1>o, <1>u, <1>1, <1>2, <1>4, <1>5, <1>7, <1>8, <1>9

\* A step that changes neither the processes nor the clock, on a CPU that stays.
LEMMA StillStep ==
    ASSUME SpInv, SleepInv, NEW c \in SpCpus, stack[Running(c)] # <<>>, NEW ops \in Seq(Ops), Go(c, ops), Wakes(ops),
           NEW x, x = Running(c),
           \A d \in SpCpus : Running(d)' = Running(d),
           \A d \in SpCpus, l \in Locks : d # c /\ lock[l].cpu = d => lock'[l].cpu = d,
           procs' = procs, clock'.ticks = clock.ticks, Next1(c).k # "wakeup1",
           \/ NoBlock(stack[x]) /\ NoBlock(ops)
           \/ \A i \in DOMAIN stack'[x] : stack'[x][i].k = "block" => Going(c, i)'
    PROVE  SleepInv'
  <1>1. /\ x \in KThreads /\ \A z \in KThreads : z # x => stack'[z] = stack[z]
        /\ Wakes(stack'[x]) /\ \A l : Waking(l) => Waking(l)'
        /\ NoBlock(stack[x]) /\ NoBlock(ops) => NoBlock(stack'[x])
    BY GoWakes
  <1>2. \A p \in SpProcs, l \in {"ticks", "ide"} : NotDue(p, l) => NotDue(p, l)'  BY DEF NotDue, Elapsed
  <1>3. \A i \in DOMAIN stack'[x] : stack'[x][i].k = "block" => Running(c)' = x /\ Going(c, i)'
    BY <1>1 DEF NoBlock
  <1>4. Running(c)' = x  OBVIOUS
  <1> QED  BY <1>1, <1>2, <1>3, <1>4, SleepStep
-----------------------------------------------------------------------------
(* Sleeping and waking: taking and giving a lock *)
LEMMA RelabelSleep ==
    ASSUME SpInv, SleepInv, NEW c \in SpCpus, stack[Running(c)] # <<>>, NEW o2 \in Ops, Go(c, <<o2>>),
           \A d \in SpCpus : Running(d)' = Running(d),
           \A d \in SpCpus, l \in Locks : d # c /\ lock[l].cpu = d => lock'[l].cpu = d,
           procs' = procs, clock'.ticks = clock.ticks,
           o2.k \notin {"block", "tick", "finish"}, Next1(c).k \notin {"wakeup1", "block", "unlock"},
           Acquiring(Next1(c)) => /\ Acquiring(o2) /\ o2.l = Next1(c).l
                                  /\ \A l \in Locks : lock[l].cpu = c => lock'[l].cpu = c,
           Releasing(Next1(c)) => /\ Releasing(o2) \/ o2.k = "unlock"
                                  /\ o2.l = Next1(c).l
                                  /\ o2.l # "ptable" /\ lock["ptable"].cpu = c => lock'["ptable"].cpu = c
    PROVE  SleepInv'
  <1>x. PICK x : x = Running(c)  OBVIOUS
  <1>u. PICK u : u = Tail(stack[x])  OBVIOUS
  <1>o. PICK o : o = Next1(c)  OBVIOUS
  <1>1. stack[x] = <<o>> \o u /\ o \in Ops /\ u \in Seq(Ops)  BY <1>x, <1>u, <1>o, NextOf
  <1>2. <<o2>> \in Seq(Ops) /\ Wakes(<<o2>>)
    <2>1. Plain(<<o2>>)  BY DEF Plain
    <2> QED  BY <2>1, PlainWakes
  <1>3. stack'[x] = <<o2>> \o u /\ \A l : Waking(l) => Waking(l)'
    BY ZenonT(40), <1>x, <1>u, <1>2, GoWakes
  <1>4. ASSUME NEW i \in DOMAIN stack'[x], stack'[x][i].k = "block"  PROVE Going(c, i)'
    <2>1. i \in 2 .. Len(u) + 1 /\ stack'[x][i] = u[i - 1]
      <3>1. Len(<<o2>> \o u) = Len(u) + 1 /\ <<o2>> \o u \in Seq(Ops) /\ (<<o2>> \o u)[1] = o2
            /\ \A j \in 2 .. Len(u) + 1 : (<<o2>> \o u)[j] = u[j - 1]
        BY <1>1, Cons
      <3>2. Len(u) \in Nat /\ i \in 1 .. Len(u) + 1  BY <1>1, <1>3, <1>4, <3>1, LenProperties
      <3>3. i # 1  BY <1>3, <1>4, <3>1
      <3> QED  BY <1>3, <3>1, <3>2, <3>3
    <2>2. \A j \in 2 .. Len(u) + 1 : j \in DOMAIN stack[x] /\ stack[x][j] = u[j - 1]
      <3>1. Len(<<o>> \o u) = Len(u) + 1 /\ <<o>> \o u \in Seq(Ops)
            /\ \A j \in 2 .. Len(u) + 1 : (<<o>> \o u)[j] = u[j - 1]
        BY <1>1, Cons
      <3>2. Len(u) \in Nat /\ DOMAIN stack[x] = 1 .. Len(u) + 1  BY <1>1, <3>1, LenProperties
      <3> QED  BY <1>1, <3>1, <3>2
    <2>s. \A j \in 2 .. Len(u) + 1 : stack'[x][j] = u[j - 1]  BY <1>1, <1>3, Cons
    <2>3. i \in DOMAIN stack[Running(c)] /\ stack[Running(c)][i] = stack'[x][i]  BY <1>x, <2>1, <2>2
    <2>4. Going(c, i)  BY <1>4, <2>3 DEF SleepInv
    <2>5. /\ i \in {2, 3}
          /\ i = 2 => Releasing(o) /\ o.l = stack[Running(c)][i].l
          /\ i = 3 => Acquiring(o) /\ o.l = "ptable"
      BY <1>4, <1>o, <2>1, <2>3, BlockAt
    <2>6. PICK l \in {"ticks", "ide"} : l = stack'[x][i].l  BY <1>x, <2>3, <2>4 DEF Going
    <2>7. stack'[x][1] = o2  BY <1>1, <1>3, Cons
    <2>8. NotDue(proc(c), l) => NotDue(proc(c), l)'  BY DEF NotDue, Elapsed, proc
    <2>9. Running(c)' = x  BY <1>x
    <2>10. /\ i = 3 => /\ stack[x][2].k = "locked" /\ stack[x][2].v = "release" /\ stack[x][2].l = l
                       /\ lock[l].cpu = c /\ NotDue(proc(c), l)
           /\ i < 3 => lock["ptable"].cpu = c /\ (NotDue(proc(c), l) \/ Waking(l))
      BY <1>x, <2>3, <2>4, <2>6 DEF Going
    <2>11. i = 3 => stack'[x][2] = stack[x][2]
      <3>1. i = 3 => 2 \in 2 .. Len(u) + 1  BY <2>1
      <3> QED  BY <3>1, <2>2, <2>s
    <2>12. i = 3 => lock'[l].cpu = c  BY <1>o, <2>5, <2>6, <2>10 DEF Locks
    <2>13. i = 2 => (Releasing(o2) \/ o2.k = "unlock") /\ o2.l = l /\ lock'["ptable"].cpu = c
      BY <1>o, <1>x, <2>3, <2>5, <2>6, <2>10
    <2>14. i = 3 => Acquiring(o2) /\ o2.l = "ptable"  BY <1>o, <2>5
    <2>15. i < 3 => i = 2  BY <2>5
    <2>16. i <= 3  BY <2>5
    <2> QED
      BY <1>3, <2>5, <2>6, <2>7, <2>8, <2>9, <2>10, <2>11, <2>12, <2>13, <2>14, <2>15, <2>16 DEF Going
  <1> QED  BY <1>x, <1>2, <1>4, StillStep

LEMMA PopPlace ==
    ASSUME SpInv, NEW c \in SpCpus, stack[Running(c)] # <<>>, Go(c, <<>>), NEW x, x = Running(c)
    PROVE  \A i \in DOMAIN stack'[x] : /\ i \in Nat \ {0} /\ i + 1 \in DOMAIN stack[x]
                                       /\ stack'[x][i] = stack[x][i + 1]
  <1>u. PICK u : u = Tail(stack[x])  OBVIOUS
  <1>1. u \in Seq(Ops) /\ x \in KThreads /\ stack[x] \in Seq(Ops)  BY <1>u, NextOf, RunOf
  <1>2. stack'[x] = u
    <2>1. stack'[x] = <<>> \o u  BY <1>u, <1>1 DEF Go, SpInv, SpTypes
    <2> QED  BY <1>1, <2>1, Assoc
  <1>3. /\ Len(stack[x]) = Len(u) + 1 /\ Len(u) \in Nat /\ DOMAIN u = 1 .. Len(u)
        /\ DOMAIN stack[x] = 1 .. Len(stack[x])
    BY <1>u, <1>1, Uncons, LenProperties
  <1>4. \A i \in 1 .. Len(u) : u[i] = stack[x][i + 1]  BY <1>u, <1>1, HeadTailProperties
  <1> QED  BY <1>2, <1>3, <1>4

LEMMA GoingAfter ==
    ASSUME NEW c, NEW x, Running(c)' = x, NEW i \in {1, 2}, NEW l \in {"ticks", "ide"}, stack'[x][i].l = l,
           i = 2 => (Releasing(stack'[x][1]) \/ stack'[x][1].k = "unlock") /\ stack'[x][1].l = l,
           lock'["ptable"].cpu = c, NotDue(proc(c), l)' \/ Waking(l)'
    PROVE  Going(c, i)'
  BY DEF Going

LEMMA OwnSleep ==
    ASSUME SpInv, SleepInv, NEW c \in SpCpus, own(c)
    PROVE  SleepInv'
  <1>x. PICK x : x = Running(c)  OBVIOUS
  <1>o. PICK o : o = Next1(c)  OBVIOUS
  <1>1. /\ stack[Running(c)] # <<>> /\ o.k = "own" /\ Go(c, <<>>) /\ UNCHANGED <<cpu, procs, clock>>
        /\ lock' = [lock EXCEPT ![o.l] = [lock[o.l] EXCEPT !.cpu = c]]
    BY <1>o DEF own, Top, OnlyLock
  <1>2. o.l \in Locks /\ Busy(c, o.l)
    <2>1. PICK K : Trans(Running(c)[1], o, Hold(c), K)  BY <1>o, <1>1, NextOf
    <2>2. o.l \in Locks  BY <1>1, <2>1 DEF Trans, Acquiring, Releasing, Switching
    <2> QED  BY <1>o, <1>1, <2>2 DEF Busy, Partly
  <1>3. \A d \in SpCpus, l \in Locks : d # c /\ lock[l].cpu = d => lock'[l].cpu = d
    <2> TAKE d \in SpCpus, l \in Locks
    <2>1. d # c => lock[o.l].cpu # d  BY <1>2 DEF Busy, SpInv, Mutex
    <2> QED  BY <1>1, <2>1 DEF SpInv, SpTypes
  <1>4. lock'[o.l].cpu = c /\ \A l \in Locks : lock[l].cpu = c => lock'[l].cpu = c
    BY <1>1, <1>2 DEF SpInv, SpTypes, Lock
  <1>5. <<>> \in Seq(Ops) /\ Wakes(<<>>)  BY DEF Wakes
  <1>6. \A d \in SpCpus : Running(d)' = Running(d)  BY <1>1 DEF Running
  <1>7. /\ \A l : Waking(l) => Waking(l)'
        /\ \A i \in DOMAIN stack'[x] : i \in Nat \ {0} /\ i + 1 \in DOMAIN stack[x] /\ stack'[x][i] = stack[x][i + 1]
    <2>1. \A l : Waking(l) => Waking(l)'  BY <1>x, <1>o, <1>1, <1>5, GoWakes
    <2>2. \A i \in DOMAIN stack'[x] : i \in Nat \ {0} /\ i + 1 \in DOMAIN stack[x] /\ stack'[x][i] = stack[x][i + 1]
      BY <1>x, <1>1, PopPlace
    <2> QED  BY <2>1, <2>2
  <1>8. ASSUME NEW i \in DOMAIN stack'[x], stack'[x][i].k = "block"  PROVE Going(c, i)'
    <2>1. i + 1 \in DOMAIN stack[Running(c)] /\ stack[Running(c)][i + 1].k = "block"  BY <1>x, <1>7, <1>8
    <2>2. /\ i + 1 \in {1, 2, 3} /\ (i + 1 = 1 => o.k = "block") /\ (i + 1 = 2 => Releasing(o) \/ o.k = "unlock")
          /\ (i + 1 = 3 => o.l = "ptable")
          /\ Going(c, i + 1)
      BY <1>o, <2>1, BlockAt DEF SleepInv
    <2>3. i = 2
      <3>1. ~Releasing(o) /\ i \in Nat  BY <1>1, <1>7 DEF Releasing
      <3> QED  BY <1>1, <2>2, <3>1
    <2>4. PICK l \in {"ticks", "ide"} : l = stack'[x][2].l /\ l = stack[x][3].l  BY <1>x, <1>7, <2>2, <2>3 DEF Going
    <2>5. /\ stack[x][2].k = "locked" /\ stack[x][2].v = "release" /\ stack[x][2].l = l
          /\ NotDue(proc(c), l)
      BY <1>x, <2>2, <2>3, <2>4 DEF Going
    <2>6. stack'[x][1] = stack[x][2]
      <3>1. 1 \in DOMAIN stack'[x]
        <4>1. stack'[x] \in Seq(Ops)
          <5>1. stack'[x] = <<>> \o Tail(stack[x]) /\ Tail(stack[x]) \in Seq(Ops)
            BY <1>x, <1>1, <1>5, GoWakes
          <5> QED  BY <5>1, <1>5, Assoc
        <4> QED  BY <1>8, <2>3, <4>1, LenProperties
      <3> QED  BY <1>7, <3>1
    <2>7. Releasing(stack'[x][1]) /\ stack'[x][1].l = l  BY <2>5, <2>6 DEF Releasing
    <2>8. NotDue(proc(c), l)'  BY <1>1, <2>5 DEF NotDue, Elapsed, proc, Running
    <2>9. lock'["ptable"].cpu = c  BY <1>4, <2>2, <2>3
    <2>10. Running(c)' = x  BY <1>x, <1>6
    <2> QED  BY <2>3, <2>4, <2>7, <2>8, <2>9, <2>10, GoingAfter
  <1>9. clock'.ticks = clock.ticks /\ procs' = procs /\ Next1(c).k # "wakeup1"  BY <1>o, <1>1
  <1> QED  BY <1>x, <1>1, <1>3, <1>5, <1>6, <1>8, <1>9, StillStep

LEMMA UnlockSleep ==
    ASSUME SpInv, SpInv', SleepInv, NEW c \in SpCpus, unlock(c)
    PROVE  SleepInv'
  <1>x. PICK x : x = Running(c)  OBVIOUS
  <1>o. PICK o : o = Next1(c)  OBVIOUS
  <1>1. /\ stack[Running(c)] # <<>> /\ o.k = "unlock" /\ Go(c, <<>>) /\ UNCHANGED <<procs, clock>>
        /\ lock' = [lock EXCEPT ![o.l].locked = FALSE] /\ cpu' = [cpu EXCEPT ![c] = popcli(@)]
    BY <1>o DEF unlock, Top, Panics, SpInv
  <1>2. \A d \in SpCpus, l \in Locks : lock'[l].cpu = lock[l].cpu
    BY <1>1 DEF SpInv, SpTypes, Lock
  <1>3. \A d \in SpCpus : Running(d)' = Running(d)
    <2>1. popcli(cpu[c]).on = cpu[c].on  BY RunOf DEF popcli, Cpu
    <2> QED  BY <1>1, <2>1 DEF Running, SpInv, SpTypes
  <1>5. <<>> \in Seq(Ops) /\ Wakes(<<>>)  BY DEF Wakes
  <1>6. \A l : Waking(l) => Waking(l)'  BY <1>x, <1>o, <1>1, <1>5, GoWakes
  <1>7. \A i \in DOMAIN stack'[x] : i \in Nat \ {0} /\ i + 1 \in DOMAIN stack[x] /\ stack'[x][i] = stack[x][i + 1]
    BY <1>x, <1>1, PopPlace
  <1>8. ASSUME NEW i \in DOMAIN stack'[x], stack'[x][i].k = "block"  PROVE Going(c, i)'
    <2>1. i + 1 \in DOMAIN stack[Running(c)] /\ stack[Running(c)][i + 1].k = "block"  BY <1>x, <1>7, <1>8
    <2>2. /\ i + 1 \in {1, 2, 3} /\ (i + 1 = 1 => o.k = "block") /\ (i + 1 = 3 => Acquiring(o))
          /\ Going(c, i + 1)
      BY <1>o, <2>1, BlockAt DEF SleepInv
    <2>3. i = 1
      <3>1. ~Acquiring(o) /\ i \in Nat  BY <1>1, <1>7 DEF Acquiring
      <3> QED  BY <1>1, <2>2, <3>1
    <2>4. PICK l \in {"ticks", "ide"} : l = stack'[x][1].l /\ l = stack[x][2].l  BY <1>x, <1>7, <1>8, <2>2, <2>3 DEF Going
    <2>5. lock["ptable"].cpu = c /\ (NotDue(proc(c), l) \/ Waking(l))
      BY <1>x, <2>2, <2>3, <2>4 DEF Going
    <2>8. NotDue(proc(c), l) => NotDue(proc(c), l)'
      <3>1. proc(c)' = proc(c)  BY <1>3 DEF proc
      <3> QED  BY <1>1, <3>1 DEF NotDue, Elapsed
    <2>9. lock'["ptable"].cpu = c  BY <1>2, <2>5 DEF Locks
    <2>10. Running(c)' = x  BY <1>x, <1>3
    <2>11. NotDue(proc(c), l)' \/ Waking(l)'  BY <1>6, <2>5, <2>8
    <2>12. stack'[x][i].l = l  BY <2>3, <2>4
    <2>13. i \in {1, 2} /\ i # 2  BY <2>3
    <2> QED  BY <2>9, <2>10, <2>11, <2>12, <2>13, GoingAfter
  <1>9. clock'.ticks = clock.ticks /\ procs' = procs /\ Next1(c).k # "wakeup1"  BY <1>o, <1>1
  <1> QED  BY <1>x, <1>1, <1>2, <1>3, <1>5, <1>8, <1>9, StillStep


LEMMA OpOf ==
    ASSUME NEW n \in {"cli", "xchg", "own", "disown", "unlock", "swtch"}, NEW l \in Locks \cup {""}
    PROVE  Op(n, l) \in Ops /\ Op(n, l).k = n /\ Op(n, l).l = l
  <1>1. n \in Kinds  BY DEF Kinds
  <1> QED  BY <1>1, OpIs

LEMMA LockedOf ==
    ASSUME NEW l \in Locks
    PROVE  LET o == [k |-> "locked", l |-> l, v |-> "acquire"]
           IN  o \in Ops /\ o.k = "locked" /\ o.l = l /\ o.v = "acquire"
  <1>1. "locked" \in Kinds  BY DEF Kinds
  <1> QED  BY <1>1 DEF Ops

LEMMA PushcliSleep ==
    ASSUME SpInv, SleepInv, NEW c \in SpCpus, pushcli(c) \/ cli(c)
    PROVE  SleepInv'
  <1>o. PICK o : o = Next1(c)  OBVIOUS
  <1>1. stack[Running(c)] # <<>> /\ o.k \in {"pushcli", "cli"} /\ UNCHANGED <<lock, procs, clock>>
    BY <1>o DEF pushcli, cli, Top, OnlyCpu
  <1>2. PICK o2 : Go(c, <<o2>>) /\ o2 \in {Op("cli", o.l), [k |-> "locked", l |-> o.l, v |-> "acquire"]}
    BY <1>o DEF pushcli, cli
  <1>3. o.l \in Locks
    <2>1. PICK K : Trans(Running(c)[1], o, Hold(c), K)  BY <1>o, <1>1, NextOf
    <2> QED  BY <1>1, <2>1 DEF Trans, Acquiring, Releasing, Switching
  <1>4. o2 \in Ops /\ Acquiring(o2) /\ o2.l = o.l /\ o2.k \in {"cli", "locked"}
    <2>1. CASE o2 = Op("cli", o.l)  BY <1>3, <2>1, OpOf DEF Acquiring
    <2>2. CASE o2 = [k |-> "locked", l |-> o.l, v |-> "acquire"]  BY <1>3, <2>2, LockedOf DEF Acquiring
    <2> QED  BY <1>2, <2>1, <2>2
  <1>5. \A d \in SpCpus : Running(d)' = Running(d)
    <2>1. cpu' = cpu \/ \E f, n, i : cpu' = [cpu EXCEPT ![c] = [cpu[c] EXCEPT !.ifl = f, !.ncli = n, !.intena = i]]
      BY DEF pushcli, cli, OnlyCpu
    <2>2. \A f, n, i : [cpu[c] EXCEPT !.ifl = f, !.ncli = n, !.intena = i].on = cpu[c].on  BY RunOf DEF Cpu
    <2>3. cpu' = cpu \/ \E r : r.on = cpu[c].on /\ cpu' = [cpu EXCEPT ![c] = r]
      <3>1. CASE cpu' # cpu
        <4>1. PICK f, n, i : cpu' = [cpu EXCEPT ![c] = [cpu[c] EXCEPT !.ifl = f, !.ncli = n, !.intena = i]]
          BY <2>1, <3>1
        <4>2. PICK r : r = [cpu[c] EXCEPT !.ifl = f, !.ncli = n, !.intena = i]  OBVIOUS
        <4>3. r.on = cpu[c].on /\ cpu' = [cpu EXCEPT ![c] = r]  BY <2>2, <4>1, <4>2
        <4> QED  BY <4>3
      <3> QED  BY <3>1
    <2>4. cpu \in [SpCpus -> Cpu]  BY DEF SpInv, SpTypes
    <2> QED  BY ONLY <2>3, <2>4 DEF Running
  <1>6. ~Releasing(o)  BY <1>1 DEF Releasing
  <1> QED  BY <1>o, <1>1, <1>2, <1>4, <1>5, <1>6, RelabelSleep

LEMMA HeldSleep ==
    ASSUME SpInv, SpInv', SleepInv, NEW c \in SpCpus, holding(c) \/ holdingCpu(c)
    PROVE  SleepInv'
  <1>o. PICK o : o = Next1(c)  OBVIOUS
  <1>1. stack[Running(c)] # <<>> /\ o.k \in {"locked", "cpu"}
    BY <1>o DEF holding, holdingCpu, Top
  <1>2. ~Panics  BY DEF Panics, SpInv
  <1>3. o \in Ops /\ o.v \in {"acquire", "release", "sched"} /\ o.l \in Locks
    <2>1. o \in Ops /\ \E K : Trans(Running(c)[1], o, Hold(c), K)  BY <1>o, <1>1, NextOf
    <2> QED  BY <1>1, <2>1 DEF Trans, Acquiring, Releasing, Switching, Locks
  <1>4. \A yes : Held(c, o, yes) =>
           /\ UNCHANGED <<cpu, lock, procs, clock, panic>>
           /\ \/ o.v = "acquire" /\ Go(c, <<Op("xchg", o.l)>>)
              \/ o.v = "release" /\ Go(c, <<Op("disown", o.l)>>)
              \/ o.v = "sched" /\ Go(c, <<Op("swtch", "")>>)
    BY <1>2, <1>3 DEF Held
  <1>5. PICK o2 : /\ UNCHANGED <<cpu, lock, procs, clock, panic>> /\ Go(c, <<o2>>)
                  /\ \/ o2 = [o EXCEPT !.k = "cpu"]
                     \/ o.v = "acquire" /\ o2 = Op("xchg", o.l)
                     \/ o.v = "release" /\ o2 = Op("disown", o.l)
                     \/ o.v = "sched" /\ o2 = Op("swtch", "")
    <2>1. \/ Go(c, <<[o EXCEPT !.k = "cpu"]>>) /\ UNCHANGED <<cpu, lock, procs, clock, panic>>
          \/ Held(c, o, FALSE)
          \/ Held(c, o, lock[o.l].cpu = c)
      BY <1>o DEF holding, holdingCpu
    <2> QED  BY <1>4, <2>1
  <1>6. o2 \in Ops /\ o2.k \in {"cpu", "xchg", "disown", "swtch"}
    <2>1. CASE o2 = [o EXCEPT !.k = "cpu"]
      <3>1. "cpu" \in Kinds  BY DEF Kinds
      <3> QED  BY <1>3, <2>1, <3>1 DEF Ops
    <2>2. CASE o2 = Op("xchg", o.l)  BY <1>3, <2>2, OpOf
    <2>3. CASE o2 = Op("disown", o.l)  BY <1>3, <2>3, OpOf
    <2>4. CASE o2 = Op("swtch", "")
      <3>1. Op("swtch", "") \in Ops /\ Op("swtch", "").k = "swtch"  BY OpOf
      <3> QED  BY <2>4, <3>1
    <2> QED  BY <1>5, <2>1, <2>2, <2>3, <2>4
  <1>7. /\ Acquiring(o) => Acquiring(o2) /\ o2.l = o.l
        /\ Releasing(o) => Releasing(o2) /\ o2.l = o.l
    <2>1. Acquiring(o) <=> o.v = "acquire"  BY <1>1 DEF Acquiring
    <2>2. Releasing(o) <=> o.v = "release"  BY <1>1 DEF Releasing
    <2>3. CASE o2 = [o EXCEPT !.k = "cpu"]
      <3>1. o2.k = "cpu" /\ o2.l = o.l /\ o2.v = o.v  BY <1>3, <2>3 DEF Ops
      <3> QED  BY <2>1, <2>2, <3>1 DEF Acquiring, Releasing
    <2>4. CASE o.v = "acquire" /\ o2 = Op("xchg", o.l)  BY ZenonT(40), <1>3, <2>1, <2>2, <2>4, OpOf DEF Acquiring
    <2>5. CASE o.v = "release" /\ o2 = Op("disown", o.l)  BY <1>3, <2>1, <2>2, <2>5, OpOf DEF Releasing
    <2> QED  BY <1>5, <2>1, <2>2, <2>3, <2>4, <2>5
  <1>8. \A d \in SpCpus : Running(d)' = Running(d)  BY <1>5 DEF Running
  <1>9. o2.k \notin {"block", "tick", "finish"}  BY <1>6
  <1>10. Next1(c).k \notin {"wakeup1", "block", "unlock"}  BY <1>o, <1>1
  <1>11. /\ \A d \in SpCpus, l \in Locks : d # c /\ lock[l].cpu = d => lock'[l].cpu = d
         /\ \A l \in Locks : lock[l].cpu = c => lock'[l].cpu = c
         /\ o2.l # "ptable" /\ lock["ptable"].cpu = c => lock'["ptable"].cpu = c
         /\ procs' = procs /\ clock'.ticks = clock.ticks
    BY <1>5
  <1> QED  BY <1>o, <1>1, <1>5, <1>6, <1>7, <1>8, <1>9, <1>10, <1>11, RelabelSleep

LEMMA XchgSleep ==
    ASSUME SpInv, SleepInv, NEW c \in SpCpus, xchg(c)
    PROVE  SleepInv'
  <1>o. PICK o : o = Next1(c)  OBVIOUS
  <1>1. /\ stack[Running(c)] # <<>> /\ o.k = "xchg" /\ Go(c, <<Op("own", o.l)>>) /\ UNCHANGED <<cpu, procs, clock>>
        /\ lock' = [lock EXCEPT ![o.l] = [lock[o.l] EXCEPT !.locked = TRUE]]
    BY <1>o DEF xchg, Top, OnlyLock
  <1>2. o.l \in Locks
    <2>1. PICK K : Trans(Running(c)[1], o, Hold(c), K)  BY <1>o, <1>1, NextOf
    <2> QED  BY <1>1, <2>1 DEF Trans, Acquiring, Releasing, Switching
  <1>3. \A l \in Locks : lock'[l].cpu = lock[l].cpu  BY <1>1, <1>2 DEF SpInv, SpTypes, Lock
  <1>4. PICK o2 \in Ops : o2 = Op("own", o.l) /\ o2.k = "own" /\ o2.l = o.l
    <2>1. Op("own", o.l) \in Ops /\ Op("own", o.l).k = "own" /\ Op("own", o.l).l = o.l  BY <1>2, OpOf
    <2> HIDE DEF Op
    <2> QED  BY <2>1
  <1>5. Acquiring(o2) /\ ~Releasing(o)  BY <1>1, <1>4 DEF Acquiring, Releasing
  <1>6. \A d \in SpCpus : Running(d)' = Running(d)  BY <1>1 DEF Running
  <1> QED  BY <1>o, <1>1, <1>3, <1>4, <1>5, <1>6, RelabelSleep

LEMMA DisownSleep ==
    ASSUME SpInv, SleepInv, NEW c \in SpCpus, disown(c)
    PROVE  SleepInv'
  <1>o. PICK o : o = Next1(c)  OBVIOUS
  <1>1. /\ stack[Running(c)] # <<>> /\ o.k = "disown" /\ Go(c, <<Op("unlock", o.l)>>) /\ UNCHANGED <<cpu, procs, clock>>
        /\ lock' = [lock EXCEPT ![o.l] = [lock[o.l] EXCEPT !.cpu = 0]]
    BY <1>o DEF disown, Top, OnlyLock
  <1>2. o.l \in Locks /\ lock[o.l].cpu = c
    <2>1. PICK K : Trans(Running(c)[1], o, Hold(c), K)  BY <1>o, <1>1, NextOf
    <2>2. o.l \in Locks /\ o.l \in Hold(c)  BY <1>1, <2>1 DEF Trans, Acquiring, Releasing, Switching
    <2> QED  BY <2>2, HoldOf
  <1>3. /\ \A d \in SpCpus, l \in Locks : d # c /\ lock[l].cpu = d => lock'[l].cpu = d
        /\ o.l # "ptable" => lock'["ptable"] = lock["ptable"]
    BY <1>1, <1>2 DEF SpInv, SpTypes, Locks
  <1>4. PICK o2 \in Ops : o2 = Op("unlock", o.l) /\ o2.k = "unlock" /\ o2.l = o.l
    <2>1. Op("unlock", o.l) \in Ops /\ Op("unlock", o.l).k = "unlock" /\ Op("unlock", o.l).l = o.l  BY <1>2, OpOf
    <2> HIDE DEF Op
    <2> QED  BY <2>1
  <1>5. ~Acquiring(o)  BY <1>1 DEF Acquiring
  <1>6. \A d \in SpCpus : Running(d)' = Running(d)  BY <1>1 DEF Running
  <1> QED  BY <1>o, <1>1, <1>3, <1>4, <1>5, <1>6, RelabelSleep
-----------------------------------------------------------------------------
(* Sleeping and waking: code that neither sleeps nor is a handler *)
LEMMA PlainOne ==
    ASSUME NEW o \in Ops, o.k \notin {"block", "tick", "finish"}
    PROVE  <<o>> \in Seq(Ops) /\ Plain(<<o>>)
  BY DEF Plain

LEMMA PlainCode ==
    /\ <<>> \in Seq(Ops) /\ Plain(<<>>)
    /\ \A l \in Locks : Plain(acquire(l)) /\ Plain(release(l)) /\ acquire(l) \in Seq(Ops) /\ release(l) \in Seq(Ops)
    /\ Plain(sched) /\ sched \in Seq(Ops)
    /\ Plain(yield) /\ Plain(exit_end) /\ Plain(scheduler) /\ Plain(forkret)
    /\ yield \in Seq(Ops) /\ exit_end \in Seq(Ops) /\ scheduler \in Seq(Ops) /\ forkret \in Seq(Ops)
    /\ \A from : check(from) \in Seq(Ops) /\ Plain(check(from))
  <1>1. ASSUME NEW n \in Kinds \ {"block", "tick", "finish"}, NEW m \in Locks \cup {""}
        PROVE  <<Op(n, m)>> \in Seq(Ops) /\ Plain(<<Op(n, m)>>)
    BY OpIs, PlainOne
  <1>2. ASSUME NEW l \in Locks, NEW v \in {"release", "sched"}
        PROVE  <<[k |-> "locked", l |-> l, v |-> v]>> \in Seq(Ops) /\ Plain(<<[k |-> "locked", l |-> l, v |-> v]>>)
    <2>1. [k |-> "locked", l |-> l, v |-> v] \in Ops /\ [k |-> "locked", l |-> l, v |-> v].k = "locked"
      BY DEF Ops, Kinds
    <2> QED  BY <2>1, PlainOne
  <1>3. "ptable" \in Locks /\ Locks \subseteq Locks \cup {""} /\ "" \in Locks \cup {""}  BY DEF Locks
  <1>4. <<>> \in Seq(Ops) /\ Plain(<<>>)  BY DEF Plain
  <1>5. \A l \in Locks : Plain(acquire(l)) /\ Plain(release(l)) /\ acquire(l) \in Seq(Ops) /\ release(l) \in Seq(Ops)
    <2>1. "pushcli" \in Kinds \ {"block", "tick", "finish"}  BY DEF Kinds
    <2> QED  BY <1>1, <1>2, <1>3, <2>1 DEF acquire, release
  <1>6. Plain(sched) /\ sched \in Seq(Ops)  BY <1>2, <1>3 DEF sched
  <1>7. ASSUME NEW n \in {"runnable", "zombie", "scan", "sti", "iret", "check"}
        PROVE  <<Op(n, "")>> \in Seq(Ops) /\ Plain(<<Op(n, "")>>)
    <2>1. n \in Kinds \ {"block", "tick", "finish"}  BY <1>7 DEF Kinds
    <2> QED  BY <1>1, <1>3, <2>1
  <1>8. ASSUME NEW a \in Seq(Ops), NEW b \in Seq(Ops), Plain(a), Plain(b)
        PROVE  a \o b \in Seq(Ops) /\ Plain(a \o b)
    BY <1>8, AnyCat, Assoc
  <1>9. Plain(yield) /\ yield \in Seq(Ops)
    <2>1. Plain(acquire("ptable") \o <<Op("runnable", "")>>) /\ acquire("ptable") \o <<Op("runnable", "")>> \in Seq(Ops)
      BY <1>3, <1>5, <1>7, <1>8
    <2>2. /\ Plain((acquire("ptable") \o <<Op("runnable", "")>>) \o sched)
          /\ (acquire("ptable") \o <<Op("runnable", "")>>) \o sched \in Seq(Ops)
      BY <1>6, <1>8, <2>1
    <2> QED  BY <1>3, <1>5, <1>8, <2>2 DEF yield
  <1>10. Plain(exit_end) /\ exit_end \in Seq(Ops)
    <2>1. Plain(acquire("ptable") \o <<Op("zombie", "")>>) /\ acquire("ptable") \o <<Op("zombie", "")>> \in Seq(Ops)
      BY <1>3, <1>5, <1>7, <1>8
    <2> QED  BY <1>6, <1>8, <2>1 DEF exit_end
  <1>11. Plain(scheduler) /\ scheduler \in Seq(Ops)
    <2>1. Plain(acquire("ptable") \o <<Op("scan", "")>>) /\ acquire("ptable") \o <<Op("scan", "")>> \in Seq(Ops)
      BY <1>3, <1>5, <1>7, <1>8
    <2>2. /\ Plain((acquire("ptable") \o <<Op("scan", "")>>) \o release("ptable"))
          /\ (acquire("ptable") \o <<Op("scan", "")>>) \o release("ptable") \in Seq(Ops)
      BY <1>3, <1>5, <1>8, <2>1
    <2> QED  BY <1>7, <1>8, <2>2 DEF scheduler
  <1>12. Plain(forkret) /\ forkret \in Seq(Ops)  BY <1>3, <1>5, <1>7, <1>8 DEF forkret
  <1>13. \A from : check(from) \in Seq(Ops) /\ Plain(check(from))  BY <1>4, <1>7 DEF check
  <1> QED  BY <1>4, <1>5, <1>6, <1>9, <1>10, <1>11, <1>12, <1>13


LEMMA PlainSleep ==
    ASSUME SpInv, SleepInv, NEW c \in SpCpus, stack[Running(c)] # <<>>, NEW ops \in Seq(Ops), Plain(ops), Go(c, ops),
           \A d \in SpCpus : Running(d)' = Running(d), UNCHANGED <<lock, procs, clock>>,
           Next1(c).k \in {"intena", "sti", "iret", "scan", "check", "preempt", "nap", "done?"}
    PROVE  SleepInv'
  <1>x. PICK x : x = Running(c)  OBVIOUS
  <1>1. Wakes(ops) /\ NoBlock(ops)  BY PlainWakes
  <1>2. NoBlock(stack[x])
    <2>1. ~Acquiring(Next1(c)) /\ ~Releasing(Next1(c)) /\ Next1(c).k \notin {"block", "unlock"}
      BY DEF Acquiring, Releasing
    <2> QED  BY <1>x, <2>1, NoBlockAt
  <1>3. \A d \in SpCpus, l \in Locks : d # c /\ lock[l].cpu = d => lock'[l].cpu = d  OBVIOUS
  <1>4. procs' = procs /\ clock'.ticks = clock.ticks /\ Next1(c).k # "wakeup1"  OBVIOUS
  <1> QED  BY <1>x, <1>1, <1>2, <1>3, <1>4, StillStep

LEMMA FlagSleep ==
    ASSUME SpInv, SleepInv, NEW c \in SpCpus, Swtched(c) \/ sti(c) \/ iret(c)
    PROVE  SleepInv'
  <1>1. stack[Running(c)] # <<>> /\ Next1(c).k \in {"intena", "sti", "iret"} /\ UNCHANGED <<lock, procs, clock>>
    BY DEF Swtched, sti, iret, Top, OnlyCpu
  <1>2. PICK ops : ops \in {<<>>, scheduler} /\ Go(c, ops)
    BY DEF Swtched, sti, iret
  <1>3. ops \in Seq(Ops) /\ Plain(ops)  BY <1>2, PlainCode
  <1>4. \A d \in SpCpus : Running(d)' = Running(d)
    <2>1. \/ \E f : cpu' = [cpu EXCEPT ![c] = [cpu[c] EXCEPT !.intena = f]]
          \/ cpu' = [cpu EXCEPT ![c] = [cpu[c] EXCEPT !.ifl = TRUE]]
      BY DEF Swtched, sti, iret, OnlyCpu
    <2>2. \A f : [cpu[c] EXCEPT !.intena = f].on = cpu[c].on /\ [cpu[c] EXCEPT !.ifl = TRUE].on = cpu[c].on
      BY RunOf DEF Cpu
    <2>3. PICK r : r.on = cpu[c].on /\ cpu' = [cpu EXCEPT ![c] = r]
      <3>1. CASE \E f : cpu' = [cpu EXCEPT ![c] = [cpu[c] EXCEPT !.intena = f]]
        <4>1. PICK f : cpu' = [cpu EXCEPT ![c] = [cpu[c] EXCEPT !.intena = f]]  BY <3>1
        <4>2. PICK r : r = [cpu[c] EXCEPT !.intena = f]  OBVIOUS
        <4>3. r.on = cpu[c].on /\ cpu' = [cpu EXCEPT ![c] = r]  BY <2>2, <4>1, <4>2
        <4> QED  BY <4>3
      <3>2. CASE cpu' = [cpu EXCEPT ![c] = [cpu[c] EXCEPT !.ifl = TRUE]]
        <4>2. PICK r : r = [cpu[c] EXCEPT !.ifl = TRUE]  OBVIOUS
        <4>3. r.on = cpu[c].on /\ cpu' = [cpu EXCEPT ![c] = r]  BY <2>2, <3>2, <4>2
        <4> QED  BY <4>3
      <3> QED  BY <2>1, <3>1, <3>2
    <2>4. cpu \in [SpCpus -> Cpu]  BY DEF SpInv, SpTypes
    <2> QED  BY ONLY <2>3, <2>4 DEF Running
  <1> QED  BY <1>1, <1>2, <1>3, <1>4, PlainSleep

LEMMA CheckSleep ==
    ASSUME SpInv, SleepInv, NEW c \in SpCpus, Check(c) \/ preempt(c)
    PROVE  SleepInv'
  <1>1. /\ stack[Running(c)] # <<>> /\ Next1(c).k \in {"check", "preempt"}
        /\ UNCHANGED <<cpu, lock, procs, clock, panic>>
    BY DEF Check, preempt, Top
  <1>2. PICK ops : ops \in {<<>>, exit_end, yield} /\ Go(c, ops)  BY DEF Check, preempt
  <1>3. ops \in Seq(Ops) /\ Plain(ops)  BY <1>2, PlainCode
  <1>4. \A d \in SpCpus : Running(d)' = Running(d)  BY <1>1 DEF Running
  <1> QED  BY <1>1, <1>2, <1>3, <1>4, PlainSleep

Front(a, b, d, v) == ((<<a>> \o <<b>>) \o <<d>>) \o v
Begins(s, a, b, d) == s[1] = a /\ s[2] = b /\ s[3] = d /\ \A i \in DOMAIN s : s[i].k = "block" => i = 3
LEMMA FrontThree ==
    ASSUME NEW a \in Ops, NEW b \in Ops, NEW d \in Ops, NEW v \in Seq(Ops), NoBlock(v),
           a.k # "block", b.k # "block",
           NEW s, s = Front(a, b, d, v)
    PROVE  Begins(s, a, b, d)
  <1>1. <<a>> \in Seq(Ops) /\ <<b>> \in Seq(Ops) /\ <<d>> \in Seq(Ops) /\ <<d>> \o v \in Seq(Ops)
        /\ <<b>> \o (<<d>> \o v) \in Seq(Ops)
    BY Cons
  <1>2. s = <<a>> \o (<<b>> \o (<<d>> \o v))
    <2>1. <<a>> \o <<b>> \in Seq(Ops)  BY <1>1, Assoc
    <2>2. s = (<<a>> \o <<b>>) \o (<<d>> \o v)  BY <1>1, <2>1, Assoc DEF Front
    <2> QED  BY <1>1, <2>2, Assoc
  <1>w. PICK w \in Seq(Ops) : w = <<d>> \o v  BY <1>1
  <1>z. PICK z \in Seq(Ops) : z = <<b>> \o w  BY <1>1, <1>w
  <1>3. Len(w) = Len(v) + 1 /\ w[1] = d /\ \A i \in 2 .. Len(v) + 1 : w[i] = v[i - 1]  BY <1>w, Cons
  <1>4. Len(z) = Len(w) + 1 /\ z[1] = b /\ \A i \in 2 .. Len(w) + 1 : z[i] = w[i - 1]  BY <1>z, Cons
  <1>5. /\ s = <<a>> \o z /\ s \in Seq(Ops)
        /\ Len(s) = Len(z) + 1 /\ s[1] = a /\ \A i \in 2 .. Len(z) + 1 : s[i] = z[i - 1]
    BY <1>2, <1>w, <1>z, Cons
  <1>6. Len(v) \in Nat /\ DOMAIN v = 1 .. Len(v) /\ DOMAIN s = 1 .. Len(s)  BY <1>5, LenProperties
  <1>7. s[2] = b
    <2>1. 2 \in 2 .. Len(z) + 1 /\ 2 - 1 = 1  BY <1>3, <1>4, <1>6
    <2> QED  BY <1>4, <1>5, <2>1
  <1>8. s[3] = d
    <2>1. 3 \in 2 .. Len(z) + 1 /\ 3 - 1 = 2 /\ 2 \in 2 .. Len(w) + 1 /\ 2 - 1 = 1  BY <1>3, <1>4, <1>6
    <2> QED  BY <1>3, <1>4, <1>5, <2>1
  <1>9. ASSUME NEW i \in DOMAIN s, s[i].k = "block"  PROVE i = 3
    <2>1. i \in 1 .. Len(v) + 3  BY <1>3, <1>4, <1>5, <1>6
    <2>2. i # 1 /\ i # 2  BY <1>5, <1>7, <1>9
    <2>3. ASSUME i > 3  PROVE FALSE
      <3>1. /\ i \in 2 .. Len(z) + 1 /\ i - 1 \in 2 .. Len(w) + 1 /\ i - 2 \in 2 .. Len(v) + 1
            /\ (i - 1) - 1 = i - 2 /\ (i - 2) - 1 \in 1 .. Len(v)
        BY <1>3, <1>4, <1>6, <2>1, <2>3
      <3>2. s[i] = z[i - 1] /\ z[i - 1] = w[i - 2] /\ w[i - 2] = v[(i - 2) - 1]
        BY <1>3, <1>4, <1>5, <3>1
      <3>3. v[(i - 2) - 1].k # "block"  BY <1>6, <3>1 DEF NoBlock
      <3> QED  BY <1>9, <3>2, <3>3
    <2> QED  BY <1>6, <2>1, <2>2, <2>3
  <1> QED  BY <1>5, <1>7, <1>8, <1>9 DEF Begins

\* sleep, with what its caller does next.
Slept(ops, l) ==
    \E a, b, d \in Ops, v \in Seq(Ops) :
        /\ a.k = "pushcli" /\ a.l = "ptable"
        /\ b.k = "locked" /\ b.v = "release" /\ b.l = l
        /\ d.k = "block" /\ d.l = l
        /\ NoBlock(v) /\ ops = Front(a, b, d, v) /\ ops \in Seq(Ops) /\ Wakes(ops)
Then(l, o) == sleep(l, l) \o <<o>>
LEMMA SleepCode ==
    ASSUME NEW l \in {"ticks", "ide"}, NEW o \in Ops, o.k \notin {"block", "tick", "finish"}
    PROVE  Slept(Then(l, o), l)
  <1>a. PICK a \in Ops : a = Op("pushcli", "ptable") /\ a.k = "pushcli" /\ a.l = "ptable"
    <2>1. "pushcli" \in Kinds /\ "ptable" \in Locks \cup {""}  BY DEF Kinds, Locks
    <2>2. Op("pushcli", "ptable") \in Ops /\ Op("pushcli", "ptable").k = "pushcli" /\ Op("pushcli", "ptable").l = "ptable"
      BY <2>1, OpIs
    <2> QED  BY <2>2
  <1>b. PICK b \in Ops : b = [k |-> "locked", l |-> l, v |-> "release"] /\ b.k = "locked" /\ b.l = l /\ b.v = "release"
    <2>1. "locked" \in Kinds /\ l \in Locks  BY DEF Kinds, Locks
    <2>2. PICK b : b = [k |-> "locked", l |-> l, v |-> "release"]  OBVIOUS
    <2>3. b \in Ops /\ b.k = "locked" /\ b.l = l /\ b.v = "release"  BY <2>1, <2>2 DEF Ops
    <2> QED  BY <2>2, <2>3
  <1>d. PICK d \in Ops : d = Op("block", l) /\ d.k = "block" /\ d.l = l
    <2>1. "block" \in Kinds /\ l \in Locks \cup {""}  BY DEF Kinds, Locks
    <2>2. Op("block", l) \in Ops /\ Op("block", l).k = "block" /\ Op("block", l).l = l
      BY <2>1, OpIs
    <2> QED  BY <2>2
  <1>e. PICK e \in Ops : e = Op("awake", l) /\ e.k = "awake" /\ e.l = l
    <2>1. "awake" \in Kinds /\ l \in Locks \cup {""}  BY DEF Kinds, Locks
    <2>2. Op("awake", l) \in Ops /\ Op("awake", l).k = "awake" /\ Op("awake", l).l = l
      BY <2>1, OpIs
    <2> QED  BY <2>2
  <1>l. "ptable" \in Locks /\ l \in Locks  BY DEF Locks
  <1>w. PICK w \in Seq(Ops) : w = (<<a>> \o <<b>>) \o <<d>>
    <2>1. <<a>> \in Seq(Ops) /\ <<b>> \in Seq(Ops) /\ <<d>> \in Seq(Ops)  OBVIOUS
    <2> QED  BY <2>1, Assoc
  <1>1. sleep(l, l) = (((w \o sched) \o <<e>>) \o release("ptable")) \o acquire(l)
    BY <1>a, <1>b, <1>d, <1>e, <1>w DEF sleep, acquire, release
  <1>2. /\ sched \in Seq(Ops) /\ Plain(sched) /\ <<e>> \in Seq(Ops) /\ Plain(<<e>>)
        /\ release("ptable") \in Seq(Ops) /\ Plain(release("ptable"))
        /\ acquire(l) \in Seq(Ops) /\ Plain(acquire(l))
        /\ <<o>> \in Seq(Ops) /\ Plain(<<o>>)
    BY <1>e, <1>l, PlainCode, PlainOne
  <1> DEFINE v1 == sched \o <<e>>
             v2 == v1 \o release("ptable")
             v3 == v2 \o acquire(l)
             v4 == v3 \o <<o>>
  <1>3. v1 \in Seq(Ops) /\ Plain(v1)  BY <1>2, AnyCat, Assoc
  <1>4. v2 \in Seq(Ops) /\ Plain(v2)
    <2> HIDE DEF v1
    <2> QED  BY <1>2, <1>3, AnyCat, Assoc
  <1>5. v3 \in Seq(Ops) /\ Plain(v3)
    <2> HIDE DEF v2
    <2> QED  BY <1>2, <1>4, AnyCat, Assoc
  <1>6. v4 \in Seq(Ops) /\ Plain(v4)
    <2> HIDE DEF v3
    <2> QED  BY <1>2, <1>5, AnyCat, Assoc
  <1>7. sleep(l, l) \o <<o>> = w \o v4
    <2>1. (w \o sched) \o <<e>> = w \o v1  BY <1>2, Assoc
    <2> HIDE DEF v1
    <2>2. (w \o v1) \o release("ptable") = w \o v2  BY <1>2, <1>3, Assoc
    <2> HIDE DEF v2
    <2>3. (w \o v2) \o acquire(l) = w \o v3  BY <1>2, <1>4, Assoc
    <2> HIDE DEF v3
    <2>4. (w \o v3) \o <<o>> = w \o v4  BY <1>2, <1>5, Assoc
    <2> QED  BY <1>1, <2>1, <2>2, <2>3, <2>4
  <1> HIDE DEF v1, v2, v3, v4
  <1>8. w \o v4 \in Seq(Ops) /\ Wakes(w \o v4)
    <2>1. /\ <<a>> \in Seq(Ops) /\ <<b>> \in Seq(Ops) /\ <<d>> \in Seq(Ops) /\ <<a>> \o <<b>> \in Seq(Ops)
          /\ Wakes(<<a>>) /\ Wakes(<<b>>) /\ Wakes(<<d>>)
      BY <1>a, <1>b, <1>d, Assoc DEF Wakes
    <2>2. Wakes(<<a>> \o <<b>>)  BY <2>1, WakesCat
    <2>3. Wakes(w)  BY <1>w, <2>1, <2>2, WakesCat
    <2> QED  BY <1>6, <2>3, PlainWakes, WakesCat, Assoc
  <1>9. NoBlock(v4)  BY <1>6, PlainWakes
  <1>10. PICK v \in Seq(Ops) : v = v4  BY <1>6
  <1>11. PICK ops \in Seq(Ops) : ops = Then(l, o) /\ Wakes(ops) /\ ops = Front(a, b, d, v)
    BY <1>w, <1>7, <1>8, <1>10 DEF Front, Then
  <1>12. /\ a.k = "pushcli" /\ a.l = "ptable"
         /\ b.k = "locked" /\ b.v = "release" /\ b.l = l
         /\ d.k = "block" /\ d.l = l
         /\ NoBlock(v)
    BY <1>a, <1>b, <1>d, <1>9, <1>10
  <1>13. Slept(ops, l)  BY ONLY <1>11, <1>12, a \in Ops, b \in Ops, d \in Ops, v \in Seq(Ops) DEF Slept
  <1> QED  BY <1>11, <1>13

LEMMA GoesToSleep ==
    ASSUME SpInv, SleepInv, NEW c \in SpCpus, stack[Running(c)] # <<>>, NEW l \in {"ticks", "ide"},
           Next1(c).k \in {"nap", "done?"}, Go(c, sleep(l, l) \o <<Next1(c)>>),
           UNCHANGED <<cpu, lock, procs, clock, panic>>,
           NotDue(proc(c), l), lock[l].cpu = c
    PROVE  SleepInv'
  <1>x. PICK x : x = Running(c)  OBVIOUS
  <1>o. PICK o \in Ops : o = Next1(c)  BY NextOf
  <1>u. PICK u \in Seq(Ops) : u = Tail(stack[x])  BY <1>x, NextOf
  <1>1. PICK ops \in Seq(Ops), a \in Ops, b \in Ops, d \in Ops, v \in Seq(Ops) :
           /\ ops = Then(l, o) /\ Wakes(ops) /\ ops = Front(a, b, d, v) /\ NoBlock(v)
           /\ a.k = "pushcli" /\ a.l = "ptable"
           /\ b.k = "locked" /\ b.v = "release" /\ b.l = l
           /\ d.k = "block" /\ d.l = l
    <2>1. o.k \notin {"block", "tick", "finish"}  BY <1>o
    <2>2. Slept(Then(l, o), l)  BY <2>1, SleepCode
    <2>3. PICK ops : ops = Then(l, o) /\ Slept(ops, l)  BY <2>2
    <2>4. ops \in Seq(Ops)  BY <2>3 DEF Slept
    <2>5. PICK a, b, d \in Ops, v \in Seq(Ops) :
             /\ a.k = "pushcli" /\ a.l = "ptable"
             /\ b.k = "locked" /\ b.v = "release" /\ b.l = l
             /\ d.k = "block" /\ d.l = l
             /\ NoBlock(v) /\ ops = Front(a, b, d, v) /\ Wakes(ops)
      BY ONLY ZenonT(40), <2>3 DEF Slept
    <2> QED  BY ONLY <2>3, <2>4, <2>5, a \in Ops, b \in Ops, d \in Ops, v \in Seq(Ops)
  <1>3. Go(c, ops)  BY <1>o, <1>1 DEF Then
  <1>4. x \in KThreads /\ stack'[x] = ops \o u
    <2>1. x \in KThreads /\ stack'[x] = ops \o Tail(stack[x])
      BY ONLY SpInv, SleepInv, c \in SpCpus, stack[Running(c)] # <<>>, ops \in Seq(Ops), <1>x, <1>1, <1>3, GoWakes
    <2> QED  BY <1>u, <2>1
  <1>5. v \o u \in Seq(Ops) /\ NoBlock(v \o u)
    <2>1. NoBlock(stack[Running(c)])
      <3>1. ~Acquiring(Next1(c)) /\ ~Releasing(Next1(c)) /\ Next1(c).k \notin {"block", "unlock"}
        BY DEF Acquiring, Releasing
      <3> QED  BY <3>1, NoBlockAt
    <2>2. stack[Running(c)] = <<o>> \o u /\ <<o>> \in Seq(Ops)  BY <1>x, <1>o, <1>u, NextOf
    <2>3. NoBlock(u)  BY ZenonT(40), <2>1, <2>2, AnyCat
    <2> QED  BY <1>1, <2>3, AnyCat, Assoc
  <1>6. PICK v2 \in Seq(Ops) : v2 = v \o u /\ NoBlock(v2)  BY <1>5
  <1>7. PICK s : s = stack'[x]  OBVIOUS
  <1>8. s = Front(a, b, d, v2)
    <2>1. <<a>> \in Seq(Ops) /\ <<b>> \in Seq(Ops) /\ <<d>> \in Seq(Ops)  OBVIOUS
    <2>2. PICK w \in Seq(Ops) : w = (<<a>> \o <<b>>) \o <<d>>  BY <2>1, Assoc
    <2>3. s = (w \o v) \o u  BY <1>1, <1>4, <1>7, <2>2 DEF Front
    <2>4. s = w \o v2  BY <1>6, <2>3, Assoc
    <2> QED  BY <2>2, <2>4 DEF Front
  <1>9. s[1] = a /\ s[2] = b /\ s[3] = d /\ \A i \in DOMAIN s : s[i].k = "block" => i = 3
    <2>1. a.k # "block" /\ b.k # "block"  BY <1>1
    <2>2. NoBlock(v2)  BY <1>6
    <2>3. Begins(s, a, b, d)  BY ONLY <2>2, <1>8, <2>1, FrontThree, a \in Ops, b \in Ops, d \in Ops, v2 \in Seq(Ops)
    <2> QED  BY <2>3 DEF Begins
  <1>14. ASSUME NEW i \in DOMAIN stack'[x], stack'[x][i].k = "block"  PROVE Going(c, i)'
    <2>1. i = 3  BY <1>7, <1>9, <1>14
    <2>2. Running(c)' = x /\ proc(c)' = proc(c)  BY <1>x DEF Running, proc
    <2>3. NotDue(proc(c), l)'  BY <2>2 DEF NotDue, Elapsed
    <2>4. Acquiring(a)  BY <1>1 DEF Acquiring
    <2>5. stack'[x][3].l = l /\ stack'[x][1].l = "ptable" /\ Acquiring(stack'[x][1])
          /\ stack'[x][2].k = "locked" /\ stack'[x][2].v = "release" /\ stack'[x][2].l = l
      BY <1>1, <1>7, <1>9, <2>4
    <2>6. lock'[l].cpu = c  OBVIOUS
    <2> QED  BY <2>1, <2>2, <2>3, <2>5, <2>6 DEF Going
  <1>15. \A d2 \in SpCpus : Running(d2)' = Running(d2)  BY DEF Running
  <1>16. \A d2 \in SpCpus, m \in Locks : d2 # c /\ lock[m].cpu = d2 => lock'[m].cpu = d2  OBVIOUS
  <1>17. procs' = procs /\ clock'.ticks = clock.ticks /\ Next1(c).k # "wakeup1"  OBVIOUS
  <1> QED  BY <1>x, <1>1, <1>3, <1>14, <1>15, <1>16, <1>17, StillStep

LEMMA NapSleep ==
    ASSUME SpInv, SleepInv, NEW c \in SpCpus, nap(c) \/ iderw(c)
    PROVE  SleepInv'
  <1>1. /\ stack[Running(c)] # <<>> /\ Next1(c).k \in {"nap", "done?"}
        /\ UNCHANGED <<cpu, lock, procs, clock, panic>>
    BY DEF nap, iderw, Top
  <1>2. /\ proc(c) \in SpProcs /\ procs[proc(c)] \in Proc
        /\ Next1(c).k = "nap" => lock["ticks"].cpu = c
        /\ Next1(c).k = "done?" => lock["ide"].cpu = c
    <2>1. PICK K : Trans(Running(c)[1], Next1(c), Hold(c), K)  BY <1>1, NextOf
    <2>2. /\ proc(c) \in SpProcs /\ procs[proc(c)] \in Proc
          /\ Next1(c).k = "nap" => Hold(c) = {"ticks"}
          /\ Next1(c).k = "done?" => Hold(c) = {"ide"}
      BY <1>1, <2>1, OwnOp
    <2> QED  BY <2>2, HoldOf DEF Locks
  <1>3. \/ Go(c, <<>>)
        \/ Next1(c).k = "nap" /\ NotDue(proc(c), "ticks") /\ Go(c, sleep("ticks", "ticks") \o <<Next1(c)>>)
        \/ Next1(c).k = "done?" /\ NotDue(proc(c), "ide") /\ Go(c, sleep("ide", "ide") \o <<Next1(c)>>)
    <2>1. CASE nap(c)
      <3>1. Elapsed(proc(c)) \in Int /\ procs[proc(c)].nap % 2 ^ SpWidth \in Int
        <4>1. clock.ticks \in Int /\ procs[proc(c)].ticks0 \in Int /\ procs[proc(c)].nap \in Int
          BY <1>2 DEF Proc, SpInv, SpTypes
        <4>2. PICK m \in Nat \ {0} : m = 2 ^ SpWidth  BY SpinConstants
        <4>3. (clock.ticks - procs[proc(c)].ticks0) % m \in Int /\ procs[proc(c)].nap % m \in Int  BY <4>1
        <4> QED  BY <4>2, <4>3 DEF Elapsed
      <3> QED  BY <2>1, <3>1 DEF nap, NotDue, Top
    <2>2. CASE iderw(c)
      <3>1. procs[proc(c)].request \in {"busy", "done"}  BY <1>2 DEF Proc
      <3> QED  BY <2>2, <3>1 DEF iderw, NotDue, Top
    <2> QED  BY <2>1, <2>2
  <1>4. CASE Go(c, <<>>)
    <2>1. \A d \in SpCpus : Running(d)' = Running(d)  BY <1>1 DEF Running
    <2> QED  BY <1>1, <1>4, <2>1, PlainSleep, PlainCode
  <1>5. CASE Next1(c).k = "nap" /\ NotDue(proc(c), "ticks") /\ Go(c, sleep("ticks", "ticks") \o <<Next1(c)>>)
    BY <1>1, <1>2, <1>5, GoesToSleep
  <1>6. CASE Next1(c).k = "done?" /\ NotDue(proc(c), "ide") /\ Go(c, sleep("ide", "ide") \o <<Next1(c)>>)
    BY <1>1, <1>2, <1>6, GoesToSleep
  <1> QED  BY <1>3, <1>4, <1>5, <1>6
-----------------------------------------------------------------------------
(* Sleeping and waking: what is done under the locks *)
LEMMA PopWakes ==
    ASSUME SpInv, SleepInv, NEW c \in SpCpus, stack[Running(c)] # <<>>, Go(c, <<>>), NEW x, x = Running(c)
    PROVE  /\ x \in KThreads /\ \A z \in KThreads : z # x => stack'[z] = stack[z]
           /\ Wakes(stack'[x])
           /\ \A l : Waking(l) => Waking(l)' \/ (Next1(c).k = "wakeup1" /\ Next1(c).l = l)
           /\ Next1(c).k = "tick" => Waking("ticks")'
           /\ Next1(c).k = "finish" => Waking("ide")'
  <1>1. <<>> \in Seq(Ops) /\ Wakes(<<>>)  BY DEF Wakes
  <1>2. PICK ops \in Seq(Ops) : ops = <<>> /\ Wakes(ops) /\ Go(c, ops)  BY <1>1
  <1>3. Wakes(ops) /\ Go(c, ops)  BY <1>2
  <1> QED  BY ONLY <1>3, SpInv, SleepInv, c \in SpCpus, stack[Running(c)] # <<>>, x = Running(c), ops \in Seq(Ops), GoWakes

LEMMA PopSleep ==
    ASSUME SpInv, SleepInv, NEW c \in SpCpus, stack[Running(c)] # <<>>, Go(c, <<>>), UNCHANGED <<cpu, lock>>,
           Next1(c).k \in {"block", "awake", "runnable", "zombie", "wakeup1", "start", "finish", "ticks0", "kill",
                           "tick"},
           \A l \in {"ticks", "ide"} : Next1(c).k = "wakeup1" /\ Next1(c).l = l =>
              \A p \in SpProcs : procs'[p].state = "SLEEPING" => procs'[p].chan # l,
           \A p \in SpProcs, l \in {"ticks", "ide"} : NotDue(p, l) =>
              \/ NotDue(p, l)'
              \/ Waking(l)' /\ l \in Hold(c)
              \/ p = proc(c) /\ procs'[p].state # "SLEEPING",
           \A p \in SpProcs : procs'[p].state = "SLEEPING" =>
              \/ procs[p].state = "SLEEPING" /\ procs'[p].chan = procs[p].chan
              \/ \E l \in {"ticks", "ide"} : procs'[p].chan = l /\ (NotDue(p, l)' \/ Waking(l)')
    PROVE  SleepInv'
  <1>x. PICK x : x = Running(c)  OBVIOUS
  <1>1. /\ x \in KThreads /\ \A z \in KThreads : z # x => stack'[z] = stack[z]
        /\ Wakes(stack'[x])
        /\ \A l : Waking(l) => Waking(l)' \/ (Next1(c).k = "wakeup1" /\ Next1(c).l = l)
    BY ONLY <1>x, SpInv, SleepInv, c \in SpCpus, stack[Running(c)] # <<>>, Go(c, <<>>), PopWakes
  <1>2. \A i \in DOMAIN stack'[x] : i \in Nat \ {0} /\ i + 1 \in DOMAIN stack[x] /\ stack'[x][i] = stack[x][i + 1]
    BY <1>x, PopPlace
  <1>3. \A i \in DOMAIN stack'[x] : stack'[x][i].k # "block"
    <2> SUFFICES ASSUME NEW i \in DOMAIN stack'[x], stack'[x][i].k = "block"  PROVE FALSE
      OBVIOUS
    <2>1. i + 1 \in DOMAIN stack[Running(c)] /\ stack[Running(c)][i + 1].k = "block" /\ i + 1 # 1  BY <1>x, <1>2
    <2>2. ~Acquiring(Next1(c)) /\ ~Releasing(Next1(c)) /\ Next1(c).k # "unlock"  BY DEF Acquiring, Releasing
    <2> QED  BY <2>1, <2>2, BlockAt
  <1>4. Next1(c).k = "wakeup1" => "ptable" \in Hold(c)
    <2>1. PICK K : Trans(Running(c)[1], Next1(c), Hold(c), K)  BY NextOf
    <2> QED  BY <2>1 DEF Trans, Acquiring, Releasing, Switching
  <1>5. \A l \in {"ticks", "ide"} : Waking(l) =>
           \/ Waking(l)'
           \/ "ptable" \in Hold(c) /\ \A p \in SpProcs : procs'[p].state = "SLEEPING" => procs'[p].chan # l
    BY <1>1, <1>4
  <1>6. \A d \in SpCpus : Running(d)' = Running(d)  BY DEF Running
  <1>7. Running(c)' = x /\ Running(c)' \in KThreads  BY <1>x, <1>1, <1>6
  <1>8. \A d \in SpCpus, l \in Locks : d # c /\ lock[l].cpu = d => lock'[l].cpu = d  OBVIOUS
  <1> QED  BY <1>x, <1>1, <1>3, <1>5, <1>6, <1>7, <1>8, SleepStep

\* When a sleep ends depends on three fields and the clock.
LEMMA SameDue ==
    ASSUME NEW p, procs'[p].nap = procs[p].nap, procs'[p].ticks0 = procs[p].ticks0,
           procs'[p].request = procs[p].request, clock'.ticks = clock.ticks
    PROVE  \A l : NotDue(p, l) => NotDue(p, l)'
  BY DEF NotDue, Elapsed

Chans == Locks \cup {""}
\* c writes the state and the chan of its process.
LEMMA StateSleep ==
    ASSUME SpInv, SleepInv, NEW c \in SpCpus, stack[Running(c)] # <<>>, Go(c, <<>>),
           Next1(c).k \in {"block", "awake", "runnable", "zombie"}, NEW p, p = proc(c),
           NEW s \in {"RUNNABLE", "RUNNING", "SLEEPING", "ZOMBIE"}, NEW h \in Chans,
           OnlyProcs([procs EXCEPT ![p].state = s, ![p].chan = h]),
           s = "SLEEPING" => Next1(c).k = "block" /\ h = Next1(c).l
    PROVE  SleepInv'
  <1>1. PICK K : Trans(Running(c)[1], Next1(c), Hold(c), K)  BY NextOf
  <1>2. p \in SpProcs /\ procs[p] \in Proc  BY <1>1, OwnOp
  <1>3. UNCHANGED <<cpu, lock, clock, panic>> /\ procs' = [procs EXCEPT ![p].state = s, ![p].chan = h]
    BY DEF OnlyProcs
  <1>4. /\ procs'[p].state = s /\ procs'[p].chan = h /\ procs'[p].nap = procs[p].nap
        /\ procs'[p].ticks0 = procs[p].ticks0 /\ procs'[p].request = procs[p].request
        /\ \A q \in SpProcs : q # p => procs'[q] = procs[q]
    <2>1. procs \in [SpProcs -> Proc]  BY DEF SpInv, SpTypes
    <2>2. PICK r : r = [procs[p] EXCEPT !.state = s, !.chan = h]  OBVIOUS
    <2>3. /\ r.state = s /\ r.chan = h /\ r.nap = procs[p].nap
          /\ r.ticks0 = procs[p].ticks0 /\ r.request = procs[p].request
      BY <1>2, <2>2 DEF Proc
    <2>4. procs' = [procs EXCEPT ![p] = r]  BY <1>2, <1>3, <2>1, <2>2
    <2> QED  BY <1>2, <2>1, <2>3, <2>4
  <1>5. \A q \in SpProcs, l \in {"ticks", "ide"} : NotDue(q, l) => NotDue(q, l)'
    <2> TAKE q \in SpProcs, l \in {"ticks", "ide"}
    <2>1. procs'[q].nap = procs[q].nap /\ procs'[q].ticks0 = procs[q].ticks0 /\ procs'[q].request = procs[q].request
      BY <1>4
    <2> QED  BY <1>3, <2>1, SameDue
  <1>6. ASSUME s = "SLEEPING"
        PROVE  \E l \in {"ticks", "ide"} : procs'[p].chan = l /\ (NotDue(p, l)' \/ Waking(l)')
    <2>1. stack[Running(c)] \in Seq(Ops) /\ 1 \in DOMAIN stack[Running(c)] /\ stack[Running(c)][1] = Next1(c)
      BY RunOf, Uncons DEF Next1
    <2>2. Going(c, 1)  BY <1>6, <2>1 DEF SleepInv
    <2>3. PICK l \in {"ticks", "ide"} : l = h  BY <1>6, <2>1, <2>2 DEF Going
    <2>4. NotDue(p, l) \/ Waking(l)
      <3>1. stack[Running(c)][1].l = l /\ p = proc(c)  BY <1>6, <2>1, <2>3
      <3>2. NotDue(proc(c), stack[Running(c)][1].l) \/ Waking(stack[Running(c)][1].l)
        <4>0. PICK i : i = 1  OBVIOUS
        <4>1. Going(c, i)  BY ONLY <2>2, <4>0, Zenon
        <4>3. i < 3
          <5>1. i \in Nat  BY ONLY <4>0
          <5> QED  BY ONLY <4>0, <5>1
        <4>2. NotDue(proc(c), stack[Running(c)][i].l) \/ Waking(stack[Running(c)][i].l)  BY ONLY <4>1, <4>3 DEF Going
        <4> QED  BY <4>0, <4>2
      <3> QED  BY ONLY <3>1, <3>2
    <2>5. Waking(l) => Waking(l)'
      <3>1. PICK x : x = Running(c)  OBVIOUS
      <3>2. Next1(c).k # "wakeup1"  OBVIOUS
      <3> QED  BY ONLY <3>1, <3>2, SpInv, SleepInv, c \in SpCpus, stack[Running(c)] # <<>>, Go(c, <<>>), PopWakes
    <2> QED  BY <1>2, <1>4, <1>5, <2>3, <2>4, <2>5
  <1>7. \A q \in SpProcs : procs'[q].state = "SLEEPING" =>
           \/ procs[q].state = "SLEEPING" /\ procs'[q].chan = procs[q].chan
           \/ \E l \in {"ticks", "ide"} : procs'[q].chan = l /\ (NotDue(q, l)' \/ Waking(l)')
    <2> TAKE q \in SpProcs
    <2>1. CASE q = p  BY <1>4, <1>6, <2>1
    <2>2. CASE q # p  BY <1>4, <2>2
    <2> QED  BY <2>1, <2>2
  <1> QED  BY <1>3, <1>5, <1>7, PopSleep

LEMMA StateSleeps ==
    ASSUME SpInv, SleepInv, NEW c \in SpCpus, Go(c, <<>>),
           \/ Top(c, "block")
              /\ OnlyProcs([procs EXCEPT ![proc(c)].state = "SLEEPING", ![proc(c)].chan = Next1(c).l])
           \/ Top(c, "awake") /\ OnlyProcs([procs EXCEPT ![proc(c)].chan = ""])
           \/ Top(c, "runnable") /\ OnlyProcs([procs EXCEPT ![proc(c)].state = "RUNNABLE"])
           \/ Top(c, "zombie") /\ OnlyProcs([procs EXCEPT ![proc(c)].state = "ZOMBIE"])
    PROVE  SleepInv'
  <1>1. stack[Running(c)] # <<>> /\ Next1(c).k \in {"block", "awake", "runnable", "zombie"}  BY DEF Top
  <1>2. PICK K : Trans(Running(c)[1], Next1(c), Hold(c), K)  BY <1>1, NextOf
  <1>p. PICK p : p = proc(c)  OBVIOUS
  <1>3. p \in SpProcs /\ procs[p] \in Proc /\ procs[p].state = "RUNNING" /\ Next1(c) \in Ops
    BY <1>1, <1>2, <1>p, OwnOp, NextOf
  <1>t. procs \in [SpProcs -> Proc]  BY DEF SpInv, SpTypes
  <1>4. /\ procs[p].state \in {"RUNNABLE", "RUNNING", "SLEEPING", "ZOMBIE"}
        /\ procs[p].chan \in Locks \cup {""} /\ Next1(c).l \in Locks \cup {""} /\ "" \in Locks \cup {""}
        /\ procs[p].chan \in Chans /\ Next1(c).l \in Chans /\ "" \in Chans
    BY <1>3 DEF Proc, Ops, Chans
  <1>5. PICK s \in {"RUNNABLE", "RUNNING", "SLEEPING", "ZOMBIE"}, h \in Chans :
           /\ OnlyProcs([procs EXCEPT ![p].state = s, ![p].chan = h])
           /\ s = "SLEEPING" => Next1(c).k = "block" /\ h = Next1(c).l
    <2>1. CASE Top(c, "block") /\ OnlyProcs([procs EXCEPT ![p].state = "SLEEPING", ![p].chan = Next1(c).l])
      BY <1>4, <2>1 DEF Top
    <2>2. CASE OnlyProcs([procs EXCEPT ![p].chan = ""])
      <3>1. [procs EXCEPT ![p].chan = ""] = [procs EXCEPT ![p].state = "RUNNING", ![p].chan = ""]
        BY <1>3, <1>t DEF Proc
      <3> QED  BY <2>2, <3>1, <1>4
    <2>3. CASE OnlyProcs([procs EXCEPT ![p].state = "RUNNABLE"])
      <3>1. [procs EXCEPT ![p].state = "RUNNABLE"] = [procs EXCEPT ![p].state = "RUNNABLE", ![p].chan = procs[p].chan]
        BY <1>3, <1>t DEF Proc
      <3> QED  BY <2>3, <3>1, <1>4
    <2>4. CASE OnlyProcs([procs EXCEPT ![p].state = "ZOMBIE"])
      <3>1. [procs EXCEPT ![p].state = "ZOMBIE"] = [procs EXCEPT ![p].state = "ZOMBIE", ![p].chan = procs[p].chan]
        BY <1>3, <1>t DEF Proc
      <3> QED  BY <2>4, <3>1, <1>4
    <2> QED  BY <1>p, <2>1, <2>2, <2>3, <2>4
  <1> QED  BY <1>1, <1>p, <1>5, StateSleep

\* c writes the request or the clock of its process, which runs.
LEMMA FieldSleeps ==
    ASSUME SpInv, SleepInv, NEW c \in SpCpus, Go(c, <<>>),
           \/ Top(c, "start") /\ OnlyProcs([procs EXCEPT ![proc(c)].request = "busy"])
           \/ Top(c, "ticks0") /\ OnlyProcs([procs EXCEPT ![proc(c)].ticks0 = clock.ticks])
    PROVE  SleepInv'
  <1>1. stack[Running(c)] # <<>> /\ Next1(c).k \in {"start", "ticks0"}  BY DEF Top
  <1>2. PICK K : Trans(Running(c)[1], Next1(c), Hold(c), K)  BY <1>1, NextOf
  <1>p. PICK p : p = proc(c)  OBVIOUS
  <1>3. p \in SpProcs /\ procs[p] \in Proc /\ procs[p].state = "RUNNING"
    BY <1>1, <1>2, <1>p, OwnOp
  <1>t. procs \in [SpProcs -> Proc]  BY DEF SpInv, SpTypes
  <1>4. UNCHANGED <<cpu, lock, clock, panic>>  BY DEF OnlyProcs
  <1>5. procs'[p].state = "RUNNING" /\ \A q \in SpProcs : q # p => procs'[q] = procs[q]
    <2>1. procs' = [procs EXCEPT ![p].request = "busy"] \/ procs' = [procs EXCEPT ![p].ticks0 = clock.ticks]
      BY <1>p DEF OnlyProcs
    <2> QED  BY <1>3, <1>t, <2>1 DEF Proc
  <1>6. \A q \in SpProcs, l \in {"ticks", "ide"} : NotDue(q, l) => NotDue(q, l)' \/ (q = p /\ procs'[q].state # "SLEEPING")
    <2> TAKE q \in SpProcs, l \in {"ticks", "ide"}
    <2>1. CASE q = p  BY <1>5, <2>1
    <2>2. CASE q # p  BY <1>4, <1>5, <2>2, SameDue
    <2> QED  BY <2>1, <2>2
  <1>7. \A q \in SpProcs : procs'[q].state = "SLEEPING" =>
           procs[q].state = "SLEEPING" /\ procs'[q].chan = procs[q].chan
    BY <1>5
  <1> QED  BY <1>1, <1>p, <1>4, <1>6, <1>7, PopSleep


\* wakeup1 and kill end sleeps and change nothing else that a sleeper waits for.
LEMMA WakeupSleep ==
    ASSUME SpInv, SleepInv, NEW c \in SpCpus, Go(c, <<>>),
           \/ /\ Top(c, "wakeup1")
              /\ OnlyProcs([p \in SpProcs |-> IF procs[p].state = "SLEEPING" /\ procs[p].chan = Next1(c).l
                                              THEN [procs[p] EXCEPT !.state = "RUNNABLE"] ELSE procs[p]])
           \/ /\ Top(c, "kill")
              /\ \E p \in SpProcs : OnlyProcs([procs EXCEPT ![p].killed = TRUE,
                                                      ![p].state = IF @ = "SLEEPING" THEN "RUNNABLE" ELSE @])
    PROVE  SleepInv'
  <1>1. stack[Running(c)] # <<>> /\ Next1(c).k \in {"wakeup1", "kill"} /\ UNCHANGED <<cpu, lock, clock, panic>>
    BY DEF Top, OnlyProcs
  <1>t. procs \in [SpProcs -> Proc]  BY DEF SpInv, SpTypes
  <1>o. PICK o : o = Next1(c)  OBVIOUS
  <1> DEFINE Same(q) == /\ procs'[q].nap = procs[q].nap /\ procs'[q].ticks0 = procs[q].ticks0
                        /\ procs'[q].request = procs[q].request
                        /\ procs'[q].state = "SLEEPING" => /\ procs[q].state = "SLEEPING"
                                                           /\ procs'[q].chan = procs[q].chan
                                                           /\ o.k = "wakeup1" => procs[q].chan # o.l
  <1>2. ASSUME NEW q \in SpProcs  PROVE Same(q)
    <2>1. CASE Top(c, "wakeup1")
      <3>1. procs' = [p \in SpProcs |-> IF procs[p].state = "SLEEPING" /\ procs[p].chan = o.l
                                        THEN [procs[p] EXCEPT !.state = "RUNNABLE"] ELSE procs[p]]
        BY <1>o, <2>1 DEF OnlyProcs, Top
      <3>2. procs'[q] = IF procs[q].state = "SLEEPING" /\ procs[q].chan = o.l
                        THEN [procs[q] EXCEPT !.state = "RUNNABLE"] ELSE procs[q]
        BY ONLY <3>1, q \in SpProcs
      <3>3. procs[q] \in Proc  BY <1>t
      <3>4. PICK r : r = [procs[q] EXCEPT !.state = "RUNNABLE"]  OBVIOUS
      <3>5. /\ r.state = "RUNNABLE" /\ r.nap = procs[q].nap /\ r.ticks0 = procs[q].ticks0
            /\ r.request = procs[q].request
        BY <3>3, <3>4 DEF Proc
      <3> QED  BY <3>2, <3>4, <3>5
    <2>2. CASE Top(c, "kill")
      <3>1. PICK p \in SpProcs : procs' = [procs EXCEPT ![p].killed = TRUE,
                                                        ![p].state = IF @ = "SLEEPING" THEN "RUNNABLE" ELSE @]
        BY <2>2 DEF OnlyProcs, Top
      <3>2. PICK r : r = [procs[p] EXCEPT !.killed = TRUE, !.state = IF @ = "SLEEPING" THEN "RUNNABLE" ELSE @]
        OBVIOUS
      <3>3. procs[p] \in Proc  BY <1>t
      <3>4. /\ r.state # "SLEEPING" /\ r.nap = procs[p].nap /\ r.ticks0 = procs[p].ticks0
            /\ r.request = procs[p].request
        BY <3>2, <3>3 DEF Proc
      <3>5. procs' = [procs EXCEPT ![p] = r]  BY <3>1, <3>2, <1>t
      <3>6. procs'[q] = IF q = p THEN r ELSE procs[q]  BY <1>t, <3>5
      <3>7. o.k # "wakeup1"  BY <1>o, <2>2 DEF Top
      <3> QED  BY <3>4, <3>6, <3>7
    <2> QED  BY <2>1, <2>2
  <1>3. \A q \in SpProcs, l \in {"ticks", "ide"} : NotDue(q, l) => NotDue(q, l)'
    <2> TAKE q \in SpProcs, l \in {"ticks", "ide"}
    <2>1. Same(q)  BY <1>2
    <2> QED  BY <1>1, <2>1, SameDue
  <1>4. \A q \in SpProcs : procs'[q].state = "SLEEPING" => procs[q].state = "SLEEPING" /\ procs'[q].chan = procs[q].chan
    BY <1>2
  <1>5. \A l \in {"ticks", "ide"} : Next1(c).k = "wakeup1" /\ Next1(c).l = l =>
           \A p \in SpProcs : procs'[p].state = "SLEEPING" => procs'[p].chan # l
    BY <1>o, <1>2
  <1> QED  BY <1>1, <1>3, <1>4, <1>5, PopSleep

\* The interrupt handlers end what is waited for, and have a wakeup to make.
LEMMA FinishSleep ==
    ASSUME SpInv, SleepInv, NEW c \in SpCpus, Top(c, "finish"), Go(c, <<>>), NEW p \in SpProcs,
           OnlyProcs([procs EXCEPT ![p].request = "done"])
    PROVE  SleepInv'
  <1>1. stack[Running(c)] # <<>> /\ Next1(c).k = "finish" /\ UNCHANGED <<cpu, lock, clock, panic>>
        /\ procs' = [procs EXCEPT ![p].request = "done"]
    BY DEF Top, OnlyProcs
  <1>t. procs \in [SpProcs -> Proc]  BY DEF SpInv, SpTypes
  <1>2. /\ procs'[p].state = procs[p].state /\ procs'[p].chan = procs[p].chan
        /\ procs'[p].nap = procs[p].nap /\ procs'[p].ticks0 = procs[p].ticks0
        /\ \A q \in SpProcs : q # p => procs'[q] = procs[q]
    BY <1>1, <1>t DEF Proc
  <1>3. Waking("ide")' /\ "ide" \in Hold(c)
    <2>1. PICK x : x = Running(c)  OBVIOUS
    <2>2. Waking("ide")'
      BY ONLY <1>1, <2>1, SpInv, SleepInv, c \in SpCpus, Go(c, <<>>), PopWakes
    <2>3. PICK K : Trans(Running(c)[1], Next1(c), Hold(c), K)  BY <1>1, NextOf
    <2>4. "ide" \in Hold(c)  BY <1>1, <2>3 DEF Trans, Acquiring, Releasing, Switching
    <2> QED  BY <2>2, <2>4
  <1>4. \A q \in SpProcs, l \in {"ticks", "ide"} : NotDue(q, l) => NotDue(q, l)' \/ (Waking(l)' /\ l \in Hold(c))
    <2> TAKE q \in SpProcs, l \in {"ticks", "ide"}
    <2>1. CASE l = "ide"  BY <1>3, <2>1
    <2>2. CASE l = "ticks"
      <3>1. procs'[q].nap = procs[q].nap /\ procs'[q].ticks0 = procs[q].ticks0 /\ clock'.ticks = clock.ticks
        BY <1>1, <1>2
      <3> QED  BY <2>2, <3>1 DEF NotDue, Elapsed
    <2> QED  BY <2>1, <2>2
  <1>5. \A q \in SpProcs : procs'[q].state = "SLEEPING" => procs[q].state = "SLEEPING" /\ procs'[q].chan = procs[q].chan
    BY <1>2
  <1> QED  BY <1>1, <1>4, <1>5, PopSleep

LEMMA TickSleep ==
    ASSUME SpInv, SleepInv, NEW c \in SpCpus, tick(c)
    PROVE  SleepInv'
  <1>1. stack[Running(c)] # <<>> /\ Next1(c).k = "tick" /\ Go(c, <<>>) /\ UNCHANGED <<cpu, lock, procs, panic>>
    BY DEF tick, Top
  <1>2. Waking("ticks")' /\ "ticks" \in Hold(c)
    <2>1. PICK x : x = Running(c)  OBVIOUS
    <2>2. Waking("ticks")'
      BY ONLY <1>1, <2>1, SpInv, SleepInv, c \in SpCpus, PopWakes
    <2>3. PICK K : Trans(Running(c)[1], Next1(c), Hold(c), K)  BY <1>1, NextOf
    <2>4. "ticks" \in Hold(c)  BY <1>1, <2>3 DEF Trans, Acquiring, Releasing, Switching
    <2> QED  BY <2>2, <2>4
  <1>3. \A q \in SpProcs, l \in {"ticks", "ide"} : NotDue(q, l) => NotDue(q, l)' \/ (Waking(l)' /\ l \in Hold(c))
    <2> TAKE q \in SpProcs, l \in {"ticks", "ide"}
    <2>1. CASE l = "ticks"  BY <1>2, <2>1
    <2>2. CASE l = "ide"  BY <1>1, <2>2 DEF NotDue
    <2> QED  BY <2>1, <2>2
  <1>4. \A q \in SpProcs : procs'[q].state = "SLEEPING" => procs[q].state = "SLEEPING" /\ procs'[q].chan = procs[q].chan
    BY <1>1
  <1> QED  BY <1>1, <1>3, <1>4, PopSleep

LEMMA ChangesSleep ==
    ASSUME SpInv, SleepInv, NEW c \in SpCpus, Changes(c)
    PROVE  SleepInv'
  <1>1. Go(c, <<>>)  BY DEF Changes
  <1>2. \/ Top(c, "block")
           /\ OnlyProcs([procs EXCEPT ![proc(c)].state = "SLEEPING", ![proc(c)].chan = Next1(c).l])
        \/ Top(c, "awake") /\ OnlyProcs([procs EXCEPT ![proc(c)].chan = ""])
        \/ Top(c, "runnable") /\ OnlyProcs([procs EXCEPT ![proc(c)].state = "RUNNABLE"])
        \/ Top(c, "zombie") /\ OnlyProcs([procs EXCEPT ![proc(c)].state = "ZOMBIE"])
        \/ Top(c, "start") /\ OnlyProcs([procs EXCEPT ![proc(c)].request = "busy"])
        \/ Top(c, "ticks0") /\ OnlyProcs([procs EXCEPT ![proc(c)].ticks0 = clock.ticks])
        \/ /\ Top(c, "wakeup1")
           /\ OnlyProcs([p \in SpProcs |-> IF procs[p].state = "SLEEPING" /\ procs[p].chan = Next1(c).l
                                           THEN [procs[p] EXCEPT !.state = "RUNNABLE"] ELSE procs[p]])
        \/ /\ Top(c, "kill")
           /\ \E p \in SpProcs : OnlyProcs([procs EXCEPT ![p].killed = TRUE,
                                                   ![p].state = IF @ = "SLEEPING" THEN "RUNNABLE" ELSE @])
        \/ Top(c, "finish") /\ \E p \in SpProcs : OnlyProcs([procs EXCEPT ![p].request = "done"])
    BY DEF Changes
  <1> QED  BY ONLY SpInv, SleepInv, c \in SpCpus, <1>1, <1>2, StateSleeps, FieldSleeps, WakeupSleep, FinishSleep
-----------------------------------------------------------------------------
(* Sleeping and waking: calls and interrupts *)
LEMMA PushSleep ==
    ASSUME SpInv, SleepInv, NEW c \in SpCpus, NEW x, x = Running(c), NEW ops \in Seq(Ops),
           stack' = [stack EXCEPT ![x] = ops \o @], Wakes(ops), NoBlock(ops), NoBlock(stack[x]),
           \A d \in SpCpus : Running(d)' = Running(d), lock' = lock,
           \A p \in SpProcs, l \in {"ticks", "ide"} : NotDue(p, l) =>
              NotDue(p, l)' \/ (p = proc(c) /\ procs'[p].state # "SLEEPING"),
           \A p \in SpProcs : procs'[p].state = "SLEEPING" => procs[p].state = "SLEEPING" /\ procs'[p].chan = procs[p].chan
    PROVE  SleepInv'
  <1>1. x \in KThreads /\ stack[x] \in Seq(Ops)  BY RunOf
  <1>2. stack'[x] = ops \o stack[x] /\ \A z \in KThreads : z # x => stack'[z] = stack[z]
    BY <1>1 DEF SpInv, SpTypes
  <1>3. Wakes(stack'[x])
    <2>1. Wakes(stack[x])  BY <1>1 DEF SleepInv
    <2> QED  BY <1>1, <1>2, <2>1, WakesCat
  <1>4. NoBlock(stack'[x])  BY <1>1, <1>2, AnyCat
  <1>5. \A l : Waking(l) => Waking(l)'
    <2> SUFFICES ASSUME NEW l, Waking(l)  PROVE Waking(l)'  OBVIOUS
    <2>1. PICK z \in KThreads : Has(stack[z], "wakeup1", l)  BY DEF Waking, Has
    <2>2. Has(stack'[z], "wakeup1", l)  BY <1>1, <1>2, <2>1, AnyCat
    <2> QED  BY <2>2 DEF Waking, Has
  <1>6. Running(c)' = x  OBVIOUS
  <1>7. \A i \in DOMAIN stack'[x] : stack'[x][i].k = "block" => Running(c)' = x /\ Going(c, i)'
    BY <1>4 DEF NoBlock
  <1>8. \A d \in SpCpus, l \in Locks : d # c /\ lock[l].cpu = d => lock'[l].cpu = d  OBVIOUS
  <1> QED  BY <1>1, <1>2, <1>3, <1>5, <1>6, <1>7, <1>8, SleepStep

LEMMA PlainCat ==
    ASSUME NEW a \in Seq(Ops), NEW b \in Seq(Ops), Plain(a), Plain(b)
    PROVE  a \o b \in Seq(Ops) /\ Plain(a \o b)
  BY AnyCat, Assoc

LEMMA PlainOp ==
    ASSUME NEW n \in {"ticks0", "start", "kill", "check", "preempt", "iret"}
    PROVE  Op(n, "") \in Ops /\ <<Op(n, "")>> \in Seq(Ops) /\ Plain(<<Op(n, "")>>)
  <1>1. n \in Kinds /\ "" \in Locks \cup {""}  BY DEF Kinds
  <1>2. Op(n, "") \in Ops /\ Op(n, "").k = n  BY <1>1, OpIs
  <1> QED  BY <1>2, PlainOne

LEMMA PlainSyscall ==
    ASSUME NEW name \in {"uptime", "sleep", "disk", "kill"}
    PROVE  syscall(name) \in Seq(Ops) /\ Plain(syscall(name))
  <1>1. \A l \in Locks : Plain(acquire(l)) /\ Plain(release(l)) /\ acquire(l) \in Seq(Ops) /\ release(l) \in Seq(Ops)
    BY PlainCode
  <1>2. "ticks" \in Locks /\ "ide" \in Locks /\ "ptable" \in Locks  BY DEF Locks
  <1>3. CASE name = "uptime"
    <2>1. syscall(name) = acquire("ticks") \o release("ticks")  BY <1>3 DEF syscall
    <2> QED  BY <1>1, <1>2, <2>1, PlainCat
  <1>4. CASE name = "sleep"
    <2>1. syscall(name) = acquire("ticks") \o <<Op("ticks0", ""), Op("nap", "ticks")>> \o release("ticks")
      BY <1>4 DEF syscall
    <2>2. <<Op("ticks0", ""), Op("nap", "ticks")>> \in Seq(Ops) /\ Plain(<<Op("ticks0", ""), Op("nap", "ticks")>>)
      <3>1. Op("nap", "ticks") \in Ops /\ Op("nap", "ticks").k = "nap"
        <4>1. "nap" \in Kinds /\ "ticks" \in Locks \cup {""}  BY DEF Kinds, Locks
        <4> QED  BY <4>1, OpIs
      <3>2. <<Op("nap", "ticks")>> \in Seq(Ops) /\ Plain(<<Op("nap", "ticks")>>)  BY <3>1, PlainOne
      <3>3. Op("ticks0", "") \in Ops /\ <<Op("ticks0", "")>> \in Seq(Ops) /\ Plain(<<Op("ticks0", "")>>)  BY PlainOp
      <3>4. <<Op("ticks0", "")>> \o <<Op("nap", "ticks")>> = <<Op("ticks0", ""), Op("nap", "ticks")>>
        BY <3>1, <3>3, Pair
      <3>5. /\ <<Op("ticks0", "")>> \o <<Op("nap", "ticks")>> \in Seq(Ops)
            /\ Plain(<<Op("ticks0", "")>> \o <<Op("nap", "ticks")>>)
        BY <3>2, <3>3, PlainCat
      <3> QED  BY <3>4, <3>5
    <2>3. PICK b \in Seq(Ops) : b = <<Op("ticks0", ""), Op("nap", "ticks")>> /\ Plain(b)  BY <2>2
    <2>4. acquire("ticks") \o b \in Seq(Ops) /\ Plain(acquire("ticks") \o b)  BY <1>1, <1>2, <2>3, PlainCat
    <2> QED  BY <1>1, <1>2, <2>1, <2>3, <2>4, PlainCat
  <1>5. CASE name = "disk"
    <2>1. syscall(name) = acquire("ide") \o <<Op("start", ""), Op("done?", "ide")>> \o release("ide")
      BY <1>5 DEF syscall
    <2>2. <<Op("start", ""), Op("done?", "ide")>> \in Seq(Ops) /\ Plain(<<Op("start", ""), Op("done?", "ide")>>)
      <3>1. Op("done?", "ide") \in Ops /\ Op("done?", "ide").k = "done?"
        <4>1. "done?" \in Kinds /\ "ide" \in Locks \cup {""}  BY DEF Kinds, Locks
        <4> QED  BY <4>1, OpIs
      <3>2. <<Op("done?", "ide")>> \in Seq(Ops) /\ Plain(<<Op("done?", "ide")>>)  BY <3>1, PlainOne
      <3>3. Op("start", "") \in Ops /\ <<Op("start", "")>> \in Seq(Ops) /\ Plain(<<Op("start", "")>>)  BY PlainOp
      <3>4. <<Op("start", "")>> \o <<Op("done?", "ide")>> = <<Op("start", ""), Op("done?", "ide")>>
        BY <3>1, <3>3, Pair
      <3>5. /\ <<Op("start", "")>> \o <<Op("done?", "ide")>> \in Seq(Ops)
            /\ Plain(<<Op("start", "")>> \o <<Op("done?", "ide")>>)
        BY <3>2, <3>3, PlainCat
      <3> QED  BY <3>4, <3>5
    <2>3. PICK b \in Seq(Ops) : b = <<Op("start", ""), Op("done?", "ide")>> /\ Plain(b)  BY <2>2
    <2>4. acquire("ide") \o b \in Seq(Ops) /\ Plain(acquire("ide") \o b)  BY <1>1, <1>2, <2>3, PlainCat
    <2> QED  BY <1>1, <1>2, <2>1, <2>3, <2>4, PlainCat
  <1>6. CASE name = "kill"
    <2>1. syscall(name) = acquire("ptable") \o <<Op("kill", "")>> \o release("ptable")  BY <1>6 DEF syscall
    <2>2. PICK b \in Seq(Ops) : b = <<Op("kill", "")>> /\ Plain(b)  BY PlainOp
    <2>3. acquire("ptable") \o b \in Seq(Ops) /\ Plain(acquire("ptable") \o b)  BY <1>1, <1>2, <2>2, PlainCat
    <2> QED  BY <1>1, <1>2, <2>1, <2>2, <2>3, PlainCat
  <1> QED  BY <1>3, <1>4, <1>5, <1>6

LEMMA TrapSleep ==
    ASSUME SpInv, SleepInv, NEW c \in SpCpus, trap(c)
    PROVE  SleepInv'
  <1>x. PICK x : x = Running(c)  OBVIOUS
  <1>p. PICK p : p = proc(c)  OBVIOUS
  <1>1. p # 0 /\ stack[x] = <<>> /\ UNCHANGED <<cpu, lock, panic>> /\ clock'.ticks = clock.ticks
    <2>1. clock' = [clock EXCEPT !.calls[p] = @ + 1]  BY <1>p DEF trap
    <2> QED  BY <1>x, <1>p, <2>1 DEF trap, SpInv, SpTypes
  <1>2. PICK name \in SpCalls[p], n \in SpNaps :
           /\ stack' = [stack EXCEPT ![x] = IF procs[p].killed THEN exit_end ELSE syscall(name) \o check("user")]
           /\ procs' = [procs EXCEPT ![p].nap = IF name = "sleep" THEN n ELSE 0]
    BY <1>x, <1>p DEF trap
  <1>3. p \in SpProcs /\ procs[p] \in Proc /\ x \in KThreads /\ name \in {"uptime", "sleep", "disk", "kill"}
    <2>1. p \in SpProcs /\ x \in KThreads  BY <1>1, <1>x, <1>p, RunOf
    <2> QED  BY <2>1, SpinConstants DEF SpInv, SpTypes
  <1>4. PICK ops \in Seq(Ops) : Plain(ops) /\ stack' = [stack EXCEPT ![x] = ops]
    <2>1. exit_end \in Seq(Ops) /\ Plain(exit_end) /\ check("user") \in Seq(Ops) /\ Plain(check("user"))  BY PlainCode
    <2>2. syscall(name) \o check("user") \in Seq(Ops) /\ Plain(syscall(name) \o check("user"))
      BY <1>3, <2>1, PlainSyscall, PlainCat
    <2>3. PICK ops : ops = IF procs[p].killed THEN exit_end ELSE syscall(name) \o check("user")  OBVIOUS
    <2>4. ops \in Seq(Ops) /\ Plain(ops)  BY <2>1, <2>2, <2>3
    <2> QED  BY <1>2, <2>3, <2>4
  <1>5. stack' = [stack EXCEPT ![x] = ops \o @]
    <2>1. ops \o <<>> = ops  BY ConcatEmptySeq
    <2>2. ops \o stack[x] = ops  BY <1>1, <2>1
    <2> QED  BY <1>4, <2>2
  <1>6. Wakes(ops) /\ NoBlock(ops) /\ NoBlock(stack[x])
    <2>1. NoBlock(stack[x])  BY <1>1 DEF NoBlock
    <2> QED  BY <1>4, <2>1, PlainWakes
  <1>7. procs[p].state = "RUNNING"
    <2>1. Mark(c) = {}
      <3>1. Mark(c) # {} => stack[Running(c)] # <<>>  BY OffTop
      <3> QED  BY <1>1, <1>x, <3>1
    <2> QED  BY <1>1, <1>p, <2>1, HoldOf
  <1>8. procs'[p].state = "RUNNING" /\ \A q \in SpProcs : q # p => procs'[q] = procs[q]
    BY <1>2, <1>3, <1>7 DEF Proc, SpInv, SpTypes
  <1>9. \A q \in SpProcs, l \in {"ticks", "ide"} : NotDue(q, l) => NotDue(q, l)' \/ (q = proc(c) /\ procs'[q].state # "SLEEPING")
    <2> TAKE q \in SpProcs, l \in {"ticks", "ide"}
    <2>1. CASE q = p  BY <1>p, <1>8, <2>1
    <2>2. CASE q # p  BY <1>1, <1>8, <2>2, SameDue
    <2> QED  BY <2>1, <2>2
  <1>10. \A q \in SpProcs : procs'[q].state = "SLEEPING" => procs[q].state = "SLEEPING" /\ procs'[q].chan = procs[q].chan
    BY <1>8
  <1>11. \A d \in SpCpus : Running(d)' = Running(d)  BY <1>1 DEF Running
  <1> QED  BY <1>x, <1>1, <1>5, <1>6, <1>9, <1>10, <1>11, PushSleep


LEMMA WakeupCode ==
    ASSUME NEW l \in {"ticks", "ide"}
    PROVE  wakeup(l) \in Seq(Ops) /\ Plain(wakeup(l)) /\ Has(wakeup(l), "wakeup1", l)
  <1>1. PICK o \in Ops : o = Op("wakeup1", l) /\ o.k = "wakeup1" /\ o.l = l
    <2>1. "wakeup1" \in Kinds /\ l \in Locks \cup {""}  BY DEF Kinds, Locks
    <2>2. Op("wakeup1", l) \in Ops /\ Op("wakeup1", l).k = "wakeup1" /\ Op("wakeup1", l).l = l  BY <2>1, OpIs
    <2> QED  BY <2>2
  <1>2. <<o>> \in Seq(Ops) /\ Plain(<<o>>) /\ Has(<<o>>, "wakeup1", l)
    <2>1. 1 \in DOMAIN <<o>> /\ <<o>>[1] = o  OBVIOUS
    <2> QED  BY <1>1, <2>1, PlainOne DEF Has
  <1>3. PICK b \in Seq(Ops) : b = <<o>> /\ Plain(b) /\ Has(b, "wakeup1", l)  BY <1>2
  <1>4. PICK a \in Seq(Ops), r \in Seq(Ops) : a = acquire("ptable") /\ r = release("ptable") /\ Plain(a) /\ Plain(r)
    <2>1. "ptable" \in Locks  BY DEF Locks
    <2> QED  BY <2>1, PlainCode
  <1>5. wakeup(l) = (a \o b) \o r  BY <1>1, <1>3, <1>4 DEF wakeup
  <1>6. a \o b \in Seq(Ops) /\ Plain(a \o b) /\ Has(a \o b, "wakeup1", l)
    BY <1>3, <1>4, PlainCat, AnyCat
  <1>7. (a \o b) \o r \in Seq(Ops) /\ Plain((a \o b) \o r) /\ Has((a \o b) \o r, "wakeup1", l)
    BY <1>4, <1>6, PlainCat, AnyCat
  <1> QED  BY <1>5, <1>7

\* What a handler does under its lock.
LEMMA HandlerWakes ==
    ASSUME NEW l \in {"ticks", "ide"}, NEW o \in Ops, o.k = IF l = "ticks" THEN "tick" ELSE "finish",
           NEW h, h = ((acquire(l) \o <<o>>) \o wakeup(l)) \o release(l)
    PROVE  h \in Seq(Ops) /\ Wakes(h) /\ NoBlock(h)
  <1>1. PICK a \in Seq(Ops), w \in Seq(Ops), r \in Seq(Ops) :
           /\ a = acquire(l) /\ w = wakeup(l) /\ r = release(l)
           /\ Plain(a) /\ Plain(w) /\ Plain(r) /\ Has(w, "wakeup1", l)
    <2>1. l \in Locks  BY DEF Locks
    <2> QED  BY <2>1, PlainCode, WakeupCode
  <1>2. PICK b \in Seq(Ops) : b = <<o>> /\ NoBlock(b) /\ \A i \in DOMAIN b : b[i].k = o.k
    <2>1. <<o>> \in Seq(Ops) /\ DOMAIN <<o>> = {1} /\ <<o>>[1] = o  OBVIOUS
    <2>2. NoBlock(<<o>>)  BY <2>1 DEF NoBlock
    <2> QED  BY <2>1, <2>2
  <1>3. PICK k \in {"tick", "finish"}, k2 \in {"tick", "finish"}, l2 \in {"ticks", "ide"} :
           o.k = k /\ k2 # k /\ l2 # l
    <2>1. CASE l = "ticks"  BY <2>1
    <2>2. CASE l = "ide"  BY <2>2
    <2> QED  BY <2>1, <2>2
  <1>4. PICK ab \in Seq(Ops) : ab = a \o b /\ NoBlock(ab)  BY <1>1, <1>2, AnyCat, Assoc, PlainWakes
  <1>5. Follows(ab, k2, l2)
    <2>1. Follows(a, k2, l2)  BY <1>1 DEF Plain, Follows
    <2>2. Follows(b, k2, l2)  BY <1>2, <1>3 DEF Follows
    <2> QED  BY <1>4, <2>1, <2>2, FollowsCat
  <1>6. Follows(w, k, l) /\ Follows(w, k2, l2)  BY <1>1 DEF Plain, Follows
  <1>7. PICK abw \in Seq(Ops) : abw = ab \o w /\ NoBlock(abw)  BY <1>1, <1>4, AnyCat, Assoc, PlainWakes
  <1>8. Follows(abw, k, l)  BY <1>1, <1>6, <1>7, FollowsCat
  <1>9. Follows(abw, k2, l2)  BY <1>5, <1>6, <1>7, FollowsCat
  <1>10. Wakes(abw)
    <2>1. CASE l = "ticks"
      <3>1. k = "tick" /\ k2 = "finish" /\ l2 = "ide"  BY <1>3, <2>1
      <3> QED  BY <1>8, <1>9, <2>1, <3>1, WakesIs
    <2>2. CASE l = "ide"
      <3>1. k = "finish" /\ k2 = "tick" /\ l2 = "ticks"  BY <1>3, <2>2
      <3> QED  BY <1>8, <1>9, <2>2, <3>1, WakesIs
    <2> QED  BY <2>1, <2>2
  <1>11. h = abw \o r  BY <1>1, <1>2, <1>4, <1>7
  <1>12. Wakes(r) /\ NoBlock(r)  BY <1>1, PlainWakes
  <1>13. Wakes(abw \o r)  BY <1>10, <1>12, WakesCat
  <1>14. NoBlock(abw \o r) /\ abw \o r \in Seq(Ops)  BY <1>7, <1>12, AnyCat, Assoc
  <1> QED  BY <1>11, <1>13, <1>14

Sound(s) == s \in Seq(Ops) /\ Wakes(s) /\ NoBlock(s)
LEMMA SoundCat ==
    ASSUME NEW a, NEW b, Sound(a), Sound(b)
    PROVE  Sound(a \o b)
  BY WakesCat, AnyCat, Assoc DEF Sound

LEMMA SoundPlain ==
    ASSUME NEW a \in Seq(Ops), Plain(a)
    PROVE  Sound(a)
  BY PlainWakes DEF Sound

LEMMA TimerSound ==
    ASSUME NEW c, NEW from
    PROVE  Sound(timer(c, from)) /\ Sound(ideintr(from))
  <1>1. Sound(<<>>) /\ Sound(check(from))  BY PlainCode, SoundPlain
  <1>2. Sound(<<Op("preempt", "")>>) /\ Sound(<<Op("iret", "")>>)  BY PlainOp, SoundPlain
  <1>3. Sound(((acquire("ticks") \o <<Op("tick", "")>>) \o wakeup("ticks")) \o release("ticks"))
    <2>1. PICK o \in Ops : o = Op("tick", "") /\ o.k = "tick"
      <3>1. "tick" \in Kinds /\ "" \in Locks \cup {""}  BY DEF Kinds
      <3>2. Op("tick", "") \in Ops /\ Op("tick", "").k = "tick"  BY <3>1, OpIs
      <3> QED  BY <3>2
    <2>2. PICK h : h = ((acquire("ticks") \o <<o>>) \o wakeup("ticks")) \o release("ticks")  OBVIOUS
    <2>3. Sound(h)  BY <2>1, <2>2, HandlerWakes DEF Sound
    <2> QED  BY <2>1, <2>2, <2>3
  <1>4. Sound(((acquire("ide") \o <<Op("finish", "")>>) \o wakeup("ide")) \o release("ide"))
    <2>1. PICK o \in Ops : o = Op("finish", "") /\ o.k = "finish"
      <3>1. "finish" \in Kinds /\ "" \in Locks \cup {""}  BY DEF Kinds
      <3>2. Op("finish", "") \in Ops /\ Op("finish", "").k = "finish"  BY <3>1, OpIs
      <3> QED  BY <3>2
    <2>2. PICK h : h = ((acquire("ide") \o <<o>>) \o wakeup("ide")) \o release("ide")  OBVIOUS
    <2>3. Sound(h)
      <3>1. "ide" # "ticks"  OBVIOUS
      <3> QED  BY <2>1, <2>2, <3>1, HandlerWakes DEF Sound
    <2> QED  BY <2>1, <2>2, <2>3
  <1> DEFINE h == IF c = 1 THEN acquire("ticks") \o <<Op("tick", "")>> \o wakeup("ticks") \o release("ticks") ELSE <<>>
             y == IF proc(c) # 0 THEN <<Op("preempt", "")>> ELSE <<>>
  <1>5. Sound(h) /\ Sound(y)  BY <1>1, <1>2, <1>3
  <1>6. timer(c, from) = (((h \o check(from)) \o y) \o check(from)) \o <<Op("iret", "")>>  BY DEF timer
  <1> HIDE DEF h, y
  <1>7. Sound((h \o check(from)) \o y)  BY <1>1, <1>5, SoundCat
  <1>8. Sound(timer(c, from))  BY <1>1, <1>2, <1>6, <1>7, SoundCat
  <1>9. Sound(ideintr(from))
    <2>1. PICK g : g = ((acquire("ide") \o <<Op("finish", "")>>) \o wakeup("ide")) \o release("ide") /\ Sound(g)
      BY <1>4
    <2>2. ideintr(from) = (g \o check(from)) \o <<Op("iret", "")>>  BY <2>1 DEF ideintr
    <2> QED  BY <1>1, <1>2, <2>1, <2>2, SoundCat
  <1> QED  BY <1>8, <1>9

LEMMA IrqSleep ==
    ASSUME SpInv, SleepInv, NEW c \in SpCpus, IrqTimer(c) \/ IrqIde(c)
    PROVE  SleepInv'
  <1>x. PICK x : x = Running(c)  OBVIOUS
  <1>1. PICK ops \in Seq(Ops) : Interrupted(c, ops) /\ Wakes(ops) /\ NoBlock(ops)
    <2>1. CASE IrqTimer(c)
      <3>1. PICK ops : ops = timer(c, From(c))  OBVIOUS
      <3>2. Sound(ops)  BY <3>1, TimerSound
      <3> QED  BY <2>1, <3>1, <3>2 DEF IrqTimer, Sound
    <2>2. CASE IrqIde(c)
      <3>1. PICK ops : ops = ideintr(From(c))  OBVIOUS
      <3>2. Sound(ops)  BY <3>1, TimerSound
      <3> QED  BY <2>2, <3>1, <3>2 DEF IrqIde, Sound
    <2> QED  BY <2>1, <2>2
  <1>2. clock'.ticks = clock.ticks
    <2>1. clock' = clock \/ clock' = [clock EXCEPT !.timers = @ + 1]  BY DEF IrqTimer, IrqIde
    <2> QED  BY <2>1 DEF SpInv, SpTypes
  <1>3. /\ cpu[c].ifl /\ stack' = [stack EXCEPT ![x] = ops \o @] /\ cpu' = [cpu EXCEPT ![c].ifl = FALSE]
        /\ UNCHANGED <<lock, procs, panic>>
    BY <1>x, <1>1 DEF Interrupted
  <1>4. NoBlock(stack[x])  BY <1>x, <1>3, NoBlockAt
  <1>5. \A d \in SpCpus : Running(d)' = Running(d)
    <2>1. PICK r : r = [cpu[c] EXCEPT !.ifl = FALSE]  OBVIOUS
    <2>2. cpu \in [SpCpus -> Cpu]  BY DEF SpInv, SpTypes
    <2>3. r.on = cpu[c].on  BY <2>1, <2>2 DEF Cpu
    <2>4. cpu' = [cpu EXCEPT ![c] = r]  BY <1>3, <2>1, <2>2
    <2> QED  BY ONLY <2>2, <2>3, <2>4 DEF Running
  <1>6. \A p \in SpProcs, l \in {"ticks", "ide"} : NotDue(p, l) => NotDue(p, l)'
    BY <1>2, <1>3, SameDue
  <1> QED  BY <1>x, <1>1, <1>3, <1>4, <1>5, <1>6, PushSleep
-----------------------------------------------------------------------------
(* Sleeping and waking: another thread *)
LEMMA SwtchSleep ==
    ASSUME SpInv, SleepInv, NEW c \in SpCpus, swtch(c)
    PROVE  SleepInv'
  <1>x. PICK x : x = Running(c)  OBVIOUS
  <1>y. PICK y : y = Sched(c)  OBVIOUS
  <1>1. /\ stack[Running(c)] # <<>> /\ Next1(c).k = "swtch" /\ UNCHANGED <<lock, procs, clock, panic>>
        /\ cpu' = [cpu EXCEPT ![c] = [cpu[c] EXCEPT !.on = y]]
    BY <1>y DEF swtch, Top, OnlyCpu
  <1>2. x \in KThreads /\ x[1] = "proc" /\ y \in KThreads /\ y[1] = "cpu" /\ y # x
    <2>1. PICK K : Trans(Running(c)[1], Next1(c), Hold(c), K)  BY <1>1, NextOf
    <2>2. Running(c)[1] = "proc"  BY <1>1, <2>1 DEF Trans, Acquiring, Releasing, Switching
    <2> QED  BY <1>x, <1>y, <2>2, RunOf, ThreadOf
  <1>3. Running(c)' = y /\ \A d \in SpCpus : d # c => Running(d)' = Running(d)
    <2>1. PICK r : r = [cpu[c] EXCEPT !.on = y]  OBVIOUS
    <2>2. cpu \in [SpCpus -> Cpu]  BY DEF SpInv, SpTypes
    <2>3. r.on = y  BY <2>1, <2>2 DEF Cpu
    <2>4. cpu' = [cpu EXCEPT ![c] = r]  BY <1>1, <2>1
    <2> QED  BY ONLY <2>2, <2>3, <2>4, c \in SpCpus DEF Running
  <1>4. \A d \in SpCpus : Running(d) # y
    <2> SUFFICES ASSUME NEW d \in SpCpus, Running(d) = y  PROVE FALSE  OBVIOUS
    <2>1. Running(d) = Sched(d)  BY <1>2 DEF SpInv, OnOne
    <2>2. d = c  BY <1>y, <2>1 DEF Sched
    <2> QED  BY <1>x, <1>2, <2>2
  <1>5. PICK o2 \in Ops : Go(c, <<o2>>) /\ o2.k = "intena"
    <2>1. PICK v \in {"on", "off"} : v = IF cpu[c].intena THEN "on" ELSE "off"  OBVIOUS
    <2>2. PICK o2 : o2 = [k |-> "intena", l |-> "", v |-> v]  OBVIOUS
    <2>3. o2 \in Ops /\ o2.k = "intena"
      <3>1. "intena" \in Kinds  BY DEF Kinds
      <3> QED  BY <2>1, <2>2, <3>1 DEF Ops
    <2>4. Go(c, <<o2>>)  BY <2>1, <2>2 DEF swtch
    <2> QED  BY <2>3, <2>4
  <1>6. <<o2>> \in Seq(Ops) /\ Wakes(<<o2>>) /\ NoBlock(<<o2>>)
    <2>1. <<o2>> \in Seq(Ops) /\ Plain(<<o2>>)  BY <1>5, PlainOne
    <2> QED  BY <2>1, PlainWakes
  <1>7. NoBlock(stack[x])
    <2>1. ~Acquiring(Next1(c)) /\ ~Releasing(Next1(c)) /\ Next1(c).k \notin {"block", "unlock"}
      BY <1>1 DEF Acquiring, Releasing
    <2> QED  BY <1>x, <2>1, NoBlockAt
  <1>8. PICK ops \in Seq(Ops) : Go(c, ops) /\ Wakes(ops) /\ NoBlock(ops)  BY <1>5, <1>6
  <1>9. /\ \A z \in KThreads : z # x => stack'[z] = stack[z]
        /\ Wakes(stack'[x])
        /\ \A l : Waking(l) => Waking(l)' \/ (Next1(c).k = "wakeup1" /\ Next1(c).l = l)
        /\ NoBlock(stack[x]) /\ NoBlock(ops) => NoBlock(stack'[x])
    BY ONLY SpInv, SleepInv, c \in SpCpus, ops \in Seq(Ops), <1>x, <1>1, <1>8, GoWakes
  <1>10. \A l \in {"ticks", "ide"} : Waking(l) => Waking(l)'  BY <1>1, <1>9
  <1>11. \A p \in SpProcs, l \in {"ticks", "ide"} : NotDue(p, l) => NotDue(p, l)'  BY <1>1, SameDue
  <1>12. \A i \in DOMAIN stack'[x] : stack'[x][i].k # "block"  BY <1>7, <1>8, <1>9 DEF NoBlock
  <1>13. \A p \in SpProcs : procs'[p].state = "SLEEPING" => procs[p].state = "SLEEPING" /\ procs'[p].chan = procs[p].chan
    BY <1>1
  <1>14. \A d \in SpCpus, l \in Locks : d # c /\ lock[l].cpu = d => lock'[l].cpu = d  BY <1>1
  <1>15. Running(c)' \in KThreads /\ (Running(c)' # x => \A d \in SpCpus : Running(d) # Running(c)')
    BY <1>2, <1>3, <1>4
  <1> QED  BY <1>x, <1>2, <1>3, <1>9, <1>10, <1>11, <1>12, <1>13, <1>14, <1>15, SleepStep

LEMMA ScanSleep ==
    ASSUME SpInv, SleepInv, NEW c \in SpCpus, Scan(c)
    PROVE  SleepInv'
  <1>x. PICK x : x = Running(c)  OBVIOUS
  <1> DEFINE ready == {p \in SpProcs : p >= cpu[c].p /\ procs[p].state = "RUNNABLE"}
  <1>1. stack[Running(c)] # <<>> /\ Next1(c).k = "scan" /\ UNCHANGED <<lock, clock, panic>>
    BY DEF Scan, Top, OnlyCpu
  <1>2. \/ ready = {} /\ Go(c, <<>>) /\ OnlyCpu(c, [cpu[c] EXCEPT !.p = 1])
        \/ /\ ready # {}
           /\ cpu' = [cpu EXCEPT ![c].on = Thread(Min(ready)), ![c].p = Min(ready) + 1]
           /\ procs' = [procs EXCEPT ![Min(ready)].state = "RUNNING"] /\ stack' = stack
    BY DEF Scan
  <1>t. cpu \in [SpCpus -> Cpu] /\ procs \in [SpProcs -> Proc]  BY DEF SpInv, SpTypes
  <1>3. CASE ready = {} /\ Go(c, <<>>) /\ OnlyCpu(c, [cpu[c] EXCEPT !.p = 1])
    <2>1. PICK r : r = [cpu[c] EXCEPT !.p = 1]  OBVIOUS
    <2>2. r.on = cpu[c].on  BY <1>t, <2>1 DEF Cpu
    <2>3. cpu' = [cpu EXCEPT ![c] = r] /\ procs' = procs  BY <1>3, <2>1 DEF OnlyCpu
    <2>4. \A d \in SpCpus : Running(d)' = Running(d)  BY ONLY <1>t, <2>2, <2>3 DEF Running
    <2>5. PICK ops \in Seq(Ops) : Plain(ops) /\ Go(c, ops)  BY <1>3, PlainCode
    <2> QED  BY ONLY SpInv, SleepInv, c \in SpCpus, ops \in Seq(Ops), <1>1, <2>3, <2>4, <2>5, PlainSleep
  <1>4. CASE /\ ready # {}
             /\ cpu' = [cpu EXCEPT ![c].on = Thread(Min(ready)), ![c].p = Min(ready) + 1]
             /\ procs' = [procs EXCEPT ![Min(ready)].state = "RUNNING"] /\ stack' = stack
    <2>1. PICK p \in ready : p = Min(ready)
      <3>1. ready \subseteq Nat  BY SpinConstants
      <3>2. \E m \in ready : \A n \in ready : m <= n  BY <1>4, <3>1, Least
      <3> HIDE DEF ready
      <3> QED  BY <3>2 DEF Min
    <2>2. p \in SpProcs /\ procs[p].state = "RUNNABLE" /\ p \in Nat \ {0}  BY <2>1, SpinConstants
    <2>y. PICK y : y = Thread(p)  OBVIOUS
    <2>z. PICK z : z = p + 1  OBVIOUS
    <2>3. cpu' = [cpu EXCEPT ![c].on = y, ![c].p = z] /\ procs' = [procs EXCEPT ![p].state = "RUNNING"] /\ stack' = stack
      BY <1>4, <2>1, <2>y, <2>z
    <2> HIDE DEF ready
    <2>4. \A l : l \in {"ptable"} => l \in Hold(c)
      <3>1. PICK K : Trans(Running(c)[1], Next1(c), Hold(c), K)  BY <1>1, NextOf
      <3> QED  BY <1>1, <3>1 DEF Trans, Acquiring, Releasing, Switching
    <2>5. Running(c)[1] = "cpu" /\ y \in KThreads /\ y[1] = "proc" /\ y[2] = p
      <3>1. PICK K : Trans(Running(c)[1], Next1(c), Hold(c), K)  BY <1>1, NextOf
      <3>2. Running(c)[1] = "cpu"  BY <1>1, <3>1 DEF Trans, Acquiring, Releasing, Switching
      <3> QED  BY <2>2, <2>y, <3>2, ThreadOf
    <2>6. \A d \in SpCpus : Running(d) # y
      <3> SUFFICES ASSUME NEW d \in SpCpus, Running(d) = y  PROVE FALSE  OBVIOUS
      <3>1. d # c  BY <2>5
      <3>2. proc(d) = p /\ proc(d) # 0  BY <2>2, <2>5 DEF proc
      <3>3. "ptable" \in Hold(c)  BY <2>4
      <3>4. procs[proc(d)].state = "RUNNING"  BY <3>1, <3>2, <3>3, OthersRun
      <3> QED  BY <2>2, <3>2, <3>4
    <2>7. Running(c)' = y /\ \A d \in SpCpus : d # c => Running(d)' = Running(d)
      <3>1. PICK r : r = [cpu[c] EXCEPT !.on = y, !.p = z]  OBVIOUS
      <3>2. r.on = y  BY <1>t, <3>1 DEF Cpu
      <3>3. cpu' = [cpu EXCEPT ![c] = r]  BY <1>t, <2>3, <3>1
      <3> QED  BY ONLY <1>t, <3>2, <3>3, c \in SpCpus DEF Running
    <2>8. /\ procs'[p].state = "RUNNING" /\ procs'[p].nap = procs[p].nap /\ procs'[p].ticks0 = procs[p].ticks0
          /\ procs'[p].request = procs[p].request
          /\ \A q \in SpProcs : q # p => procs'[q] = procs[q]
      BY <1>t, <2>2, <2>3 DEF Proc
    <2>9. \A q \in SpProcs, l \in {"ticks", "ide"} : NotDue(q, l) => NotDue(q, l)'
      <3> TAKE q \in SpProcs, l \in {"ticks", "ide"}
      <3>1. procs'[q].nap = procs[q].nap /\ procs'[q].ticks0 = procs[q].ticks0 /\ procs'[q].request = procs[q].request
        BY <2>8
      <3> QED  BY <1>1, <3>1, SameDue
    <2>10. \A q \in SpProcs : procs'[q].state = "SLEEPING" => procs[q].state = "SLEEPING" /\ procs'[q].chan = procs[q].chan
      BY <2>8
    <2>11. \A l \in {"ticks", "ide"} : Waking(l) => Waking(l)'  BY <2>3 DEF Waking
    <2>12. NoBlock(stack[x])
      <3>1. ~Acquiring(Next1(c)) /\ ~Releasing(Next1(c)) /\ Next1(c).k \notin {"block", "unlock"}
        BY <1>1 DEF Acquiring, Releasing
      <3> QED  BY <1>x, <3>1, NoBlockAt
    <2>13. \A i \in DOMAIN stack'[x] : stack'[x][i].k # "block"  BY <2>3, <2>12 DEF NoBlock
    <2>14. x \in KThreads /\ Wakes(stack'[x]) /\ \A w \in KThreads : w # x => stack'[w] = stack[w]
      <3>1. x \in KThreads  BY <1>x, RunOf
      <3>2. Wakes(stack[x])  BY <3>1 DEF SleepInv
      <3> QED  BY <2>3, <3>1, <3>2
    <2>15. \A d \in SpCpus, l \in Locks : d # c /\ lock[l].cpu = d => lock'[l].cpu = d  BY <1>1
    <2>16. Running(c)' \in KThreads /\ (Running(c)' # x => \A d \in SpCpus : Running(d) # Running(c)')
      BY <2>5, <2>6, <2>7
    <2> QED  BY <1>x, <2>7, <2>9, <2>10, <2>11, <2>13, <2>14, <2>15, <2>16, SleepStep
  <1> QED  BY <1>2, <1>3, <1>4
-----------------------------------------------------------------------------
LEMMA SleepInvInit == SpInit => SleepInv
  <1> SUFFICES ASSUME SpInit PROVE SleepInv  OBVIOUS
  <1>1. \A x \in KThreads : Sound(stack[x])
    <2>1. Sound(forkret)  BY PlainCode, SoundPlain
    <2>2. Sound(<<Op("sti", "")>>)
      <3>1. "sti" \in Kinds /\ "" \in Locks \cup {""}  BY DEF Kinds
      <3>2. Op("sti", "") \in Ops /\ Op("sti", "").k = "sti"  BY <3>1, OpIs
      <3> QED  BY <3>2, PlainOne, SoundPlain
    <2> QED  BY <2>1, <2>2 DEF SpInit
  <1>2. \A c \in SpCpus : Running(c) \in KThreads  BY ThreadOf DEF SpInit, Running
  <1>3. \A p \in SpProcs : procs[p].state # "SLEEPING"  BY DEF SpInit
  <1> QED  BY <1>1, <1>2, <1>3 DEF SleepInv, Sound, NoBlock

LEMMA SleepInvNext == SpInv /\ SpInv' /\ SleepInv /\ [SpNext]_spVars => SleepInv'
  <1> SUFFICES ASSUME SpInv, SpInv', SleepInv, [SpNext]_spVars PROVE SleepInv'  OBVIOUS
  <1>1. CASE UNCHANGED spVars
    <2>1. UNCHANGED <<cpu, stack, lock, procs, clock, panic>>  BY <1>1 DEF spVars
    <2>2. \A c : Running(c)' = Running(c) /\ proc(c)' = proc(c)  BY <2>1 DEF Running, proc
    <2>3. /\ \A p, l : NotDue(p, l)' <=> NotDue(p, l)
          /\ \A l : Waking(l)' <=> Waking(l)
      BY <2>1 DEF NotDue, Elapsed, Waking
    <2>4. \A c, i : Going(c, i)' <=> Going(c, i)  BY <2>1, <2>2, <2>3 DEF Going
    <2>5. \A p : (NotDue(p, procs[p].chan) \/ Waking(procs[p].chan))' <=> NotDue(p, procs[p].chan) \/ Waking(procs[p].chan)
      BY <2>1, <2>3 DEF NotDue, Elapsed, Waking
    <2> QED  BY <2>1, <2>2, <2>4, <2>5 DEF SleepInv
  <1>2. ASSUME NEW c \in SpCpus, Step(c)  PROVE SleepInv'
    BY <1>2, PushcliSleep, HeldSleep, XchgSleep, OwnSleep, DisownSleep, UnlockSleep, SwtchSleep, FlagSleep,
       ScanSleep, ChangesSleep, TickSleep, NapSleep, CheckSleep, TrapSleep
       DEF Step
  <1>3. ASSUME NEW c \in SpCpus, IrqTimer(c) \/ IrqIde(c)  PROVE SleepInv'
    BY <1>3, IrqSleep
  <1> QED  BY <1>1, <1>2, <1>3 DEF SpNext

LEMMA SleepersFollow == SleepInv => SleepersDue
  <1> SUFFICES ASSUME SleepInv, NEW p \in SpProcs, procs[p].state = "SLEEPING"
               PROVE  \/ procs[p].chan = "ticks" /\ (Elapsed(p) < procs[p].nap % 2 ^ SpWidth \/ Waking("ticks"))
                      \/ procs[p].chan = "ide" /\ (procs[p].request = "busy" \/ Waking("ide"))
    BY DEF SleepersDue
  <1>1. procs[p].chan \in {"ticks", "ide"} /\ (NotDue(p, procs[p].chan) \/ Waking(procs[p].chan))
    BY DEF SleepInv
  <1> QED  BY <1>1 DEF NotDue

\* acquire and release are balanced on every path, through sleep, swtch and
\* interrupts, and nobody sleeps on ticks or on a disk request without a
\* wakeup to come (spinlock.c, trap.c, sched, sleep and wakeup1 of proc.c).
THEOREM LocksRight == SpSpec => []LocksSound
  <1>1. SpInit => SpInv /\ SleepInv  BY SpInvInit, SleepInvInit
  <1>2. (SpInv /\ SleepInv) /\ [SpNext]_spVars => (SpInv /\ SleepInv)'  BY SpInvNext, SleepInvNext
  <1>3. SpInv /\ SleepInv => LocksSound
    BY UsedRight, FlagsFollow, BackFollows, SleepersFollow DEF LocksSound
  <1> QED  BY <1>1, <1>2, <1>3, PTL DEF SpSpec
=============================================================================
