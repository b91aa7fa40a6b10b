--------------------------------- MODULE Vm ---------------------------------
(***************************************************************************)
(* Memory of processes and threads in xv6: kalloc.c, vm.c, exec.c, and     *)
(* what fork, sbrk, thread_create, thread_join, exit and wait of proc.c do *)
(* with pages.  A system call is one step.  Sizes and addresses count      *)
(* bytes, with PGSIZE bytes to a page and NPTE entries to a page table;    *)
(* the kernel's part of a page table takes KTABS pages of tables.          *)
(***************************************************************************)
EXTENDS Integers, FiniteSets, Sequences, SequencesExt, FiniteSetsExt, Functions, TLC

CONSTANTS NPAGES,        \* physical pages
          PGSIZE,
          NPTE,          \* entries of a page table
          NPDE,          \* entries of a page directory for user memory
          KTABS,
          VmProcs,       \* slots of ptable, 1 .. n; slot 1 holds the first process
          VmGrow,        \* arguments of sbrk, positive
          VmShrink,      \* arguments of sbrk, negative, without their sign
          VmSegs,        \* programs: the sequence of the ends of their segments
          VmArgs,        \* bytes of the arguments on the new stack
          VmMix,         \* FALSE: a program with threads does nothing but join them
          VmCalls        \* bound on the system calls

VARIABLES kmem,          \* the free list
          dirs,          \* the page directories: page -> its tables, entries and kernel tables
          ptable,        \* the processes
          vm             \* whether the kernel panicked, ran out of tables; and the calls

vmVars == <<kmem, dirs, ptable, vm>>

KERNBASE == NPDE * NPTE * PGSIZE
PGROUNDUP(a) == ((a + PGSIZE - 1) \div PGSIZE) * PGSIZE
Vpns(from, to) == [i \in 1 .. (PGROUNDUP(to) - PGROUNDUP(from)) \div PGSIZE |-> PGROUNDUP(from) \div PGSIZE + i - 1]
Without(f, S) == Restrict(f, DOMAIN f \ S)
NoProc == [state |-> "UNUSED", pgdir |-> 0, sz |-> 0, kstack |-> 0, parent |-> 0,
           isThread |-> FALSE, tid |-> 0, ustack |-> 0, t |-> {}]
-----------------------------------------------------------------------------
(* m is the memory: [free, dirs, panic, starved].  An operation that returns *)
(* a value has it in the field ret.                                          *)
\* The free list is kept in order of address: which free page kalloc takes is
\* of no consequence.
kfree(m, v) == [m EXCEPT !.free = SelectSeq(@, LAMBDA x : x < v) \o <<v>> \o SelectSeq(@, LAMBDA x : x >= v)]
kalloc(m) == [m EXCEPT !.free = IF @ = <<>> THEN @ ELSE Tail(@)]
Page(m) == IF m.free = <<>> THEN 0 ELSE Head(m.free)
Panic(m) == [m EXCEPT !.panic = TRUE]

\* walkpgdir with alloc set: the table of page v of directory d.
walkpgdir(m, d, v) ==
    IF v \div NPTE \in DOMAIN m.dirs[d].pde THEN [m |-> m, ret |-> TRUE]
    ELSE IF Page(m) = 0 THEN [m |-> [m EXCEPT !.starved = TRUE], ret |-> FALSE]
    ELSE [m |-> [kalloc(m) EXCEPT !.dirs[d].pde = (v \div NPTE :> Page(m)) @@ @], ret |-> TRUE]
\* mappages of one page; u is PTE_U.
mappages(m, d, v, pa, u) ==
    LET w == walkpgdir(m, d, v)
    IN  IF ~w.ret THEN w
        ELSE IF v \in DOMAIN w.m.dirs[d].pte THEN [m |-> Panic(w.m), ret |-> FALSE]
        ELSE [m |-> [w.m EXCEPT !.dirs[d].pte = (v :> [pa |-> pa, u |-> u]) @@ @], ret |-> TRUE]

\* Mutant: an entry keeps the page that was freed.
deallocuvm_stale(m, d, oldsz, newsz) ==
    IF newsz >= oldsz THEN [m |-> m, ret |-> oldsz]
    ELSE [m |-> FoldLeft(LAMBDA x, v : IF v \notin DOMAIN x.dirs[d].pte THEN x ELSE kfree(x, x.dirs[d].pte[v].pa),
                         m, Vpns(newsz, oldsz)),
          ret |-> newsz]

deallocuvm(m, d, oldsz, newsz) ==
    IF newsz >= oldsz THEN [m |-> m, ret |-> oldsz]
    ELSE [m |-> FoldLeft(LAMBDA x, v : IF v \notin DOMAIN x.dirs[d].pte THEN x
                                       ELSE [kfree(x, x.dirs[d].pte[v].pa) EXCEPT !.dirs[d].pte = Without(@, {v})],
                         m, Vpns(newsz, oldsz)),
          ret |-> newsz]

\* Mutant: the pages allocated before the failure are kept.
allocuvm_kept(m, d, oldsz, newsz) ==
    LET Grow(x, v) ==
            LET w == mappages(kalloc(x.m), d, v, Page(x.m), TRUE)
            IN  IF x.ret = 0 \/ x.m.panic THEN x
                ELSE IF Page(x.m) = 0 THEN [m |-> x.m, ret |-> 0]
                ELSE IF w.ret \/ w.m.panic THEN [x EXCEPT !.m = w.m]
                ELSE [m |-> kfree(w.m, Page(x.m)), ret |-> 0]
    IN  IF newsz >= KERNBASE THEN [m |-> m, ret |-> 0]
        ELSE IF newsz < oldsz THEN [m |-> m, ret |-> oldsz]
        ELSE FoldLeft(Grow, [m |-> m, ret |-> newsz], Vpns(oldsz, newsz))

allocuvm(m, d, oldsz, newsz) ==
    LET Undo(x) == deallocuvm(x, d, newsz, oldsz).m
        Grow(x, v) ==
            LET w == mappages(kalloc(x.m), d, v, Page(x.m), TRUE)
            IN  IF x.ret = 0 \/ x.m.panic THEN x
                ELSE IF Page(x.m) = 0 THEN [m |-> Undo(x.m), ret |-> 0]
                ELSE IF w.ret \/ w.m.panic THEN [x EXCEPT !.m = w.m]
                ELSE [m |-> kfree(Undo(w.m), Page(x.m)), ret |-> 0]
    IN  IF newsz >= KERNBASE THEN [m |-> m, ret |-> 0]
        ELSE IF newsz < oldsz THEN [m |-> m, ret |-> oldsz]
        ELSE FoldLeft(Grow, [m |-> m, ret |-> newsz], Vpns(oldsz, newsz))

freevm(m, d) ==
    LET x == deallocuvm(m, d, KERNBASE, 0).m
        y == FoldSet(LAMBDA v, z : kfree(z, v), x, Range(x.dirs[d].pde) \cup x.dirs[d].kern)
    IN  kfree([y EXCEPT !.dirs = Without(@, {d})], d)

\* setupkvm: a directory with the kernel's tables.  Where a table is missing,
\* the pages taken so far are not given back.
setupkvm(m) ==
    LET n == IF Len(m.free) < KTABS + 1 THEN Len(m.free) ELSE KTABS + 1
        got == [m EXCEPT !.free = SubSeq(@, n + 1, Len(@)), !.starved = @ \/ (n <= KTABS /\ n > 0)]
    IN  IF n <= KTABS THEN [m |-> got, ret |-> 0]
        ELSE [m |-> [got EXCEPT !.dirs = (Head(m.free) :> [pde |-> <<>>, pte |-> <<>>,
                                                           kern |-> ToSet(SubSeq(m.free, 2, n))]) @@ @],
              ret |-> Head(m.free)]

copyuvm(m, s, sz) ==
    LET k == setupkvm(m)
        Copy(x, v) ==
            LET w == mappages(kalloc(x.m), k.ret, v, Page(x.m), x.m.dirs[s].pte[v].u)
            IN  IF x.ret = 0 \/ x.m.panic THEN x
                ELSE IF v \notin DOMAIN x.m.dirs[s].pte THEN [x EXCEPT !.m = Panic(@)]
                ELSE IF Page(x.m) = 0 THEN [m |-> freevm(x.m, k.ret), ret |-> 0]
                ELSE IF w.ret THEN [x EXCEPT !.m = w.m]
                ELSE [m |-> freevm(w.m, k.ret), ret |-> 0]    \* without the page just taken
    IN  IF k.ret = 0 THEN k ELSE FoldLeft(Copy, k, Vpns(0, sz))
-----------------------------------------------------------------------------
(* System calls *)
Mem == [free |-> kmem, dirs |-> dirs, panic |-> vm.panic, starved |-> vm.starved]
Becomes(m, pt) ==
    /\ kmem' = m.free /\ dirs' = m.dirs /\ ptable' = pt
    /\ vm' = [vm EXCEPT !.panic = m.panic, !.starved = m.starved, !.calls = @ + 1]

Threads(p) == {q \in VmProcs : ptable[q].isThread /\ ptable[q].parent = p /\ ptable[q].state # "UNUSED"}
Kids(p) == {q \in VmProcs : ptable[q].parent = p /\ ~ptable[q].isThread}
\* p can make a call: it runs, and the page with its code is mapped.
CallsOf(p) == /\ vm.calls < VmCalls /\ ~vm.panic
              /\ ptable[p].state = "RUNNABLE" /\ 0 \in DOMAIN dirs[ptable[p].pgdir].pte
\* What a program with threads does besides creating and joining them.
Frees(p) == VmMix \/ (~ptable[p].isThread /\ Threads(p) = {})

VmInit ==
    /\ kmem = [i \in 1 .. NPAGES - KTABS - 4 |-> KTABS + 4 + i]
    /\ dirs = (1 :> [pde |-> (0 :> 2), pte |-> (0 :> [pa |-> 3, u |-> TRUE]), kern |-> 4 .. 3 + KTABS])
    /\ ptable = [p \in VmProcs |-> IF p = 1 THEN [NoProc EXCEPT !.state = "RUNNABLE", !.pgdir = 1, !.sz = PGSIZE,
                                                                !.kstack = 4 + KTABS]
                                   ELSE NoProc]
    /\ vm = [panic |-> FALSE, starved |-> FALSE, calls |-> 0]

\* allocproc: the first free slot, or 0.
Slot == LET free == {q \in VmProcs : ptable[q].state = "UNUSED"} IN IF free = {} THEN 0 ELSE Min(free)
Allocproc(np, m) == [ptable[np] EXCEPT !.state = "EMBRYO", !.kstack = Page(m)]

fork(p) ==
    LET np == Slot
        c == copyuvm(kalloc(Mem), ptable[p].pgdir, ptable[p].sz)
    IN  /\ CallsOf(p) /\ Frees(p) /\ np # 0 /\ Page(Mem) # 0
        /\ IF c.ret = 0 /\ ~c.m.panic
           THEN Becomes(kfree(c.m, Page(Mem)), [ptable EXCEPT ![np].kstack = 0, ![np].pgdir = 0])
           ELSE Becomes(c.m, [ptable EXCEPT ![np] = [Allocproc(np, Mem) EXCEPT
                                 !.pgdir = c.ret, !.sz = ptable[p].sz, !.parent = p, !.state = "RUNNABLE"]])

\* growproc; a size that would be negative wraps and changes nothing.
sbrk(p, n) ==
    LET a == allocuvm(Mem, ptable[p].pgdir, ptable[p].sz, ptable[p].sz + n)
    IN  /\ CallsOf(p) /\ Frees(p)
        /\ Becomes(a.m, IF a.ret = 0 THEN ptable ELSE [ptable EXCEPT ![p].sz = a.ret])
sbrkDown(p, n) ==
    LET d == deallocuvm(Mem, ptable[p].pgdir, ptable[p].sz, ptable[p].sz - n)
    IN  /\ CallsOf(p) /\ Frees(p) /\ n <= ptable[p].sz
        /\ Becomes(d.m, IF d.ret = 0 THEN ptable ELSE [ptable EXCEPT ![p].sz = d.ret])

\* exec of a program with segments up to the given ends; loads says whether
\* the file could be read and args how many bytes the arguments take.
exec(p, segs, loads, args) ==
    LET k == setupkvm(Mem)
        Seg(x, end) == IF x.ret = 0 THEN x
                       ELSE LET a == allocuvm(x.m, k.ret, x.sz, end) IN [m |-> a.m, ret |-> a.ret, sz |-> a.ret]
        text == FoldLeft(Seg, [m |-> k.m, ret |-> 1, sz |-> 0], segs)
        base == PGROUNDUP(text.sz)
        stack == allocuvm(text.m, k.ret, base, base + 2 * PGSIZE)
        guarded == [stack.m EXCEPT !.dirs[k.ret].pte[base \div PGSIZE].u = FALSE]
        Fails(m) == Becomes(freevm(m, k.ret), ptable)
    IN  /\ CallsOf(p) /\ Frees(p)
        /\ IF k.ret = 0 THEN Becomes(k.m, ptable)
           ELSE IF text.ret = 0 \/ ~loads THEN Fails(text.m)
           ELSE IF stack.ret = 0 THEN Fails(stack.m)
           ELSE IF args > PGSIZE THEN Fails(guarded)         \* copyout meets the guard page
           ELSE Becomes(freevm(guarded, ptable[p].pgdir),
                        [ptable EXCEPT ![p].pgdir = k.ret, ![p].sz = stack.ret])

thread_create(p) ==
    LET np == Slot
        m == kalloc(Mem)
        tid == Min(0 .. Cardinality(ptable[p].t) \ ptable[p].t)
        ba == ptable[p].sz + tid * PGSIZE
        a == allocuvm(m, ptable[p].pgdir, ba, ba + PGSIZE)
        new == [Allocproc(np, Mem) EXCEPT !.pgdir = ptable[p].pgdir, !.parent = p, !.isThread = TRUE,
                                          !.tid = tid, !.ustack = ba + PGSIZE]
    IN  /\ CallsOf(p) /\ np # 0 /\ Page(Mem) # 0
        /\ VmMix \/ (~ptable[p].isThread /\ Kids(p) = {} /\ \A q \in VmProcs \ {p} : Threads(q) = {})
        \* a failure leaves the slot as it is
        /\ Becomes(a.m, [ptable EXCEPT ![p].t = @ \cup {tid},
                                       ![np] = IF a.ret = 0 THEN new
                                               ELSE [new EXCEPT !.sz = a.ret, !.state = "RUNNABLE"]])
thread_exit(p) ==
    /\ CallsOf(p) /\ ptable[p].isThread
    /\ Becomes(Mem, [ptable EXCEPT ![p].state = "ZOMBIE"])

JoinedStack(q) == ptable[q].ustack
\* thread_join: the first zombie with the thread's number among the caller's
\* children and all threads.
thread_join(p, tid) ==
    LET found == {q \in VmProcs : /\ ptable[q].parent = p \/ ptable[q].isThread
                                  /\ ptable[q].state = "ZOMBIE" /\ ptable[q].tid = tid}
        q == Min(found)
        d == deallocuvm(Mem, ptable[q].pgdir, JoinedStack(q), JoinedStack(q) - PGSIZE)
    IN  /\ CallsOf(p) /\ found # {} /\ tid \in ptable[p].t
        /\ Becomes(kfree(IF ptable[q].ustack = 0 THEN Mem ELSE d.m, ptable[q].kstack),
                   [ptable EXCEPT ![q].state = "UNUSED", ![q].kstack = 0, ![q].parent = 0,
                                  ![q].isThread = FALSE, ![q].tid = 0, ![p].t = @ \ {tid}])

\* exit of a process: its threads are released with it.
exit(p) ==
    LET ths == Threads(p)
        Release(m, q) == deallocuvm(kfree(m, ptable[q].kstack), ptable[q].pgdir,
                                    ptable[q].ustack, ptable[q].ustack - PGSIZE).m
    IN  /\ vm.calls < VmCalls /\ ~vm.panic
        /\ ptable[p].state = "RUNNABLE" /\ ~ptable[p].isThread /\ Frees(p) /\ p # 1
        /\ Becomes(FoldSet(LAMBDA q, m : Release(m, q), Mem, ths),
                   [q \in VmProcs |->
                      IF q = p THEN [ptable[p] EXCEPT !.state = "ZOMBIE"]
                      ELSE IF q \in ths THEN [ptable[q] EXCEPT !.state = "UNUSED", !.kstack = 0, !.parent = 0]
                      ELSE IF ptable[q].parent = p THEN [ptable[q] EXCEPT !.parent = 1] ELSE ptable[q]])

wait(p) ==
    LET dead == {q \in Kids(p) : ptable[q].state = "ZOMBIE"}
        q == Min(dead)
    IN  /\ CallsOf(p) /\ dead # {}
        /\ Becomes(freevm(kfree(Mem, ptable[q].kstack), ptable[q].pgdir),
                   [ptable EXCEPT ![q].state = "UNUSED", ![q].kstack = 0, ![q].parent = 0])

VmNext == \E p \in VmProcs :
    \/ fork(p)
    \/ \E n \in VmGrow : sbrk(p, n)
    \/ \E n \in VmShrink : sbrkDown(p, n)
    \/ \E segs \in VmSegs, loads \in BOOLEAN, args \in VmArgs : exec(p, segs, loads, args)
    \/ thread_create(p)
    \/ thread_exit(p)
    \/ \E tid \in 0 .. 2 : thread_join(p, tid)
    \/ exit(p)
    \/ wait(p)
VmSpec == VmInit /\ [][VmNext]_vmVars
-----------------------------------------------------------------------------
\* The pages in use, and the number of uses.
Holds(d) == {d} \cup Range(dirs[d].pde) \cup dirs[d].kern \cup {dirs[d].pte[v].pa : v \in DOMAIN dirs[d].pte}
Uses(d) == 1 + Cardinality(DOMAIN dirs[d].pde) + Cardinality(dirs[d].kern) + Cardinality(DOMAIN dirs[d].pte)
Stacks == {p \in VmProcs : ptable[p].kstack # 0}
AllUsed == ToSet(kmem) \cup {ptable[p].kstack : p \in Stacks} \cup UNION {Holds(d) : d \in DOMAIN dirs}
AllUses == Len(kmem) + Cardinality(Stacks) + MapThenSumSet(Uses, DOMAIN dirs)

\* No page of memory serves two purposes: it is in the free list once, or it
\* is one process's page, one page table, one directory or one kernel stack;
\* the directory of every process that can run exists.  And none is lost by
\* any sequence of calls, those that fail for want of memory included, unless
\* memory ran out for a page table itself.
PagesExact ==
    /\ Cardinality(AllUsed) = AllUses
    /\ \A p \in VmProcs : ptable[p].state \in {"RUNNABLE", "ZOMBIE"} => ptable[p].pgdir \in DOMAIN dirs
    /\ vm.starved \/ AllUsed = 1 .. NPAGES

\* The kernel never finds a page already mapped where it maps one, nor one
\* missing where it copies one.
NoVmPanic == ~vm.panic

\* The kernel does not panic so, and the memory below a process's size is
\* there as long as its code is: what sbrk, exec and fork promised can be used.
MemoryBacked ==
    /\ NoVmPanic
    /\ \A p \in VmProcs :
          ptable[p].state = "RUNNABLE" /\ ~ptable[p].isThread /\ 0 \in DOMAIN dirs[ptable[p].pgdir].pte
              => ToSet(Vpns(0, ptable[p].sz)) \subseteq DOMAIN dirs[ptable[p].pgdir].pte
=============================================================================
