------------------------------- MODULE Files -------------------------------
(***************************************************************************)
(* Inodes, directories and open files of OS_project/xv6-public: the inode  *)
(* cache and path lookup (fs.c), the file table (file.c) and the file      *)
(* system calls (sysfile.c).  An action is one critical section of         *)
(* icache.lock or ftable.lock, one use of a buffer, or what a process does *)
(* to an inode while it holds the inode's lock.  The contents of regular   *)
(* files are in module Bmap, transactions in module Log.                   *)
(***************************************************************************)
EXTENDS Naturals, FiniteSets, FiniteSetsExt, Sequences

CONSTANTS Procs,
          Names,     \* names of directory entries besides "." and ".."
          Workloads, \* sets of calls: what the programs of a behaviour call
          Solo,      \* the calls programs make only when no other runs
          NInum,     \* sb.ninodes - 1: the highest inode number
          NINODE,    \* param.h: entries of the inode cache
          NFILE, NOFILE

ASSUME FilesConstants == /\ NInum \in Nat \ {0} /\ NINODE \in Nat \ {0}
                         /\ NFILE \in Nat \ {0} /\ NOFILE \in Nat \ {0}
\* Processes are told from the null pointer.
ASSUME FilesProcs == IsFiniteSet(Procs) /\ 0 \notin Procs

ROOTINO == 1
None == 0
Inums == 1 .. NInum
Slots == 1 .. NINODE
Dots == {".", ".."}

VARIABLES
    dinode,   \* on disk: type and link count of every inode
    ents,     \* on disk: the entries of every directory, 0 for an empty one
    icache,   \* struct inode of every cache entry
    holder,   \* the process that holds an entry's sleep lock
    ftable,   \* struct file: reference count and inode
    ofile,    \* the descriptors of each process
    cwd,      \* the current directory of each process
    th,       \* what each process is doing, with its local variables
    calls     \* the calls the programs of this behaviour make

vars == <<dinode, ents, icache, holder, ftable, ofile, cwd, th, calls>>

NoEntries == [n \in Names \cup Dots |-> None]
Idle == [pc |-> "idle", call |-> [op |-> "none"], elems |-> <<>>, parent |-> FALSE,
         name |-> ".", cur |-> None, dp |-> None, ip |-> None, put |-> None,
         lk |-> None, inum |-> 0, nret |-> "idle", lret |-> "idle", pret |-> "idle"]

\* The image mkfs makes: a root directory; its cache entry is every
\* process's current directory.
Init ==
    /\ dinode = [i \in Inums |-> IF i = ROOTINO THEN [type |-> "dir", nlink |-> 1]
                                 ELSE [type |-> "free", nlink |-> 0]]
    /\ ents = [i \in Inums |-> IF i = ROOTINO
                               THEN [n \in Names \cup Dots |->
                                        IF n \in Dots THEN ROOTINO ELSE None]
                               ELSE NoEntries]
    /\ icache = [s \in Slots |->
                    IF s = 1 THEN [inum |-> ROOTINO, ref |-> Cardinality(Procs),
                                   valid |-> TRUE, type |-> "dir", nlink |-> 1]
                    ELSE [inum |-> None, ref |-> 0, valid |-> FALSE,
                          type |-> "free", nlink |-> 0]]
    /\ holder = [s \in Slots |-> None]
    /\ ftable = [f \in 1 .. NFILE |-> [ref |-> 0, ip |-> None]]
    /\ ofile = [p \in Procs |-> [fd \in 1 .. NOFILE |-> None]]
    /\ cwd = [p \in Procs |-> 1]
    /\ th = [p \in Procs |-> Idle]
    /\ calls \in Workloads

At(p, l) == th[p].pc = l
Become(p, r) == th' = [th EXCEPT ![p] = r]
\* panic(): this CPU stops, with its locks held.  "full" is the panic for
\* want of an inode or of a cache entry.
Panic(p) == Become(p, [th[p] EXCEPT !.pc = "panic"])
Full(p) == Become(p, [th[p] EXCEPT !.pc = "full"])
-----------------------------------------------------------------------------
(* Subroutines work on the local variables t of their caller: a call of    *)
(* ilock or iput says where the caller goes on, and Resume takes it there, *)
(* up to the next step others can see.                                     *)
LockIp(t, s, l) == [t EXCEPT !.lk = s, !.lret = l, !.pc = "ilock"]
PutIp(t, s, l) == [t EXCEPT !.put = s, !.pret = l, !.pc = "iput"]
NamexIp(t, elems, parent, l) ==
    [t EXCEPT !.elems = elems, !.parent = parent, !.nret = l, !.pc = "namex"]

\* namex is back with the inode, or 0, in cur; its caller locks what it got.
Namexed(t) ==
    LET dp == [t EXCEPT !.dp = t.cur, !.cur = None]
        ip == [t EXCEPT !.ip = t.cur, !.cur = None]
    IN  CASE t.cur = None /\ t.nret = "link4" -> LockIp(t, t.ip, "bad")
          [] t.cur = None /\ t.nret # "link4" -> Idle
          [] t.cur # None /\ t.nret \in {"create2", "unlink2", "link4"} -> LockIp(dp, t.cur, t.nret)
          [] OTHER -> LockIp(ip, t.cur, t.nret)

\* The loop of namex: skipelem, and the two ways out.
NextElem(t) ==
    IF t.elems # <<>> THEN LockIp(t, t.cur, "look")
    ELSE IF t.parent THEN PutIp([t EXCEPT !.cur = None], t.cur, "namexed")
    ELSE Namexed(t)

Resume(t, l) ==
    CASE l = "done"    -> Idle
      [] l = "next"    -> NextElem(t)
      [] l = "namexed" -> Namexed(t)
      [] l = "create4" -> LockIp(t, t.ip, "create4")
      [] l = "bad"     -> LockIp(t, t.ip, "bad")
      [] l = "linked"  -> PutIp([t EXCEPT !.ip = None], t.ip, "done")
      [] OTHER         -> [t EXCEPT !.pc = l]
-----------------------------------------------------------------------------
(* The inode cache *)
Hits(i) == {s \in Slots : icache[s].ref > 0 /\ icache[s].inum = i}
Empties == {s \in Slots : icache[s].ref = 0}

\* iget(i): the entry, and the cache afterwards.
CanGet(i) == Hits(i) \cup Empties # {}
Slot(i) == IF Hits(i) # {} THEN Min(Hits(i)) ELSE Min(Empties)
Iget(i) ==
    LET e == icache[Slot(i)]
    IN  [icache EXCEPT ![Slot(i)] = IF Hits(i) # {} THEN [e EXCEPT !.ref = @ + 1]
                                    ELSE [e EXCEPT !.inum = i, !.ref = 1, !.valid = FALSE]]

\* ilock: acquiresleep, then the copy from disk if the entry is not valid.
\* The lock keeps others from looking, so that the two are one step.
Ilock(p) ==
    LET s == th[p].lk
        d == dinode[icache[s].inum]
    IN  /\ At(p, "ilock") /\ holder[s] = None
        /\ holder' = [holder EXCEPT ![s] = p]
        /\ icache' = IF icache[s].valid THEN icache
                     ELSE [icache EXCEPT ![s] = [@ EXCEPT !.valid = TRUE, !.type = d.type,
                                                          !.nlink = d.nlink]]
        /\ IF ~icache[s].valid /\ d.type = "free"   \* panic("ilock: no type")
           THEN Panic(p)
           ELSE Become(p, [th[p] EXCEPT !.pc = th[p].lret, !.lk = None])
        /\ UNCHANGED <<dinode, ents, ftable, ofile, cwd>>

Unlocked(s) == [holder EXCEPT ![s] = None]

\* Mutant: without the test of ip->ref.
Iput_anyref(p) ==
    LET t == th[p]
        e == icache[t.put]
    IN  /\ At(p, "iput")
        /\ IF e.valid /\ e.nlink = 0
           THEN Become(p, [t EXCEPT !.pc = "ifree"]) /\ UNCHANGED icache
           ELSE /\ icache' = [icache EXCEPT ![t.put].ref = @ - 1]
                /\ Become(p, Resume([t EXCEPT !.put = None], t.pret))
        /\ UNCHANGED <<dinode, ents, holder, ftable, ofile, cwd>>

\* iput: the last reference to an inode without links frees it, with
\* icache.lock released in the middle.
Iput(p) ==
    LET t == th[p]
        e == icache[t.put]
    IN  /\ At(p, "iput")
        /\ IF e.ref = 1 /\ e.valid /\ e.nlink = 0
           THEN Become(p, [t EXCEPT !.pc = "ifree"]) /\ UNCHANGED icache
           ELSE /\ icache' = [icache EXCEPT ![t.put].ref = @ - 1]
                /\ Become(p, Resume([t EXCEPT !.put = None], t.pret))
        /\ UNCHANGED <<dinode, ents, holder, ftable, ofile, cwd>>

\* itrunc(ip); ip->type = 0; iupdate(ip).
IputFree(p) ==
    LET s == th[p].put
        e == icache[s]
    IN  /\ At(p, "ifree")
        /\ ents' = [ents EXCEPT ![e.inum] = NoEntries]
        /\ icache' = [icache EXCEPT ![s].type = "free"]
        /\ dinode' = [dinode EXCEPT ![e.inum] = [type |-> "free", nlink |-> e.nlink]]
        /\ Become(p, [th[p] EXCEPT !.pc = "iput2"])
        /\ UNCHANGED <<holder, ftable, ofile, cwd>>

\* ip->flags = 0; ip->ref--, under icache.lock again.
IputDone(p) ==
    LET t == th[p]
    IN  /\ At(p, "iput2")
        /\ icache' = [icache EXCEPT ![t.put].valid = FALSE, ![t.put].ref = @ - 1]
        /\ Become(p, Resume([t EXCEPT !.put = None], t.pret))
        /\ UNCHANGED <<dinode, ents, holder, ftable, ofile, cwd>>

\* iupdate(ip) for the entry s of the cache c.
Updated(c, s) == [dinode EXCEPT ![c[s].inum] = [type |-> c[s].type, nlink |-> c[s].nlink]]
-----------------------------------------------------------------------------
(* Path lookup.  t is what the caller of namex is doing.                   *)
NamexFrom(p, t) ==
    /\ \/ /\ t.call.abs /\ CanGet(ROOTINO)
          /\ icache' = Iget(ROOTINO)
          /\ Become(p, NextElem([t EXCEPT !.cur = Slot(ROOTINO)]))
       \/ /\ ~t.call.abs
          /\ icache' = [icache EXCEPT ![cwd[p]].ref = @ + 1]
          /\ Become(p, NextElem([t EXCEPT !.cur = cwd[p]]))
    /\ UNCHANGED <<dinode, ents, holder, ftable, ofile, cwd>>

Namex(p) == At(p, "namex") /\ NamexFrom(p, th[p])

\* The directory is locked: stop, or go down one name.  iunlockput(ip)
\* releases the lock here and drops the reference next.
NamexLook(p) ==
    LET t == th[p]
        e == icache[t.cur]
        found == ents[e.inum][Head(t.elems)]
        stop == t.parent /\ Len(t.elems) = 1
    IN  /\ At(p, "look")
        /\ holder' = Unlocked(t.cur)
        /\ \/ /\ e.type # "dir" \/ (~stop /\ found = None)
              /\ Become(p, PutIp([t EXCEPT !.cur = None], t.cur, "namexed"))
              /\ UNCHANGED icache
           \/ /\ e.type = "dir" /\ stop
              /\ Become(p, Namexed([t EXCEPT !.name = Head(t.elems), !.elems = <<>>]))
              /\ UNCHANGED icache
           \/ /\ e.type = "dir" /\ ~stop /\ found # None /\ CanGet(found)
              /\ icache' = Iget(found)
              /\ Become(p, PutIp([t EXCEPT !.cur = Slot(found), !.elems = Tail(@)],
                                 t.cur, "next"))
        /\ UNCHANGED <<dinode, ents, ftable, ofile, cwd>>
-----------------------------------------------------------------------------
(* create(): the parent's lock is held from the lookup to the new entry.   *)
Type(c) == IF c.op = "mkdir" THEN "dir" ELSE IF c.op = "mknod" THEN "dev" ELSE "file"
Created(c) == IF c.op = "open" THEN "open2" ELSE "made"

CreateLookup(p) ==
    LET t == th[p]
        found == ents[icache[t.dp].inum][t.name]
    IN  /\ At(p, "create2")
        /\ \/ /\ icache[t.dp].type # "dir"      \* panic("dirlookup not DIR")
              /\ Panic(p) /\ UNCHANGED <<icache, holder>>
           \/ /\ icache[t.dp].type = "dir" /\ found # None /\ CanGet(found)
              /\ icache' = Iget(found) /\ holder' = Unlocked(t.dp)
              /\ Become(p, PutIp([t EXCEPT !.ip = Slot(found), !.dp = None], t.dp, "create4"))
           \/ /\ icache[t.dp].type = "dir" /\ found = None
              /\ Become(p, [t EXCEPT !.inum = 1, !.pc = "ialloc"])
              /\ UNCHANGED <<icache, holder>>
        /\ UNCHANGED <<dinode, ents, ftable, ofile, cwd>>

\* The name is taken: open it, or give up.
CreateExisting(p) ==
    LET t == th[p]
        ok == Type(t.call) = "file" /\ icache[t.ip].type = "file"
    IN  /\ At(p, "create4")
        /\ Become(p, IF ok THEN [t EXCEPT !.pc = "open2"]
                     ELSE PutIp([t EXCEPT !.ip = None], t.ip, "done"))
        /\ holder' = IF ok THEN holder ELSE Unlocked(t.ip)
        /\ UNCHANGED <<dinode, ents, icache, ftable, ofile, cwd>>

\* ialloc: one dinode after the other, each under its buffer's lock.
Ialloc(p) ==
    LET t == th[p]
        i == t.inum
    IN  /\ At(p, "ialloc")
        /\ \/ /\ i > NInum                       \* panic("ialloc: no inodes")
              /\ Full(p) /\ UNCHANGED <<dinode, ents>>
           \/ /\ i <= NInum /\ dinode[i].type # "free"
              /\ Become(p, [t EXCEPT !.inum = i + 1]) /\ UNCHANGED <<dinode, ents>>
           \/ /\ i <= NInum /\ dinode[i].type = "free"
              /\ dinode' = [dinode EXCEPT ![i] = [type |-> Type(t.call), nlink |-> 0]]
              /\ ents' = [ents EXCEPT ![i] = NoEntries]
              /\ Become(p, [t EXCEPT !.pc = "create5"])
        /\ UNCHANGED <<icache, holder, ftable, ofile, cwd>>

CreateGet(p) ==
    LET t == th[p]
    IN  /\ At(p, "create5") /\ CanGet(t.inum)
        /\ icache' = Iget(t.inum)
        /\ Become(p, LockIp([t EXCEPT !.ip = Slot(t.inum), !.inum = 0], Slot(t.inum), "create6"))
        /\ UNCHANGED <<dinode, ents, holder, ftable, ofile, cwd>>

\* nlink = 1, the dots of a directory, and the entry in the parent.
CreateLink(p) ==
    LET t == th[p]
        isdir == Type(t.call) = "dir"
        c == [icache EXCEPT ![t.ip].nlink = 1, ![t.dp].nlink = IF isdir THEN @ + 1 ELSE @]
        i == c[t.ip].inum
        d == c[t.dp].inum
        dots == [ents[i] EXCEPT !["."] = i, ![".."] = d]
    IN  /\ At(p, "create6")
        /\ icache' = c
        /\ dinode' = [dinode EXCEPT ![i] = [type |-> c[t.ip].type, nlink |-> 1],
                                    ![d] = IF isdir THEN [type |-> c[t.dp].type,
                                                          nlink |-> c[t.dp].nlink] ELSE @]
        /\ IF isdir /\ c[t.ip].type # "dir"     \* panic("dirlookup not DIR")
           THEN Panic(p) /\ UNCHANGED <<ents, holder>>
           ELSE /\ ents' = [ents EXCEPT ![i] = IF isdir THEN dots ELSE @, ![d][t.name] = i]
                /\ holder' = Unlocked(t.dp)
                /\ Become(p, PutIp([t EXCEPT !.dp = None], t.dp, Created(t.call)))
        /\ UNCHANGED <<ftable, ofile, cwd>>

\* Mutant: the reference to the new inode is not dropped.
Made_kept(p) ==
    /\ At(p, "made") /\ Become(p, Idle)
    /\ holder' = Unlocked(th[p].ip)
    /\ UNCHANGED <<dinode, ents, icache, ftable, ofile, cwd>>

\* The rest of sys_mkdir and sys_mknod: iunlockput(ip).
Made(p) ==
    LET t == th[p]
    IN  /\ At(p, "made")
        /\ Become(p, PutIp([t EXCEPT !.ip = None], t.ip, "done"))
        /\ holder' = Unlocked(t.ip)
        /\ UNCHANGED <<dinode, ents, icache, ftable, ofile, cwd>>
-----------------------------------------------------------------------------
(* Open files *)
MayCall(p, c) ==
    /\ At(p, "idle") /\ c \in calls
    /\ \A q \in Procs \ {p} : /\ c \in Solo => At(q, "idle")
                             /\ th[q].call \notin Solo

\* sys_open, from the lock on: a directory is opened only for reading;
\* filealloc and fdalloc; without room the file is closed again and the
\* inode let go.
Open(p) ==
    LET t == th[p]
        f == Min({g \in 1 .. NFILE : ftable[g].ref = 0})
        fd == Min({d \in 1 .. NOFILE : ofile[p][d] = None})
        ok == /\ At(p, "open1") => ~(icache[t.ip].type = "dir" /\ t.call.write)
              /\ \E g \in 1 .. NFILE : ftable[g].ref = 0
              /\ \E d \in 1 .. NOFILE : ofile[p][d] = None
    IN  /\ t.pc \in {"open1", "open2"}
        /\ holder' = Unlocked(t.ip)
        /\ IF ok
           THEN /\ ftable' = [ftable EXCEPT ![f] = [ref |-> 1, ip |-> t.ip]]
                /\ ofile' = [ofile EXCEPT ![p][fd] = f]
                /\ Become(p, Idle)
           ELSE /\ Become(p, PutIp([t EXCEPT !.ip = None], t.ip, "done"))
                /\ UNCHANGED <<ftable, ofile>>
        /\ UNCHANGED <<dinode, ents, icache, cwd>>

\* sys_close and fileclose.
Close(p, fd) ==
    LET f == ofile[p][fd]
    IN  /\ MayCall(p, [op |-> "close"]) /\ f # None
        /\ ofile' = [ofile EXCEPT ![p][fd] = None]
        /\ ftable' = [ftable EXCEPT ![f] = IF @.ref > 1 THEN [ref |-> @.ref - 1, ip |-> @.ip]
                                           ELSE [ref |-> 0, ip |-> None]]
        /\ IF ftable[f].ref > 1 THEN UNCHANGED th
           ELSE Become(p, PutIp(Idle, ftable[f].ip, "done"))
        /\ UNCHANGED <<dinode, ents, icache, holder, cwd>>

Dup(p, fd) ==
    LET free == {d \in 1 .. NOFILE : ofile[p][d] = None}
    IN  /\ MayCall(p, [op |-> "dup"])
        /\ ofile[p][fd] # None /\ free # {}
        /\ ofile' = [ofile EXCEPT ![p][Min(free)] = ofile[p][fd]]
        /\ ftable' = [ftable EXCEPT ![ofile[p][fd]] = [ref |-> @.ref + 1, ip |-> @.ip]]
        /\ UNCHANGED <<dinode, ents, icache, holder, cwd, th>>
-----------------------------------------------------------------------------
(* unlink, link, chdir *)
IsDirEmpty(i) == \A n \in Names : ents[i][n] = None

\* Mutant: the directory is unlocked before its entry's inode is locked.
UnlinkLookup_unlocked(p) ==
    LET t == th[p]
        found == ents[icache[t.dp].inum][t.name]
    IN  /\ At(p, "unlink2") /\ t.name \notin Dots /\ found # None /\ CanGet(found)
        /\ icache' = Iget(found)
        /\ Become(p, LockIp([t EXCEPT !.ip = Slot(found)], Slot(found), "unlink3"))
        /\ holder' = Unlocked(t.dp)
        /\ UNCHANGED <<dinode, ents, ftable, ofile, cwd>>

UnlinkLookup(p) ==
    LET t == th[p]
        found == ents[icache[t.dp].inum][t.name]
    IN  /\ At(p, "unlink2")
        /\ \/ /\ t.name \in Dots \/ found = None
              /\ Become(p, PutIp([t EXCEPT !.dp = None], t.dp, "done"))
              /\ holder' = Unlocked(t.dp) /\ UNCHANGED icache
           \/ /\ t.name \notin Dots /\ found # None /\ CanGet(found)
              /\ icache' = Iget(found)
              /\ Become(p, LockIp([t EXCEPT !.ip = Slot(found)], Slot(found), "unlink3"))
              /\ UNCHANGED holder
        /\ UNCHANGED <<dinode, ents, ftable, ofile, cwd>>

\* Both are locked.  The entry goes, or a directory that is not empty stays.
UnlinkEntry(p) ==
    LET t == th[p]
        isdir == icache[t.ip].type = "dir"
        c == [icache EXCEPT ![t.dp].nlink = IF isdir THEN @ - 1 ELSE @]
        keep == isdir /\ ~IsDirEmpty(icache[t.ip].inum)
    IN  /\ At(p, "unlink3")
        /\ \/ /\ icache[t.ip].nlink < 1          \* panic("unlink: nlink < 1")
              /\ Panic(p) /\ UNCHANGED <<dinode, ents, icache, holder>>
           \/ /\ icache[t.ip].nlink >= 1 /\ keep
              /\ Become(p, PutIp([t EXCEPT !.ip = None], t.ip, "unlink5"))
              /\ holder' = Unlocked(t.ip) /\ UNCHANGED <<dinode, ents, icache>>
           \/ /\ icache[t.ip].nlink >= 1 /\ ~keep
              /\ ents' = [ents EXCEPT ![icache[t.dp].inum][t.name] = None]
              /\ icache' = c
              /\ dinode' = IF isdir THEN Updated(c, t.dp) ELSE dinode
              /\ holder' = Unlocked(t.dp)
              /\ Become(p, PutIp([t EXCEPT !.dp = None], t.dp, "unlink4"))
        /\ UNCHANGED <<ftable, ofile, cwd>>

\* ip->nlink--; iupdate(ip); iunlockput(ip).
UnlinkCount(p) ==
    LET t == th[p]
        c == [icache EXCEPT ![t.ip].nlink = @ - 1]
    IN  /\ At(p, "unlink4")
        /\ icache' = c /\ dinode' = Updated(c, t.ip)
        /\ holder' = Unlocked(t.ip)
        /\ Become(p, PutIp([t EXCEPT !.ip = None], t.ip, "done"))
        /\ UNCHANGED <<ents, ftable, ofile, cwd>>

\* The label bad: iunlockput(dp).
UnlinkBad(p) ==
    LET t == th[p]
    IN  /\ At(p, "unlink5")
        /\ holder' = Unlocked(t.dp)
        /\ Become(p, PutIp([t EXCEPT !.dp = None], t.dp, "done"))
        /\ UNCHANGED <<dinode, ents, icache, ftable, ofile, cwd>>

\* Mutant: the inode stays locked while the new parent is looked up.
Link_locked(p) ==
    LET t == th[p]
        c == [icache EXCEPT ![t.ip].nlink = @ + 1]
    IN  /\ At(p, "link2")
        /\ icache' = c /\ dinode' = Updated(c, t.ip)
        /\ Become(p, NamexIp(t, t.call.new, TRUE, "link4"))
        /\ UNCHANGED <<ents, holder, ftable, ofile, cwd>>

\* sys_link, the old name: the link is counted before it exists.
Link(p) ==
    LET t == th[p]
        c == [icache EXCEPT ![t.ip].nlink = @ + 1]
    IN  /\ At(p, "link2")
        /\ holder' = Unlocked(t.ip)
        /\ IF icache[t.ip].type = "dir"
           THEN /\ Become(p, PutIp([t EXCEPT !.ip = None], t.ip, "done"))
                /\ UNCHANGED <<icache, dinode>>
           ELSE /\ icache' = c /\ dinode' = Updated(c, t.ip)
                /\ Become(p, NamexIp(t, t.call.new, TRUE, "link4"))
        /\ UNCHANGED <<ents, ftable, ofile, cwd>>

\* dirlink: the new name is free, or a reference to what it names is taken
\* and dropped again.
LinkEntry(p) ==
    LET t == th[p]
        found == ents[icache[t.dp].inum][t.name]
    IN  /\ At(p, "link4")
        /\ \/ /\ found # None /\ CanGet(found)
              /\ icache' = Iget(found)
              /\ Become(p, PutIp(t, Slot(found), "link5"))
              /\ UNCHANGED <<ents, holder>>
           \/ /\ found = None
              /\ ents' = [ents EXCEPT ![icache[t.dp].inum][t.name] = icache[t.ip].inum]
              /\ holder' = Unlocked(t.dp)
              /\ Become(p, PutIp([t EXCEPT !.dp = None], t.dp, "linked"))
              /\ UNCHANGED icache
        /\ UNCHANGED <<dinode, ftable, ofile, cwd>>

LinkTaken(p) ==
    LET t == th[p]
    IN  /\ At(p, "link5")
        /\ holder' = Unlocked(t.dp)
        /\ Become(p, PutIp([t EXCEPT !.dp = None], t.dp, "bad"))
        /\ UNCHANGED <<dinode, ents, icache, ftable, ofile, cwd>>

\* Mutant: a link that failed stays counted.
LinkBad_counted(p) ==
    LET t == th[p]
    IN  /\ At(p, "bad")
        /\ holder' = Unlocked(t.ip)
        /\ Become(p, PutIp([t EXCEPT !.ip = None], t.ip, "done"))
        /\ UNCHANGED <<dinode, icache, ents, ftable, ofile, cwd>>

\* The label bad: the link is not counted any more.
LinkBad(p) ==
    LET t == th[p]
        c == [icache EXCEPT ![t.ip].nlink = @ - 1]
    IN  /\ At(p, "bad")
        /\ icache' = c /\ dinode' = Updated(c, t.ip)
        /\ holder' = Unlocked(t.ip)
        /\ Become(p, PutIp([t EXCEPT !.ip = None], t.ip, "done"))
        /\ UNCHANGED <<ents, ftable, ofile, cwd>>

\* sys_chdir: the old directory is put before the new one is set.
Chdir(p) ==
    LET t == th[p]
        ok == icache[t.ip].type = "dir"
    IN  /\ At(p, "chdir2")
        /\ holder' = Unlocked(t.ip)
        /\ Become(p, IF ok THEN PutIp(t, cwd[p], "chdir3")
                     ELSE PutIp([t EXCEPT !.ip = None], t.ip, "done"))
        /\ cwd' = IF ok THEN [cwd EXCEPT ![p] = None] ELSE cwd
        /\ UNCHANGED <<dinode, ents, icache, ftable, ofile>>

ChdirDone(p) ==
    /\ At(p, "chdir3")
    /\ cwd' = [cwd EXCEPT ![p] = th[p].ip]
    /\ Become(p, Idle)
    /\ UNCHANGED <<dinode, ents, icache, holder, ftable, ofile>>
-----------------------------------------------------------------------------
\* The system calls that look up a path.
Enter(c) ==
    LET t == [Idle EXCEPT !.call = c]
    IN  CASE c.op = "open" /\ ~c.create -> NamexIp(t, c.path, FALSE, "open1")
          [] c.op = "unlink" -> NamexIp(t, c.path, TRUE, "unlink2")
          [] c.op = "link"   -> NamexIp(t, c.path, FALSE, "link2")
          [] c.op = "chdir"  -> NamexIp(t, c.path, FALSE, "chdir2")
          [] OTHER -> NamexIp(t, c.path, TRUE, "create2")

Call(p, c) == MayCall(p, c) /\ c.op \notin {"close", "dup"} /\ NamexFrom(p, Enter(c))

\* The inode number p is about to pass to iget.
Wanted(p) ==
    LET t == th[p]
    IN  CASE At(p, "namex") /\ t.call.abs -> ROOTINO
          [] At(p, "look") /\ icache[t.cur].type = "dir" /\ ~(t.parent /\ Len(t.elems) = 1)
                -> ents[icache[t.cur].inum][Head(t.elems)]
          [] t.pc \in {"create2", "unlink2", "link4"} /\ t.name \notin Dots
                -> ents[icache[t.dp].inum][t.name]
          [] At(p, "create5") -> t.inum
          [] OTHER -> None

\* panic("iget: no inodes").
IgetPanic(p) ==
    /\ Wanted(p) # None /\ ~CanGet(Wanted(p))
    /\ Full(p)
    /\ UNCHANGED <<dinode, ents, icache, holder, ftable, ofile, cwd>>

Lookup(p) == Namex(p) \/ NamexLook(p) \/ IgetPanic(p)
Inode(p) == Ilock(p) \/ Iput(p) \/ IputFree(p) \/ IputDone(p)
Create(p) == \/ CreateLookup(p) \/ CreateExisting(p) \/ Ialloc(p)
             \/ CreateGet(p) \/ CreateLink(p) \/ Made(p)
LinkCall(p) == Link(p) \/ LinkEntry(p) \/ LinkTaken(p) \/ LinkBad(p)
UnlinkCall(p) == UnlinkLookup(p) \/ UnlinkEntry(p) \/ UnlinkCount(p) \/ UnlinkBad(p)

Step(p) == \/ Lookup(p) \/ Inode(p) \/ Create(p) \/ Open(p) \/ LinkCall(p)
           \/ UnlinkCall(p) \/ Chdir(p) \/ ChdirDone(p)

Next == /\ \E p \in Procs : \/ Step(p)
                            \/ \E c \in calls : Call(p, c)
                            \/ \E fd \in 1 .. NOFILE : Close(p, fd) \/ Dup(p, fd)
        /\ UNCHANGED calls

Spec == Init /\ [][Next]_vars

\* A process inside a call gets the CPU again, and the sleep lock it waits
\* for in the end.
LiveSpec == Spec /\ \A p \in Procs : WF_vars(Step(p) /\ UNCHANGED calls)
                                  /\ SF_vars(Ilock(p) /\ UNCHANGED calls)
-----------------------------------------------------------------------------
\* The pointers to cache entry s: open files, current directories and the
\* local variables of calls.
Pointers(s) ==
    {<<"file", f>> : f \in {g \in 1 .. NFILE : ftable[g].ref > 0 /\ ftable[g].ip = s}}
    \cup {<<"cwd", p>> : p \in {q \in Procs : cwd[q] = s}}
    \cup {<<"cur", p>> : p \in {q \in Procs : th[q].cur = s}}
    \cup {<<"dp", p>> : p \in {q \in Procs : th[q].dp = s}}
    \cup {<<"ip", p>> : p \in {q \in Procs : th[q].ip = s}}
    \cup {<<"put", p>> : p \in {q \in Procs : th[q].put = s}}

\* ip->ref is the number of pointers to the entry, no inode has two entries,
\* and a call that is over holds no lock (fs.c, lines 123-128).
RefsExact ==
    /\ \A s \in Slots : icache[s].ref = Cardinality(Pointers(s))
    /\ \A i \in Inums : Cardinality(Hits(i)) <= 1
    /\ \A s \in Slots : holder[s] # None => ~At(holder[s], "idle")

\* Between calls a link count is the number of directory entries that name
\* the inode, and an entry names an inode that is in use.
Entries(i) == {e \in Inums \X (Names \cup {".."}) :
                  /\ ents[e[1]][e[2]] = i /\ e[1] # i
                  /\ dinode[e[1]].type = "dir" /\ dinode[e[1]].nlink > 0}
LinksExact ==
    (\A p \in Procs : At(p, "idle")) =>
        \A i \in Inums :
            /\ dinode[i].type # "free" =>
                  dinode[i].nlink = Cardinality(Entries(i)) + (IF i = ROOTINO THEN 1 ELSE 0)
            /\ dinode[i].type = "free" => Entries(i) = {}

\* An inode without links is on disk only while somebody has it open, and an
\* open file's inode is never freed under it.
OpenKept ==
    (\A p \in Procs : At(p, "idle")) =>
        \A i \in Inums :
            /\ dinode[i].type # "free" /\ dinode[i].nlink = 0 => Hits(i) # {}
            /\ Hits(i) # {} => dinode[i].type # "free"

\* An inode never turns out to be free, unlinked or no directory in the
\* middle of a call: none of the panics about that is reached.
NoPanic == \A p \in Procs : ~At(p, "panic")

\* Link counts count directory entries, an inode stays as long as a name or a
\* pointer needs it, and no call finds otherwise (fs.c, sysfile.c).
LinksSound == LinksExact /\ OpenKept /\ NoPanic

\* Every call comes to its end, unless a CPU stops with a lock held: the
\* order in which the calls take inode locks makes no circle.
CallReturns ==
    \A p \in Procs : ~At(p, "idle") ~> (At(p, "idle") \/ \E q \in Procs : At(q, "full"))
=============================================================================
