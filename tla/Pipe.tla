-------------------------------- MODULE Pipe --------------------------------
(***************************************************************************)
(* One pipe of OS_project/xv6-public: pipewrite, piperead and pipeclose of *)
(* pipe.c, and the reference counts of its two files (filedup, fileclose   *)
(* of file.c).  An action is one critical section of p->lock: it ends when *)
(* the call returns or sleeps.  The counters wrap at WIDTH (2^32 in C).    *)
(***************************************************************************)
EXTENDS Naturals, Sequences, FiniteSets, FiniteSetsExt

CONSTANTS
    Procs,     \* processes that may hold the pipe's files
    Messages,  \* what a process may write (sequences of bytes)
    Junk,      \* what a page from kalloc() holds
    PIPESIZE,  \* bytes in p->data
    WIDTH,     \* number of values of a uint
    MaxRead,   \* largest n of a read
    Kills      \* TRUE: processes may be killed

Bytes == UNION {{m[i] : i \in 1 .. Len(m)} : m \in Messages}

ASSUME PipeConstants ==
    /\ PIPESIZE \in Nat \ {0} /\ MaxRead \in Nat \ {0} /\ Kills \in BOOLEAN
    /\ WIDTH \in Nat /\ PIPESIZE < WIDTH /\ WIDTH % PIPESIZE = 0
    /\ Messages \subseteq Seq(Bytes)

VARIABLES
    nread, nwrite, data, readopen, writeopen,   \* struct pipe
    freed,       \* times the page of struct pipe was given to kfree
    fd,          \* fd[end]: the processes with a reference to that file
    pc, buf, n,  \* step of a process; bytes left to write; bytes to read
    killed,
    given        \* what the last piperead returned

pipe == <<nread, nwrite, data, readopen, writeopen>>
vars == <<pipe, freed, fd, pc, buf, n, killed, given>>

Ends == {"r", "w"}
Used == (nwrite + WIDTH - nread) % WIDTH

\* Mutant: the pipe counts as full one byte late.
Room_late == PIPESIZE + 1 - Used

\* Bytes that can be written before nwrite == nread + PIPESIZE.
Room == PIPESIZE - Used

\* wakeup(&p->nread), wakeup(&p->nwrite): the sleepers run again.
Wake(f, asleep, awake) == [q \in Procs |-> IF f[q] = asleep THEN awake ELSE f[q]]

Idle(p) == pc[p] = "idle"
-----------------------------------------------------------------------------
(* pipewrite(p, addr, n)                                                   *)

WriteCall(p) ==
    /\ Idle(p) /\ p \in fd["w"] /\ ~killed[p]
    /\ \E m \in Messages : buf' = [buf EXCEPT ![p] = m]
    /\ pc' = [pc EXCEPT ![p] = "write"]
    /\ UNCHANGED <<pipe, freed, fd, n, killed, given>>

\* Mutant: a writer that finds the pipe full does not wake the readers.
PipeWrite_no_wakeup(p) ==
    LET k == Min({Room, Len(buf[p])})
        fails == ~readopen \/ killed[p]
    IN  /\ pc[p] = "write"
        /\ nwrite' = (nwrite + k) % WIDTH
        /\ pc' = [pc EXCEPT ![p] = IF k = Len(buf[p]) \/ fails THEN "idle" ELSE "wsleep"]
        /\ buf' = [buf EXCEPT ![p] = IF fails THEN <<>> ELSE SubSeq(@, k + 1, Len(@))]
        /\ UNCHANGED <<nread, data, readopen, writeopen, freed, fd, n, killed, given>>

\* Copy what fits.  All copied: wake the readers, return n.  Pipe full:
\* return -1 if nobody reads or p was killed, else wake the readers, sleep.
PipeWrite(p) ==
    LET k == Min({Room, Len(buf[p])})
        done == k = Len(buf[p])
        fails == ~done /\ (~readopen \/ killed[p])
    IN  /\ pc[p] = "write"
        /\ nwrite' = (nwrite + k) % WIDTH
        /\ data' = [i \in 0 .. PIPESIZE - 1 |->
                      LET j == CHOOSE j \in 0 .. PIPESIZE - 1 :
                                  (nwrite + j) % PIPESIZE = i
                      IN IF j < k THEN buf[p][j + 1] ELSE data[i]]
        /\ buf' = [buf EXCEPT ![p] = IF fails THEN <<>> ELSE SubSeq(@, k + 1, Len(@))]
        /\ LET w == IF fails THEN pc ELSE Wake(pc, "rsleep", "read")
           IN pc' = [w EXCEPT ![p] = IF done \/ fails THEN "idle" ELSE "wsleep"]
        /\ UNCHANGED <<nread, readopen, writeopen, freed, fd, n, killed, given>>

-----------------------------------------------------------------------------
(* piperead(p, addr, n)                                                    *)

ReadCall(p) ==
    /\ Idle(p) /\ p \in fd["r"] /\ ~killed[p]
    /\ \E k \in 1 .. MaxRead : n' = [n EXCEPT ![p] = k]
    /\ pc' = [pc EXCEPT ![p] = "read"]
    /\ UNCHANGED <<pipe, freed, fd, buf, killed, given>>

\* Empty and still open for writing: return -1 if killed, else sleep.
PipeReadEmpty(p) ==
    /\ pc[p] = "read" /\ nread = nwrite /\ writeopen
    /\ pc' = [pc EXCEPT ![p] = IF killed[p] THEN "idle" ELSE "rsleep"]
    /\ n' = [n EXCEPT ![p] = IF killed[p] THEN 0 ELSE @]
    /\ UNCHANGED <<pipe, freed, fd, buf, killed, given>>

\* Mutant: the writers are not woken.
PipeRead_no_wakeup(p) ==
    LET k == Min({Used, n[p]})
    IN  /\ pc[p] = "read" /\ ~(nread = nwrite /\ writeopen)
        /\ nread' = (nread + k) % WIDTH
        /\ given' = [i \in 1 .. k |-> data[((nread + i - 1) % WIDTH) % PIPESIZE]]
        /\ n' = [n EXCEPT ![p] = 0]
        /\ pc' = [pc EXCEPT ![p] = "idle"]
        /\ UNCHANGED <<nwrite, data, readopen, writeopen, freed, fd, buf, killed>>

\* Mutant: ++nread in place of nread++.
PipeRead_preincrement(p) ==
    LET k == Min({Used, n[p]})
    IN  /\ pc[p] = "read" /\ ~(nread = nwrite /\ writeopen)
        /\ nread' = (nread + k) % WIDTH
        /\ given' = [i \in 1 .. k |-> data[((nread + i) % WIDTH) % PIPESIZE]]
        /\ n' = [n EXCEPT ![p] = 0]
        /\ pc' = [Wake(pc, "wsleep", "write") EXCEPT ![p] = "idle"]
        /\ UNCHANGED <<nwrite, data, readopen, writeopen, freed, fd, buf, killed>>

\* Copy out what there is, at most n bytes, and wake the writers.
PipeRead(p) ==
    LET k == Min({Used, n[p]})
    IN  /\ pc[p] = "read" /\ ~(nread = nwrite /\ writeopen)
        /\ nread' = (nread + k) % WIDTH
        /\ given' = [i \in 1 .. k |-> data[((nread + i - 1) % WIDTH) % PIPESIZE]]
        /\ n' = [n EXCEPT ![p] = 0]
        /\ pc' = [Wake(pc, "wsleep", "write") EXCEPT ![p] = "idle"]
        /\ UNCHANGED <<nwrite, data, readopen, writeopen, freed, fd, buf, killed>>

-----------------------------------------------------------------------------
(* The two files: filedup (fork, dup) and fileclose.                       *)

FileDup(p, q, end) ==
    /\ Idle(p) /\ ~killed[p] /\ p \in fd[end] /\ q \notin fd[end]
    /\ Idle(q) /\ ~killed[q]
    /\ fd' = [fd EXCEPT ![end] = @ \cup {q}]
    /\ UNCHANGED <<pipe, freed, pc, buf, n, killed, given>>

\* fileclose: the last reference goes on to pipeclose, without ftable.lock.
FileClose(p, end) ==
    /\ Idle(p) /\ p \in fd[end]
    /\ fd' = [fd EXCEPT ![end] = @ \ {p}]
    /\ pc' = [pc EXCEPT ![p] = IF fd[end] # {p} THEN "idle"
                               ELSE IF end = "w" THEN "wclose" ELSE "rclose"]
    /\ UNCHANGED <<pipe, freed, buf, n, killed, given>>

\* Mutant: the process at the other end is not woken.
PipeClose_no_wakeup(p) ==
    /\ pc[p] \in {"wclose", "rclose"}
    /\ writeopen' = (writeopen /\ pc[p] # "wclose")
    /\ readopen' = (readopen /\ pc[p] # "rclose")
    /\ pc' = [pc EXCEPT ![p] = "idle"]
    /\ freed' = IF readopen' \/ writeopen' THEN freed ELSE freed + 1
    /\ UNCHANGED <<nread, nwrite, data, fd, buf, n, killed, given>>

\* Mutant: the page is freed with the first end that closes.
PipeClose_frees_early(p) ==
    /\ pc[p] \in {"wclose", "rclose"}
    /\ writeopen' = (writeopen /\ pc[p] # "wclose")
    /\ readopen' = (readopen /\ pc[p] # "rclose")
    /\ pc' = [pc EXCEPT ![p] = "idle"]
    /\ freed' = 1
    /\ UNCHANGED <<nread, nwrite, data, fd, buf, n, killed, given>>

PipeClose(p) ==
    /\ pc[p] \in {"wclose", "rclose"}
    /\ writeopen' = (writeopen /\ pc[p] # "wclose")
    /\ readopen' = (readopen /\ pc[p] # "rclose")
    /\ LET w == IF pc[p] = "wclose" THEN Wake(pc, "rsleep", "read")
                                    ELSE Wake(pc, "wsleep", "write")
       IN pc' = [w EXCEPT ![p] = "idle"]
    /\ freed' = IF readopen' \/ writeopen' THEN freed ELSE freed + 1
    /\ UNCHANGED <<nread, nwrite, data, fd, buf, n, killed, given>>

\* kill() by some other process: a sleeper becomes RUNNABLE.
Kill(p) ==
    /\ Kills /\ ~killed[p]
    /\ killed' = [killed EXCEPT ![p] = TRUE]
    /\ pc' = [pc EXCEPT ![p] = IF @ = "rsleep" THEN "read"
                               ELSE IF @ = "wsleep" THEN "write" ELSE @]
    /\ UNCHANGED <<pipe, freed, fd, buf, n, given>>

-----------------------------------------------------------------------------
\* pipealloc(), called by one process; it shares the files by fork.
Init == /\ nread = 0 /\ nwrite = 0 /\ freed = 0
        /\ readopen = TRUE /\ writeopen = TRUE
        /\ data = [i \in 0 .. PIPESIZE - 1 |-> Junk]
        /\ \E p \in Procs : fd = [end \in Ends |-> {p}]
        /\ pc = [p \in Procs |-> "idle"]
        /\ buf = [p \in Procs |-> <<>>]
        /\ n = [p \in Procs |-> 0]
        /\ killed = [p \in Procs |-> FALSE]
        /\ given = <<>>

Next == \E p \in Procs :
           \/ WriteCall(p) \/ PipeWrite(p)
           \/ ReadCall(p) \/ PipeReadEmpty(p) \/ PipeRead(p)
           \/ PipeClose(p) \/ Kill(p)
           \/ \E end \in Ends : FileClose(p, end) \/ \E q \in Procs : FileDup(p, q, end)

Spec == Init /\ [][Next]_vars

\* A process inside a pipe call gets the lock and the CPU; no process is
\* obliged to read, to write or to close.
Fairness == \A p \in Procs : WF_vars(PipeWrite(p) \/ PipeReadEmpty(p) \/ PipeRead(p)
                                      \/ PipeClose(p))

LiveSpec == Spec /\ Fairness
-----------------------------------------------------------------------------
(***************************************************************************)
(* Properties                                                              *)
(***************************************************************************)
Steps == {"idle", "write", "wsleep", "read", "rsleep", "wclose", "rclose"}

\* The counters are uints at most PIPESIZE apart, and every local has its type.
TypeOK ==
    /\ nread \in 0 .. WIDTH - 1 /\ nwrite \in 0 .. WIDTH - 1 /\ Used <= PIPESIZE
    /\ data \in [0 .. PIPESIZE - 1 -> Bytes \cup {Junk}]
    /\ readopen \in BOOLEAN /\ writeopen \in BOOLEAN /\ freed \in 0 .. 1
    /\ fd \in [Ends -> SUBSET Procs]
    /\ pc \in [Procs -> Steps] /\ killed \in [Procs -> BOOLEAN]
    /\ n \in [Procs -> 0 .. MaxRead]

\* A reader sleeps only on an empty pipe and a writer only on a full one, in
\* either case while the other end is open: no wakeup of pipewrite, piperead
\* or pipeclose is missed.
SleepJustified ==
    \A p \in Procs : /\ pc[p] = "rsleep" => nread = nwrite /\ writeopen
                     /\ pc[p] = "wsleep" => Used = PIPESIZE /\ readopen

\* Even when processes are killed in the middle of a call, a reader and a
\* writer never sleep at the same time: one of them can always go on.
NoStandoff == ~\E p, q \in Procs : pc[p] = "rsleep" /\ pc[q] = "wsleep"

\* pipeclose gives the pipe back once, after the last reference to either
\* file is gone and while no process is inside pipewrite or piperead.
FreedLast ==
    /\ freed <= 1
    /\ freed = 1 => /\ fd["r"] = {} /\ fd["w"] = {}
                    /\ \A p \in Procs : Idle(p)
    /\ (fd["r"] = {} /\ fd["w"] = {} /\ \A p \in Procs : Idle(p)) => freed = 1

\* The ring of bytes with its wrapping counters is a first-in first-out
\* channel: nothing is lost, doubled or reordered on the way.
Contents == [i \in 1 .. Used |-> data[((nread + i - 1) % WIDTH) % PIPESIZE]]
Channel == INSTANCE Fifo WITH Capacity <- PIPESIZE, queue <- Contents, todo <- buf
FifoOrder == Channel!FifoSpec

\* When the last reference to the other end is dropped, pipeclose gets every
\* process out of its read (end of file) or its write (-1).
PeerGone ==
    \A p \in Procs : (\/ pc[p] = "rsleep" /\ fd["w"] = {}
                      \/ pc[p] = "wsleep" /\ fd["r"] = {}) ~> Idle(p)

\* Nobody sleeps in the pipe without a reason, and its page is freed once,
\* after its last use (pipe.c).
PipeSound == TypeOK /\ SleepJustified /\ FreedLast

\* The page of the pipe is freed once, after its last use, and a reader and a
\* writer are never asleep at once (pipe.c).
KilledPipeSound == TypeOK /\ FreedLast /\ NoStandoff
=============================================================================
