----------------------------- MODULE DbProject -----------------------------
(***************************************************************************)
(* The two programs of DB_project.                                         *)
(*                                                                         *)
(* Project4/musicapp.java: several instances of the menu program, used by  *)
(* managers and users, over one database.  Every SQL statement commits by  *)
(* itself, and an SQL exception is caught, printed and otherwise ignored:  *)
(* the menu goes on.  A menu choice is one action when it makes one        *)
(* statement, and one per statement or input between them otherwise.       *)
(* The tables, their keys and their foreign keys are those of              *)
(* p4_music_dump.zip: a statement that would break one is refused, and     *)
(* deleting a row deletes what refers to it.  Names, dates and times are   *)
(* left out; a user's password, email and phone are one value.             *)
(*                                                                         *)
(* Btree/btree/src/bptree.java: the B+ tree and the program that inserts   *)
(* a list of keys, deletes another and searches.  The nodes are a heap h   *)
(* of records: p holds the pairs of a node (key and value in a leaf, key   *)
(* and child in an index node), r its right neighbour (a leaf) or its last *)
(* child (an index node), l the left neighbour of a leaf.  0 is null.  A   *)
(* split or a deletion that goes on in the parent is one action per level; *)
(* where the program would throw, `ended' says so.                         *)
(***************************************************************************)
EXTENDS Integers, Sequences, FiniteSets, Functions, SequencesExt, FiniteSetsExt

CONSTANTS Clients,     \* instances of the program
          Unums,       \* user numbers
          Pnums,       \* playlist numbers, of the same kind
          Mnums,       \* music numbers, and ranks in a chart
          Managers,    \* rows of MANAGER
          Albums, Singers, Genres, Charts,
          Infos,       \* values of PW, EMAIL and PHONE
          Loads        \* what the clients do: sets of menu choices

VARIABLES tab,         \* the tables
          ses          \* the instances: who is logged in, and the input so far

musVars == <<tab, ses>>

Nobody == [role |-> "none", who |-> 0, at |-> "menu", m |-> 0, x |-> 0, a |-> 0]

MusStart(load) ==
    /\ tab = [user |-> [u \in Unums |-> [level |-> 1, info |-> CHOOSE i \in Infos : TRUE]],
              music |-> <<>>, album |-> {}, singer |-> {}, madeby |-> {}, genre |-> {},
              chart |-> {}, clist |-> <<>>, playlist |-> {}, plist |-> {}, load |-> load]
    /\ ses = [c \in Clients |-> Nobody]
MusInit == \E load \in Loads : MusStart(load)

Chooses(c, role, choice) == /\ ses[c].role = role /\ ses[c].at = "menu"
                            /\ choice \in tab.load
At(c, where) == ses' = [ses EXCEPT ![c].at = where]
\* A row for key k in table t, which the insertion of a key that is there
\* already leaves alone.
WithRow(t, k, row) == IF k \in DOMAIN t THEN t ELSE [j \in DOMAIN t \cup {k} |-> IF j = k THEN row ELSE t[j]]
-----------------------------------------------------------------------------
(* main *)
Login(c, role, n) ==
    /\ ses[c].role = "none"
    /\ n \in IF role = "manager" THEN Managers ELSE DOMAIN tab.user
    /\ ses' = [ses EXCEPT ![c] = [Nobody EXCEPT !.role = role, !.who = n]]
    /\ UNCHANGED tab
Leave(c) == /\ ses[c].role # "none" /\ ses[c].at = "menu"
            /\ ses' = [ses EXCEPT ![c] = Nobody] /\ UNCHANGED tab
-----------------------------------------------------------------------------
(* managerAction.manUser *)
InsertUser(c, u, lev) ==
    /\ Chooses(c, "manager", "users")
    /\ tab' = [tab EXCEPT !.user = WithRow(@, u, [level |-> lev, info |-> CHOOSE i \in Infos : TRUE])]
    /\ UNCHANGED ses
DeleteUser(c, u) ==
    /\ Chooses(c, "manager", "users")
    /\ tab' = [tab EXCEPT !.user = Restrict(@, DOMAIN @ \ {u}),
                          !.playlist = {p \in @ : p.uno # u}, !.plist = {p \in @ : p.uno # u}]
    /\ UNCHANGED ses
ChangeLevel(c, u, lev) ==
    /\ Chooses(c, "manager", "users")
    /\ tab' = [tab EXCEPT !.user = [v \in DOMAIN @ |-> IF v = u THEN [@[v] EXCEPT !.level = lev] ELSE @[v]]]
    /\ UNCHANGED ses
-----------------------------------------------------------------------------
(* managerAction.manMusic, "Insert Music" *)
CheckAlbum(c, a) ==
    /\ Chooses(c, "manager", "insert music")
    /\ ses' = [ses EXCEPT ![c].x = a, ![c].at = IF a \in tab.album THEN "singer" ELSE "album"]
    /\ UNCHANGED tab
InsertAlbum(c) == /\ ses[c].at = "album"
                  /\ tab' = [tab EXCEPT !.album = @ \cup {ses[c].x}] /\ At(c, "singer")
\* CheckSinger and InsertSinger: the row is there afterwards in any case.
EnterSinger(c, s) ==
    /\ ses[c].at = "singer"
    /\ tab' = [tab EXCEPT !.singer = @ \cup {s}]
    /\ ses' = [ses EXCEPT ![c].at = "music", ![c].a = ses[c].x, ![c].x = s]
\* A play time that does not parse ends the program.
BadTime(c) == /\ ses[c].at = "music"
              /\ ses' = [ses EXCEPT ![c] = Nobody] /\ UNCHANGED tab
InsertMusic(c, m) ==
    /\ ses[c].at = "music"
    /\ tab' = IF ses[c].a \in tab.album
              THEN [tab EXCEPT !.music = WithRow(@, m, [ano |-> ses[c].a, manum |-> ses[c].who])] ELSE tab
    /\ ses' = [ses EXCEPT ![c].m = m, ![c].at = "genre"]
InsertGenre(c, g) ==
    /\ ses[c].at = "genre"
    /\ tab' = IF ses[c].m \in DOMAIN tab.music THEN [tab EXCEPT !.genre = @ \cup {<<ses[c].m, g>>}] ELSE tab
    /\ At(c, "madeby")
\* Mutant: the singer is not entered for the song.
InsertMadebySinger_skipped(c) ==
    /\ ses[c].at = "madeby"
    /\ ses' = [ses EXCEPT ![c] = [Nobody EXCEPT !.role = "manager", !.who = ses[c].who]]
    /\ UNCHANGED tab

InsertMadebySinger(c) ==
    /\ ses[c].at = "madeby"
    /\ tab' = IF ses[c].m \in DOMAIN tab.music /\ ses[c].x \in tab.singer
              THEN [tab EXCEPT !.madeby = @ \cup {<<ses[c].m, ses[c].x>>}] ELSE tab
    /\ ses' = [ses EXCEPT ![c] = [Nobody EXCEPT !.role = "manager", !.who = ses[c].who]]

(* "Delete Music", "Update chart rank" *)
DeleteMusic(c, m) ==
    /\ Chooses(c, "manager", "delete music")
    /\ tab' = [tab EXCEPT !.music = Restrict(@, DOMAIN @ \ {m}),
                          !.madeby = {r \in @ : r[1] # m}, !.genre = {r \in @ : r[1] # m},
                          !.plist = {p \in @ : p.mnum # m},
                          !.clist = Restrict(@, {r \in DOMAIN @ : r[1] # m})]
    /\ UNCHANGED ses
CheckChart(c, m, ch) ==
    /\ Chooses(c, "manager", "charts")
    /\ m \in DOMAIN tab.music                               \* CheckMusic
    /\ ses' = [ses EXCEPT ![c].m = m, ![c].x = ch,
                          ![c].at = IF ch \in tab.chart THEN "rank" ELSE "chart"]
    /\ UNCHANGED tab
InsertChart(c) == /\ ses[c].at = "chart"
                  /\ tab' = [tab EXCEPT !.chart = @ \cup {ses[c].x}] /\ At(c, "first rank")
BackToMenu(c) == ses' = [ses EXCEPT ![c] = [Nobody EXCEPT !.role = ses[c].role, !.who = ses[c].who]]
\* InsertChartRank(rank, str, tmp): the rank comes in the place of the
\* music number and the music number in that of the rank.
InsertChartRank(c, rank) ==
    /\ ses[c].at = "first rank"
    /\ tab' = IF rank \in DOMAIN tab.music
              THEN [tab EXCEPT !.clist = WithRow(@, <<rank, ses[c].x>>, ses[c].m)] ELSE tab
    /\ BackToMenu(c)
ChangeChartRank(c, rank) ==
    /\ ses[c].at = "rank"
    /\ tab' = [tab EXCEPT !.clist = [r \in DOMAIN @ |-> IF r = <<ses[c].m, ses[c].x>> THEN rank ELSE @[r]]]
    /\ BackToMenu(c)
-----------------------------------------------------------------------------
(* userAction *)
\* ChangePW, ChangeEmail, ChangePhone.
ChangeInfo(c, i) ==
    /\ Chooses(c, "user", "info")
    /\ tab' = [tab EXCEPT !.user = [u \in DOMAIN @ |-> IF u = ses[c].who THEN [@[u] EXCEPT !.info = i] ELSE @[u]]]
    /\ UNCHANGED ses
InsertPlaylist(c, p) ==
    /\ Chooses(c, "user", "playlists")
    /\ tab' = IF ses[c].who \in DOMAIN tab.user
              THEN [tab EXCEPT !.playlist = @ \cup {[pno |-> p, uno |-> ses[c].who]}] ELSE tab
    /\ UNCHANGED ses
\* Mutant: without UNO in the condition.
DeletePlaylist_all(c, p) ==
    /\ Chooses(c, "user", "playlists")
    /\ tab' = [tab EXCEPT !.playlist = {r \in @ : r.pno # p}, !.plist = {r \in @ : r.pno # p}]
    /\ UNCHANGED ses

DeletePlaylist(c, p) ==
    /\ Chooses(c, "user", "playlists")
    /\ tab' = [tab EXCEPT !.playlist = @ \ {[pno |-> p, uno |-> ses[c].who]},
                          !.plist = {r \in @ : ~(r.pno = p /\ r.uno = ses[c].who)}]
    /\ UNCHANGED ses
DeleteMusicFromPlay(c, p, m) ==
    /\ Chooses(c, "user", "songs")
    /\ tab' = [tab EXCEPT !.plist = @ \ {[pno |-> p, uno |-> ses[c].who, mnum |-> m]}]
    /\ UNCHANGED ses
CheckLevel(c) == /\ Chooses(c, "user", "songs")
                 /\ ses[c].who \in DOMAIN tab.user /\ tab.user[ses[c].who].level = 1
                 /\ At(c, "songs") /\ UNCHANGED tab
\* INSERT INTO MAKEPLIST VALUES(uno, pno, mno), where the table's columns
\* are PNO, UNO and MNUM.
InsertMusicIntoPlay(c, m, p) ==
    LET row == [pno |-> ses[c].who, uno |-> p, mnum |-> m]
    IN  /\ ses[c].at = "songs"
        /\ tab' = IF [pno |-> row.pno, uno |-> row.uno] \in tab.playlist /\ m \in DOMAIN tab.music
                  THEN [tab EXCEPT !.plist = @ \cup {row}] ELSE tab
        /\ At(c, "menu")

MusNext == \E c \in Clients :
    \/ \E n \in Managers : Login(c, "manager", n)
    \/ \E n \in Unums : Login(c, "user", n)
    \/ Leave(c) \/ InsertAlbum(c) \/ BadTime(c) \/ InsertMadebySinger(c) \/ InsertChart(c) \/ CheckLevel(c)
    \/ \E u \in Unums, lev \in {1, 2} : InsertUser(c, u, lev) \/ ChangeLevel(c, u, lev)
    \/ \E u \in Unums : DeleteUser(c, u)
    \/ \E a \in Albums : CheckAlbum(c, a)
    \/ \E s \in Singers : EnterSinger(c, s)
    \/ \E g \in Genres : InsertGenre(c, g)
    \/ \E m \in Mnums : InsertMusic(c, m) \/ DeleteMusic(c, m)
    \/ \E m \in Mnums, ch \in Charts : CheckChart(c, m, ch)
    \/ \E k \in Mnums : InsertChartRank(c, k) \/ ChangeChartRank(c, k)
    \/ \E i \in Infos : ChangeInfo(c, i)
    \/ \E p \in Pnums : InsertPlaylist(c, p) \/ DeletePlaylist(c, p)
    \/ \E p \in Pnums, m \in Mnums : DeleteMusicFromPlay(c, p, m) \/ InsertMusicIntoPlay(c, m, p)

MusSpec == MusInit /\ [][MusNext]_musVars
-----------------------------------------------------------------------------
\* Every song has a genre and a singer unless an instance is in the middle of
\* inserting it, whatever the instances insert and delete meanwhile.
MusicCredited ==
    \A m \in DOMAIN tab.music :
        \/ \E c \in Clients : ses[c].at \in {"genre", "madeby"} /\ ses[c].m = m
        \/ /\ \E g \in Genres : <<m, g>> \in tab.genre
           /\ \E s \in Singers : <<m, s>> \in tab.madeby

ActsFor(u) == \E c \in Clients : ses[c].role = "user" /\ ses[c].who = u
\* The playlists of a user change only while that user is logged in, or are
\* deleted with the user.
PlaylistsOwned ==
    [][\A u \in Unums : \/ {p \in tab.playlist : p.uno = u} = {p \in tab'.playlist : p.uno = u}
                        \/ ActsFor(u)
                        \/ u \notin DOMAIN tab'.user]_musVars
-----------------------------------------------------------------------------
(* bptree.java *)
CONSTANTS BLoads       \* [degree, ins, starts, count]: the degree, the list to insert,
                       \* and where the run of count keys to delete may start

VARIABLES tree,        \* h, root, what is left to do of the load, and whether a leaf
                       \* links to one that is no longer in the tree (torn)
          up           \* what a call still does in the parent: <<>> or one frame

bpVars == <<tree, up>>

BpStart(ld) == /\ tree = [h |-> <<>>, root |-> 0, degree |-> ld.degree, ins |-> ld.ins,
                          dels |-> ld.starts, left |-> ld.count, has |-> {}, ended |-> FALSE, torn |-> FALSE]
               /\ up = <<>>
BpInit == \E ld \in BLoads : BpStart(ld)

half == tree.degree \div 2
gethalf == (tree.degree + 1) \div 2
Value(k) == k + 1000

LeafNode(pairs) == [isLeaf |-> TRUE, p |-> pairs, r |-> 0, l |-> 0, parent |-> 0]
IndexNode(pairs, last) == [isLeaf |-> FALSE, p |-> pairs, r |-> last, l |-> 0, parent |-> 0]
Pair(k, v) == [k |-> k, v |-> v]

searchForInsert(p, key) ==
    LET greater == {i \in DOMAIN p : p[i].k > key} IN IF greater = {} THEN Len(p) + 1 ELSE Min(greater)
searchKey(p, key) ==
    LET at == {i \in DOMAIN p : p[i].k = key} IN IF at = {} THEN 0 ELSE Min(at)
Child(nd, i) == IF i > Len(nd.p) THEN nd.r ELSE nd.p[i].v

RECURSIVE searchLeaf(_, _, _)
searchLeaf(h, n, key) ==
    IF h[n].isLeaf THEN n ELSE searchLeaf(h, Child(h[n], searchForInsert(h[n].p, key)), key)

New(h, nd) == [n \in 1 .. Len(h) + 1 |-> IF n <= Len(h) THEN h[n] ELSE nd]
Parented(h, children, n) == [c \in DOMAIN h |-> IF c \in children THEN [h[c] EXCEPT !.parent = n] ELSE h[c]]
Children(nd) == {nd.p[i].v : i \in DOMAIN nd.p} \cup {nd.r}
Added(p, key, v) == InsertAt(p, searchForInsert(p, key), Pair(key, v))
-----------------------------------------------------------------------------
(* Insertion *)

\* The node x, split from the left of n, comes under n's parent with the key
\* `key': under a new root, into a parent with room, or into a full parent,
\* which splits in turn.  In that case x.parent is left to that split.
Hoist(t, h, n, x, key) ==
    LET q == h[n].parent
        y == Len(h) + 1
    IN  \/ /\ q = 0
           /\ tree' = [t EXCEPT !.root = y,
                                !.h = Parented(New(h, IndexNode(<<Pair(key, x)>>, n)), {n, x}, y)]
           /\ up' = <<>>
        \/ /\ q # 0 /\ Len(h[q].p) # t.degree
           /\ tree' = [t EXCEPT !.h = [Parented(h, {x}, q) EXCEPT ![q].p = Added(@, key, x)]]
           /\ up' = <<>>
        \/ /\ q # 0 /\ Len(h[q].p) = t.degree
           /\ tree' = [t EXCEPT !.h = h]
           /\ up' = <<[op |-> "split", n |-> q, key |-> key, x |-> x]>>

\* Mutant: the left neighbour keeps pointing past the new leaf.
SplitLeaf_unlinked(h, n, q, x) ==
    [New(h, [LeafNode(SubSeq(q, 1, gethalf)) EXCEPT !.r = n, !.l = h[n].l])
        EXCEPT ![n].p = SubSeq(q, gethalf + 1, Len(q)), ![n].l = x]

SplitLeaf(h, n, q, x) ==
    LET h1 == New(h, [LeafNode(SubSeq(q, 1, gethalf)) EXCEPT !.r = n, !.l = h[n].l])
        h2 == [h1 EXCEPT ![n].p = SubSeq(q, gethalf + 1, Len(q)), ![n].l = x]
    IN  IF h[n].l = 0 THEN h2 ELSE [h2 EXCEPT ![h[n].l].r = x]

Insertion ==
    LET k == Head(tree.ins)
        t == [tree EXCEPT !.ins = Tail(@), !.has = @ \cup {k}]
        n == searchLeaf(tree.h, tree.root, k)
        q == Added(tree.h[n].p, k, Value(k))
        x == Len(tree.h) + 1
    IN  /\ up = <<>> /\ ~tree.ended /\ tree.ins # <<>>
        /\ \/ /\ tree.root = 0
              /\ tree' = [t EXCEPT !.h = <<LeafNode(<<Pair(k, Value(k))>>)>>, !.root = 1]
              /\ up' = <<>>
           \/ /\ tree.root # 0 /\ Len(tree.h[n].p) < tree.degree
              /\ tree' = [t EXCEPT !.h[n].p = q]
              /\ up' = <<>>
           \/ /\ tree.root # 0 /\ Len(tree.h[n].p) = tree.degree
              /\ Hoist(t, SplitLeaf(tree.h, n, q, x), n, x, q[gethalf + 1].k)

\* Mutant: the last child of the new node keeps its old parent.
SplitIndex_last(f) ==
    LET q == Added(tree.h[f.n].p, f.key, f.x)
        x == Len(tree.h) + 1
        new == IndexNode(SubSeq(q, 1, gethalf), q[gethalf + 1].v)
        h == [New(tree.h, new) EXCEPT ![f.n].p = SubSeq(q, gethalf + 2, Len(q))]
    IN  Hoist(tree, Parented(h, Children(new) \ {new.r}, x), f.n, x, q[gethalf + 1].k)

\* IndexNode.split, and the loop of its caller that gives the children of
\* the new node their parent.
SplitIndex(f) ==
    LET q == Added(tree.h[f.n].p, f.key, f.x)
        x == Len(tree.h) + 1
        new == IndexNode(SubSeq(q, 1, gethalf), q[gethalf + 1].v)
        h == [New(tree.h, new) EXCEPT ![f.n].p = SubSeq(q, gethalf + 2, Len(q))]
    IN  Hoist(tree, Parented(h, Children(new), x), f.n, x, q[gethalf + 1].k)
Split == up # <<>> /\ up[1].op = "split" /\ SplitIndex(up[1])
-----------------------------------------------------------------------------
(* Deletion *)

Throw == tree' = [tree EXCEPT !.ended = TRUE] /\ up' = <<>>
Deleted(t, h) == tree' = [t EXCEPT !.h = h] /\ up' = <<>>
Above(t, h, n, place) == tree' = [t EXCEPT !.h = h] /\ up' = <<[op |-> "delete", n |-> n, place |-> place]>>
\* The key at `place' of node n becomes k.
Rekey(t, h, n, place, k) ==
    IF place \in DOMAIN h[n].p THEN Deleted(t, [h EXCEPT ![n].p[place].k = k]) ELSE Throw

BorrowLeft(t, h, n) ==
    LET lf == h[h[n].l].p
        moved == lf[Len(lf)]
        q == h[n].parent
    IN  Rekey(t, [h EXCEPT ![h[n].l].p = Front(lf), ![n].p = <<moved>> \o @], q,
              searchForInsert(h[q].p, moved.k), moved.k)
BorrowRight(t, h, n, key) ==
    LET rt == h[h[n].r].p
        q == h[n].parent
    IN  Rekey(t, [h EXCEPT ![h[n].r].p = Tail(rt), ![n].p = Append(@, rt[1])], q,
              searchForInsert(h[q].p, key) - 1, rt[2].k)
\* Mutant: the merged leaf does not take the place of the emptied one.
MergeLeft_dangling(t, h, n) ==
    LET lf == h[n].l
        h1 == [h EXCEPT ![lf].p = @ \o h[n].p, ![n].p = <<>>, ![lf].r = h[n].r, ![h[n].r].l = lf]
    IN  Above(t, h1, h[n].parent, searchForInsert(h[h[n].parent].p, h1[lf].p[1].k))

\* Into the left neighbour, with a right neighbour under the same parent.
MergeLeft(t, h, n) ==
    LET lf == h[n].l
        q == h[n].parent
        h1 == [h EXCEPT ![lf].p = @ \o h[n].p, ![n].p = <<>>, ![lf].r = h[n].r, ![h[n].r].l = lf]
        place == searchForInsert(h[q].p, h1[lf].p[1].k)
    IN  IF place + 1 \in DOMAIN h[q].p
        THEN Above(t, [h1 EXCEPT ![q].p[place + 1].v = lf], q, place) ELSE Throw
\* Into the left neighbour, from the last child: left.l.r = this.
MergeLast(t, h, n) ==
    LET lf == h[n].l
        q == h[n].parent
        h1 == [h EXCEPT ![lf].p = @ \o h[n].p, ![n].p = <<>>, ![h[lf].l].r = n, ![n].l = h[lf].l, ![q].r = lf]
    IN  IF h[lf].l = 0 THEN Throw
        ELSE Above([t EXCEPT !.torn = TRUE], h1, q, searchForInsert(h[q].p, h[lf].p[1].k))
\* Into the right neighbour, from the first child: right.l = null, and the
\* leaf before n under another parent keeps its link to n.
MergeRight(t, h, n) ==
    LET rt == h[n].r
        q == h[n].parent
        h1 == [h EXCEPT ![rt].p = h[n].p \o @, ![n].p = <<>>, ![rt].l = 0]
    IN  Above([t EXCEPT !.torn = @ \/ h[n].l # 0], h1, q, searchForInsert(h[q].p, h1[rt].p[1].k))

\* A leaf at half its size from which the pair at i went; h without it.
Rebalance(t, h, n, i) ==
    LET q == h[n].parent
        hasL == h[n].l # 0 /\ h[h[n].l].parent = q
        hasR == h[n].r # 0 /\ h[h[n].r].parent = q
        rich(m) == Len(h[m].p) > half
    IN  \/ hasL /\ rich(h[n].l) /\ BorrowLeft(t, h, n)
        \/ hasL /\ ~rich(h[n].l) /\ hasR /\ rich(h[n].r) /\ BorrowRight(t, h, n, h[h[n].r].p[1].k)
        \/ hasL /\ ~rich(h[n].l) /\ hasR /\ ~rich(h[n].r) /\ MergeLeft(t, h, n)
        \/ hasL /\ ~rich(h[n].l) /\ ~hasR /\ MergeLast(t, h, n)
        \/ ~hasL /\ hasR /\ rich(h[n].r) /\ BorrowRight(t, h, n, h[h[n].r].p[2].k)
        \/ ~hasL /\ hasR /\ ~rich(h[n].r) /\ MergeRight(t, h, n)
        \/ /\ ~hasL /\ ~hasR
           /\ IF i \in DOMAIN h[n].p THEN Deleted(t, [h EXCEPT ![n].p = RemoveAt(@, i)]) ELSE Throw

\* The keys to delete are a run of consecutive ones.
Deletion(k) ==
    LET t == [tree EXCEPT !.dels = {k + 1}, !.left = @ - 1, !.has = @ \ {k}]
        n == searchLeaf(tree.h, tree.root, k)
        i == searchKey(tree.h[n].p, k)
        h == [tree.h EXCEPT ![n].p = RemoveAt(@, i)]
    IN  /\ up = <<>> /\ ~tree.ended /\ tree.ins = <<>> /\ tree.left > 0 /\ tree.root # 0
        /\ \/ i = 0 /\ Deleted(t, tree.h)
           \/ i # 0 /\ (tree.h[n].parent = 0 \/ Len(tree.h[n].p) # half) /\ Deleted(t, h)
           \/ i # 0 /\ tree.h[n].parent # 0 /\ Len(tree.h[n].p) = half /\ Rebalance(t, h, n, i)

\* IndexNode.delete at half its size, below the root; h without the pair.
IndexBorrowLeft(h, n, q, pos, lf) ==
    LET last == h[lf].p[Len(h[lf].p)]
        h1 == [h EXCEPT ![n].p = <<Pair(h[q].p[pos - 1].k, h[lf].r)>> \o @, ![h[lf].r].parent = n,
                        ![q].p[pos - 1].k = last.k, ![lf].r = last.v, ![lf].p = Front(@)]
    IN  Deleted(tree, h1)
IndexBorrowRight(h, n, q, pos, rt) ==
    LET first == h[rt].p[1]
        h1 == [h EXCEPT ![n].p = Append(@, Pair(h[q].p[pos].k, h[n].r)), ![n].r = first.v,
                        ![first.v].parent = n, ![q].p[pos].k = first.k, ![rt].p = Tail(@)]
    IN  Deleted(tree, h1)
IndexMergeLeft(h, n, q, pos, lf) ==
    LET h1 == [h EXCEPT ![lf].p = Append(@, Pair(h[q].p[pos - 1].k, h[lf].r)) \o h[n].p, ![lf].r = h[n].r,
                        ![n].p = <<>>]
        h2 == IF pos > Len(h[q].p) THEN [h1 EXCEPT ![q].r = lf] ELSE [h1 EXCEPT ![q].p[pos].v = lf]
    IN  Above(tree, Parented(h2, Children(h[n]), lf), q, pos - 1)
IndexMergeRight(h, n, q, pos, rt) ==
    LET h1 == [h EXCEPT ![rt].p = Append(h[n].p, Pair(h[q].p[pos].k, h[n].r)) \o @, ![n].p = <<>>]
    IN  Above(tree, Parented(h1, Children(h[n]), rt), q, pos)

IndexRebalance(h, n) ==
    LET q == h[n].parent
        pos == searchForInsert(h[q].p, h[n].p[1].k)
        lf == IF pos = 1 THEN 0 ELSE h[q].p[pos - 1].v
        rt == IF pos > Len(h[q].p) THEN 0 ELSE Child(h[q], pos + 1)
        rich(m) == m # 0 /\ Len(h[m].p) > half
    IN  \/ h[n].p = <<>> /\ Throw
        \/ h[n].p # <<>> /\ rich(lf) /\ IndexBorrowLeft(h, n, q, pos, lf)
        \/ h[n].p # <<>> /\ ~rich(lf) /\ rich(rt) /\ IndexBorrowRight(h, n, q, pos, rt)
        \/ h[n].p # <<>> /\ ~rich(lf) /\ ~rich(rt) /\ lf # 0 /\ IndexMergeLeft(h, n, q, pos, lf)
        \/ h[n].p # <<>> /\ ~rich(rt) /\ lf = 0 /\ rt # 0 /\ IndexMergeRight(h, n, q, pos, rt)
        \/ h[n].p # <<>> /\ lf = 0 /\ rt = 0 /\ Deleted(tree, h)

\* IndexNode.delete.  A root left with one pair gives way to its last child.
DeletePair ==
    LET n == up[1].n
        nd == tree.h[n]
        h == [tree.h EXCEPT ![n].p = RemoveAt(@, up[1].place)]
    IN  /\ up # <<>> /\ up[1].op = "delete"
        /\ \/ up[1].place \notin DOMAIN nd.p /\ Throw
           \/ /\ up[1].place \in DOMAIN nd.p
              /\ \/ Len(nd.p) > half /\ Deleted(tree, h)
                 \/ Len(nd.p) = half /\ nd.parent = 0 /\ Deleted(tree, h)
                 \/ Len(nd.p) = half /\ nd.parent # 0 /\ IndexRebalance(h, n)
                 \/ Len(nd.p) < half /\ nd.parent # 0 /\ Deleted(tree, tree.h)
                 \/ Len(nd.p) < half /\ nd.parent = 0 /\ Len(nd.p) # 2 /\ Deleted(tree, h)
                 \/ /\ Len(nd.p) < half /\ nd.parent = 0 /\ Len(nd.p) = 2
                    /\ Deleted([tree EXCEPT !.root = nd.r], [h EXCEPT ![nd.r].parent = 0])

BpNext == Insertion \/ Split \/ DeletePair \/ \E k \in tree.dels : Deletion(k)
BpSpec == BpInit /\ [][BpNext]_bpVars
-----------------------------------------------------------------------------
(* Bplustree.search and Bplustree.rsearch *)
search(k) == LET p == tree.h[searchLeaf(tree.h, tree.root, k)].p
             IN  IF searchKey(p, k) = 0 THEN 0 ELSE p[searchKey(p, k)].v
\* What rsearch prints from the leaf n on; an empty leaf, where it throws, as a
\* pair of its own.
RECURSIVE Walk(_, _, _)
Walk(n, from, finish) ==
    LET p == tree.h[n].p
        past == {i \in from .. Len(p) : p[i].k > finish}
    IN  IF p = <<>> THEN <<Pair(0, 0)>>
        ELSE IF past # {} THEN SubSeq(p, from, Min(past) - 1)
        ELSE SubSeq(p, from, Len(p)) \o IF tree.h[n].r = 0 THEN <<>> ELSE Walk(tree.h[n].r, 1, finish)
rsearch(start, finish) ==
    LET n == searchLeaf(tree.h, tree.root, start)
        p == tree.h[n].p
        inside == {i \in DOMAIN p : p[i].k \in start .. finish}
    IN  IF inside = {} THEN <<>> ELSE Walk(n, Min(inside), finish)
-----------------------------------------------------------------------------
BKeys == UNION {Range(ld.ins) : ld \in BLoads}
Settled == up = <<>> /\ tree.root # 0
\* After every insertion and deletion the search finds exactly the keys that
\* were inserted and not deleted, each with its value, however the nodes were
\* split, merged and rebalanced; and no call throws.
TreeExact == /\ ~tree.ended
             /\ Settled => \A k \in BKeys : search(k) = IF k \in tree.has THEN Value(k) ELSE 0

RECURSIVE Below(_)
Below(n) == {n} \cup IF tree.h[n].isLeaf THEN {} ELSE UNION {Below(c) : c \in Children(tree.h[n])}
\* bptree.java:814, "the new index node is returned to help set the parent",
\* and the loops over its children at 388-393 and 804-809: when a call is
\* over every node of the tree points to the node above it.  A node that
\* comes to lie in the right half of a split index node is in no loop.
ParentsSet ==
    Settled => /\ tree.h[tree.root].parent = 0
               /\ \A n \in {m \in Below(tree.root) : ~tree.h[m].isLeaf} :
                      \A c \in Children(tree.h[n]) : tree.h[c].parent = n
\* Every node of the tree points to the node above it, which is what the next
\* split or merge goes by, and apart from the root is at least half full.
NodesSound == ParentsSet /\ (Settled => \A n \in Below(tree.root) :
                                /\ Len(tree.h[n].p) <= tree.degree
                                /\ n # tree.root => Len(tree.h[n].p) >= half)
\* rsearch from a key in the tree prints every pair of the range, in order,
\* also after deletions that borrow and merge, until one merges the first or
\* the last leaf of an index node and a link is lost.  After deletions the
\* whole range is asked for, which goes through all the links.
Ranges == IF Cardinality(tree.dels) > 1 THEN tree.has \X BKeys
          ELSE IF tree.has = {} THEN {} ELSE {<<Min(tree.has), Max(tree.has)>>}
RangeExact == Settled /\ ~tree.torn => \A ab \in Ranges : ab[1] <= ab[2] =>
    LET out == rsearch(ab[1], ab[2])
    IN  /\ Range(out) = {Pair(k, Value(k)) : k \in {c \in tree.has : ab[1] <= c /\ c <= ab[2]}}
        /\ \A i \in 1 .. Len(out) - 1 : out[i].k < out[i + 1].k
=============================================================================
