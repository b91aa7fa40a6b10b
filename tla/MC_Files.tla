----------------------------- MODULE MC_Files -----------------------------
(* Programs that use names of the root directory, and a directory d in it. *)
EXTENDS Files

CONSTANTS p1, p2

Path(op, path) == [op |-> op, path |-> path, abs |-> TRUE]
OpenCall(path, create) ==
    [op |-> "open", path |-> path, abs |-> TRUE, create |-> create, write |-> TRUE]
LinkOf(old, new) == [op |-> "link", path |-> old, new |-> new, abs |-> TRUE]
MC_Close == [op |-> "close"]

\* Calls that allocate an inode, which are made one at a time: an allocation
\* while another process is in iput may get the inode number that iput frees.
MC_Solo == {OpenCall(<<"a">>, TRUE), Path("mkdir", <<"d">>), Path("mknod", <<"b">>)}

\* A directory that is removed while it is somebody's current one, or open.
MC_OpenUp == [op |-> "open", path |-> <<"..", "d">>, abs |-> FALSE, create |-> FALSE, write |-> FALSE]
MC_Cwd == {Path("mkdir", <<"d">>), Path("unlink", <<"d">>), Path("chdir", <<"d">>), MC_OpenUp}
MC_Dir == {Path("mkdir", <<"d">>), Path("unlink", <<"d">>), MC_OpenUp, MC_Close}
\* A file that is removed while it is open.
MC_File == {OpenCall(<<"a">>, TRUE), OpenCall(<<"a">>, FALSE), Path("unlink", <<"a">>), MC_Close}
\* Links to names that are free, taken, and in a directory that is not there.
MC_Links == {OpenCall(<<"a">>, TRUE), Path("unlink", <<"a">>), Path("unlink", <<"b">>),
             LinkOf(<<"a">>, <<"b">>), LinkOf(<<"a">>, <<"d", "b">>)}
\* Descriptors of a device.
MC_Dup == {OpenCall(<<"b">>, FALSE), Path("mknod", <<"b">>), MC_Close, [op |-> "dup"]}
MC_Loads == {MC_Cwd, MC_Dir, MC_File, MC_Links, MC_Dup}
=============================================================================
