--------------------------- MODULE MCFileSystem ----------------------------
(* Instances of FileSystem for TLC.                                        *)
EXTENDS FileSystem

CONSTANTS p1, p2

A == FirstName
B == FirstName + 1

Req(op, path) == [op |-> op, path |-> path, path2 |-> <<>>, trunc |-> FALSE, writable |-> FALSE,
                  major |-> TRUE]
Wr(op, path) == [Req(op, path) EXCEPT !.writable = TRUE]
Tr(op, path) == [Wr(op, path) EXCEPT !.trunc = TRUE]
NoMajor(path) == [Req("mknod", path) EXCEPT !.major = FALSE]
Ln(old, new) == [Req("link", old) EXCEPT !.path2 = new]
ReadReq(n) == [op |-> "read", n |-> n]
WriteReq(buf, good) == [op |-> "write", buf |-> buf, good |-> good]
CloseReq == [op |-> "close"]
Crash == [op |-> "crash"]

(* The only file of the image: name A, two bytes.                          *)
OneFile == <<<<1, 2>>>>

For(a, b) == [p \in {p1, p2} |-> IF p = p1 THEN a ELSE b]

(* Directories that are made, entered and removed.                         *)
Directories ==
    For({Req("mkdir", <<0>>), Req("mkdir", <<B>>), Req("mkdir", <<B, B>>), Req("chdir", <<B>>), Req("chdir", <<DotDot>>)},
        {Req("unlink", <<B>>), Req("unlink", <<B, B>>), Req("unlink", <<0, B, A>>),
         Req("creat", <<B, A>>)})

(* One file under several names.                                           *)
Links ==
    For({Ln(<<A>>, <<B>>), Ln(<<B>>, <<A, A>>), Req("open", <<B>>), CloseReq},
        {Req("unlink", <<A>>), Req("unlink", <<B>>), Req("mknod", <<B>>), Crash})

(* The contents of files.                                                  *)
Data ==
    For({Wr("creat", <<A>>), WriteReq(<<1, 2, 1>>, 3), WriteReq(<<1>>, 0),
         CloseReq},
        {Tr("open", <<A>>), Req("mkdir", <<B>>), ReadReq(2), CloseReq})

(* Writes from a buffer of which only the first byte is mapped.            *)
Faults ==
    For({Wr("open", <<A>>), WriteReq(<<2, 1, 2>>, 1), CloseReq},
        {Wr("open", <<A>>), WriteReq(<<1, 1, 2>>, 3), Req("unlink", <<A>>), CloseReq, Crash})

(* Devices that are opened, with and without a driver.                     *)
Devices ==
    For({Req("open", <<B>>), CloseReq},
        {NoMajor(<<B>>), Req("unlink", <<B>>), Wr("creat", <<B>>), CloseReq})

(* Each of them is one choice of Init.                                     *)
AllWorkloads == <<Directories, Links, Data, Faults, Devices>>
=============================================================================
