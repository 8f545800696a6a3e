---------------------------- MODULE FileSystem -----------------------------
(***************************************************************************)
(* The inode layer, path names and the file system calls (kernel/fs.c,     *)
(* sysfile.c, file.c).  A process runs one call at a time, between         *)
(* begin_op() and end_op(); the calls of different processes interleave.   *)
(* A section of code that runs with an inode locked is one step, because   *)
(* what it touches is guarded by that lock; a lock that is held across a   *)
(* step is recorded in the inode table.  iput() is split where it gives up *)
(* itable.lock.                                                            *)
(*                                                                         *)
(* Log.tla models the transactions: a crash leaves the disk as it was when *)
(* last no call was in progress, so Restart is taken in those states only. *)
(***************************************************************************)
EXTENDS InodeData, FiniteSets

CONSTANTS Proc, NoProc,
          MAXOPBLOCKS,
          Workloads     \* a sequence of [Proc -> sets of requests]; one is chosen at the start

VARIABLES dinode,       \* the inodes on disk
          disk,         \* the bitmap and the data blocks, see Disk in InodeData
          itable,       \* the in-memory inodes, by inode number
          cwd, fd,      \* of each process; a process has one descriptor
          k,            \* the call a process is in
          work,         \* which of the Workloads this behaviour has
          panic,        \* panic() was called
          stale         \* history: a removed directory was given a new entry, or
                        \* its ".." was followed

vars == <<dinode, disk, itable, cwd, fd, k, work, panic, stale>>

NoRequest == [op |-> "none"]

Idle == [pc |-> "idle", req |-> NoRequest, path |-> <<>>, ip |-> 0, held |-> 0,
         put |-> 0, ret |-> "idle"]

Closed == [ip |-> 0, off |-> 0, writable |-> FALSE]

(* A free slot of itable.                                                  *)
NoInode == [ref |-> 0, lock |-> NoProc, valid |-> FALSE, inode |-> FreeInode]

(* The requests that end in create().                                      *)
Creating(req) == req.op \in {"creat", "mkdir", "mknod"}

(* A device whose major number is out of range is of type "nodevice".      *)
TypeOf(req) == CASE req.op = "creat" -> "file"
                 [] req.op = "mkdir" -> "dir"
                 [] req.op = "mknod" -> IF req.major THEN "device" ELSE "nodevice"

(* The call looks up the parent of its path; link() does for its second.   *)
WantsParent(c) == Creating(c.req) \/ c.req.op = "unlink" \/ c.held # 0

-----------------------------------------------------------------------------
(* The inode table.                                                        *)

(* iget() and idup(): a slot that is taken anew is not valid.              *)
iget(t, i) == [t EXCEPT ![i] = IF @.ref = 0 THEN [NoInode EXCEPT !.ref = 1]
                               ELSE [@ EXCEPT !.ref = @ + 1]]

(* ilock(): the lock is free, and the inode is read if it is not valid.    *)
CanLock(i) == itable[i].lock = NoProc

ilock(i) == IF itable[i].valid THEN itable[i].inode ELSE dinode[i]

(* panic("ilock: no type"): the inode was freed.                           *)
BadLock(i) == ilock(i).type = "none"

(* The table with the loaded and maybe changed inode ip, and its lock.     *)
Keep(t, i, ip, owner) ==
    [t EXCEPT ![i] = [@ EXCEPT !.lock = owner, !.valid = TRUE, !.inode = ip]]

iunlock(t, i, ip) == Keep(t, i, ip, NoProc)

(* What lasts of a disk record.                                            *)
Blocks(d) == [used |-> d.used, data |-> d.data, under |-> d.under]

(* iupdate(); d is the disk after the changes to the inode's blocks.       *)
iupdate(i, ip, d) ==
    /\ dinode' = [dinode EXCEPT ![i] = ip]
    /\ disk' = Blocks(d)

(* What writei() leaves on disk; it returns -1 before it does anything.    *)
Written(i, w) == IF w.tot = -1 THEN UNCHANGED <<dinode, disk>> ELSE iupdate(i, w.ip, w.d)

D == Disk(disk.used, disk.data, disk.under)

(* The process goes on at pc, after an iput() of inode i.                  *)
ThenPut(p, c, i, pc) == k' = [k EXCEPT ![p] = [c EXCEPT !.pc = "put", !.put = i, !.ret = pc]]

Goto(p, c, pc) == k' = [k EXCEPT ![p] = IF pc = "idle" THEN Idle ELSE [c EXCEPT !.pc = pc]]

(* Where a call goes on when its path cannot be found.                     *)
Failed(c) == IF c.held # 0 THEN "link_bad" ELSE "idle"

ThenFail(p, c) == ThenPut(p, [c EXCEPT !.ip = 0], c.ip, Failed(c))

UnchangedDisk == UNCHANGED <<dinode, disk>>
UnchangedFiles == UNCHANGED <<cwd, fd, work>>
Quiet == UNCHANGED <<panic, stale>>

Panics(b) == panic' = (panic \/ b)

-----------------------------------------------------------------------------
(* iput().                                                                 *)

(* Variant: nlink is looked at in an inode that was never read.            *)
LastRef_unread(i) == itable[i].ref = 1 /\ itable[i].inode.nlink = 0

(* Variant: a reference that is about to be given up is not counted.       *)
LastRef_early(i) == itable[i].ref <= 2 /\ itable[i].valid /\ itable[i].inode.nlink = 0

(* Variant: directories are forgotten.                                     *)
LastRef_files(i) == itable[i].ref = 1 /\ itable[i].inode.type = "file" /\ itable[i].inode.nlink = 0

(* The last reference to an inode without links.                           *)
LastRef(i) == itable[i].ref = 1 /\ itable[i].valid /\ itable[i].inode.nlink = 0

(* ref-- and the return from iput().                                       *)
Dropped(p) ==
    /\ itable' = [itable EXCEPT ![k[p].put] =
                    IF @.ref = 1 THEN NoInode ELSE [@ EXCEPT !.ref = @ - 1]]
    /\ Goto(p, [k[p] EXCEPT !.put = 0], k[p].ret)

Iput(p) ==
    /\ k[p].pc = "put"
    /\ UnchangedDisk /\ UnchangedFiles /\ Quiet
    /\ IF LastRef(k[p].put)
       THEN /\ CanLock(k[p].put)
            /\ itable' = [itable EXCEPT ![k[p].put].lock = p]
            /\ Goto(p, k[p], "free")
       ELSE Dropped(p)

(* itrunc(), type 0, iupdate(), and the lock is released.                  *)
IputFree(p) ==
    LET i == k[p].put
        t == itrunc(D, itable[i].inode)
    IN /\ k[p].pc = "free"
       /\ iupdate(i, [t.ip EXCEPT !.type = "none"], t.d)
       /\ itable' = [itable EXCEPT ![i].valid = FALSE, ![i].inode = FreeInode, ![i].lock = NoProc]
       /\ Panics(t.d.panic)
       /\ Goto(p, k[p], "drop")
       /\ UnchangedFiles /\ UNCHANGED stale

IputDrop(p) ==
    /\ k[p].pc = "drop"
    /\ Dropped(p)
    /\ UnchangedDisk /\ UnchangedFiles /\ Quiet

-----------------------------------------------------------------------------
(* Path names.                                                             *)

(* A path that starts with 0 is absolute.                                  *)
StartOf(p, path) == IF Head(path) = 0 THEN ROOTINO ELSE cwd[p]
Elements(path) == IF Head(path) = 0 THEN Tail(path) ELSE path

(* Where a call goes on with the inode its path leads to.                  *)
Found(c) == IF Creating(c.req) THEN "create" ELSE
            IF c.held # 0 THEN "link_dp" ELSE c.req.op

(* The call is at its last element, and wants the directory that has it.   *)
AtParent(c) == WantsParent(c) /\ Len(c.path) = 1

(* The element is an entry for inode next: iget() and the next round.      *)
Descend(p, c, t, next) ==
    LET rest == [c EXCEPT !.ip = next, !.path = Tail(@)]
    IN /\ itable' = iget(t, next)
       /\ ThenPut(p, rest, c.ip,
                  IF rest.path = <<>> /\ ~WantsParent(c) THEN Found(c) ELSE "walk")

(* One round of namex() with dp locked; t is the table with dp unlocked.   *)
LookUp(p, c, t, dp) ==
    \/ /\ dp.type # "dir"
       /\ itable' = t
       /\ ThenFail(p, c)
    \/ /\ dp.type = "dir" /\ AtParent(c)
       /\ itable' = t
       /\ Goto(p, c, Found(c))
    \/ /\ dp.type = "dir" /\ ~AtParent(c)
       /\ \E next \in {dirlookup(D, dp, Head(c.path))} :
            IF next # 0 THEN Descend(p, c, t, next)
            ELSE itable' = t /\ ThenFail(p, c)

(* namex() from the head of its loop, with the inode table t: one element  *)
(* of the path is looked up with ip locked, or the path is exhausted.      *)
namex(p, c, t) ==
    \/ /\ c.path = <<>>
       /\ itable' = t
       /\ IF WantsParent(c) THEN ThenFail(p, c) ELSE Goto(p, c, Found(c))
       /\ UNCHANGED <<panic, stale>>
    \/ /\ c.path # <<>>
       /\ CanLock(c.ip)
       /\ Panics(BadLock(c.ip))
       /\ stale' = (stale \/ (ilock(c.ip).nlink = 0 /\ Head(c.path) = DotDot /\ ~AtParent(c)))
       /\ LookUp(p, c, iunlock(t, c.ip, ilock(c.ip)), ilock(c.ip))

(* begin_op(), and namex() up to its first iput(): the idup() of the       *)
(* working directory, or the iget() of the root, is seen by nobody else.   *)
Begin(p) == \E r \in {x \in Workloads[work][p] : x.op \notin {"close", "write", "read", "crash"}} :
    LET start == StartOf(p, r.path) IN
    /\ k[p].pc = "idle"
    /\ namex(p, [Idle EXCEPT !.pc = "walk", !.req = r, !.path = Elements(r.path), !.ip = start],
             iget(itable, start))
    /\ UnchangedDisk /\ UnchangedFiles

Walk(p) ==
    /\ k[p].pc = "walk"
    /\ namex(p, k[p], itable)
    /\ UnchangedDisk /\ UnchangedFiles

-----------------------------------------------------------------------------
(* sys_open().                                                             *)

(* The end of sys_open() with the inode locked: a descriptor is free and   *)
(* the file may be truncated, or the call gives the inode up, as it does   *)
(* if a device has no valid number.                                        *)
OpenFile(p, c, i, ip) ==
    IF fd[p] # Closed \/ ip.type = "nodevice"
    THEN /\ itable' = iunlock(itable, i, ip)
         /\ ThenPut(p, [c EXCEPT !.ip = 0, !.held = 0], i, "idle")
         /\ Panics(BadLock(i))
         /\ UnchangedDisk /\ UNCHANGED fd
    ELSE /\ fd' = [fd EXCEPT ![p] = [ip |-> i, off |-> 0, writable |-> c.req.writable]]
         /\ Goto(p, c, "idle")
         /\ IF c.req.trunc /\ ip.type = "file"
            THEN LET t == itrunc(D, ip) IN
                 /\ iupdate(i, t.ip, t.d)
                 /\ itable' = iunlock(itable, i, t.ip)
                 /\ Panics(t.d.panic)
            ELSE /\ UnchangedDisk
                 /\ itable' = iunlock(itable, i, ip)
                 /\ Panics(BadLock(i))

(* open() without O_CREATE.                                                *)
Open(p) ==
    LET c == k[p]
        ip == ilock(c.ip)
    IN /\ c.pc = "open"
       /\ CanLock(c.ip)
       /\ IF ip.type = "dir" /\ (c.req.writable \/ c.req.trunc)
          THEN /\ itable' = iunlock(itable, c.ip, ip)
               /\ ThenPut(p, [c EXCEPT !.ip = 0], c.ip, "idle")
               /\ UnchangedDisk /\ UNCHANGED <<fd, panic>>
          ELSE OpenFile(p, c, c.ip, ip)
       /\ UNCHANGED <<cwd, work, stale>>

-----------------------------------------------------------------------------
(* create(), for open(), mkdir() and mknod().                              *)

(* ialloc(): the first free inode on disk, 0 if there is none.             *)
FreeInum == LET f == {i \in Inum : dinode[i].type = "none"}
            IN IF f = {} THEN 0 ELSE FirstOf(f)

(* The entries "." and ".." of a new directory; w is the dirlink() of ".". *)
DotEntries(w, dpnum) == IF w.tot = 1 THEN dirlink(w.d, w.ip, DotDot, dpnum) ELSE w

(* The new inode with the entries it needs; tot is 1 on success.           *)
NewNode(i, type, dpnum) ==
    IF type = "dir" THEN DotEntries(dirlink(D, NewInode(type), Dot, i), dpnum)
    ELSE [d |-> D, ip |-> NewInode(type), off |-> 0, tot |-> 1]

(* Its name in dp; dirlink() is only called if the new inode is complete.  *)
NameNode(w, dp, name, i) ==
    IF w.tot = 1 THEN dirlink(w.d, dp, name, i) ELSE [w EXCEPT !.ip = dp]

(* The name is there already: dp is given up, and the inode is next.       *)
CreateExisting(p, c, dp, there) ==
    /\ there # 0
    /\ itable' = iget(iunlock(itable, c.ip, dp), there)
    /\ ThenPut(p, [c EXCEPT !.ip = 0, !.held = there], c.ip, "create_found")
    /\ UnchangedDisk /\ UNCHANGED stale

CreateNoInode(p, c, dp, there) ==
    /\ there = 0 /\ FreeInum = 0
    /\ itable' = iunlock(itable, c.ip, dp)
    /\ ThenPut(p, [c EXCEPT !.ip = 0], c.ip, "idle")
    /\ UnchangedDisk /\ UNCHANGED stale

(* Both inodes and the blocks as create() leaves them.                     *)
NodesWritten(d, i, ip, j, dp) ==
    /\ dinode' = [dinode EXCEPT ![i] = ip, ![j] = dp]
    /\ disk' = Blocks(d)

(* new is the inode after NewNode(), named the parent after NameNode().    *)
CreateNode(p, c, i, new, named) ==
    LET dp == IF new.ip.type = "dir" /\ named.tot = 1 THEN [named.ip EXCEPT !.nlink = @ + 1]
              ELSE named.ip
        ip == IF named.tot = 1 THEN new.ip ELSE [new.ip EXCEPT !.nlink = 0]
    IN /\ NodesWritten(named.d, i, ip, c.ip, dp)
       /\ IF named.tot = 1
          THEN /\ itable' = Keep(iunlock(iget(itable, i), c.ip, dp), i, ip, p)
               /\ ThenPut(p, [c EXCEPT !.ip = 0, !.held = i], c.ip, "created")
          ELSE /\ itable' = iunlock(Keep(iget(itable, i), c.ip, dp, p), i, ip)
               /\ ThenPut(p, c, i, "create_undo")
       /\ stale' = (stale \/ (named.tot = 1 /\ named.ip.nlink = 0))

CreateNew(p, c, dp, there) ==
    /\ there = 0 /\ FreeInum # 0
    /\ CanLock(FreeInum)
    /\ \E new \in {NewNode(FreeInum, TypeOf(c.req), c.ip)} :
       \E named \in {NameNode(new, dp, Head(c.path), FreeInum)} :
           CreateNode(p, c, FreeInum, new, named)

Create(p) ==
    LET c == k[p] IN
    /\ c.pc = "create"
    /\ CanLock(c.ip)
    /\ Panics(BadLock(c.ip))
    /\ \E dp \in {ilock(c.ip)} : \E there \in {dirlookup(D, ilock(c.ip), Head(c.path))} :
          \/ CreateExisting(p, c, dp, there)
          \/ CreateNoInode(p, c, dp, there)
          \/ CreateNew(p, c, dp, there)
    /\ UnchangedFiles

(* The name was there: an existing file or device will do for open().      *)
CreateFound(p) ==
    LET c == k[p]
        ip == ilock(c.held)
    IN /\ c.pc = "create_found"
       /\ CanLock(c.held)
       /\ IF c.req.op = "creat" /\ ip.type \in {"file", "device", "nodevice"}
          THEN OpenFile(p, c, c.held, ip)
          ELSE /\ itable' = iunlock(itable, c.held, ip)
               /\ ThenPut(p, [c EXCEPT !.held = 0], c.held, "idle")
               /\ Panics(BadLock(c.held))
               /\ UnchangedDisk /\ UNCHANGED fd
       /\ UNCHANGED <<cwd, work, stale>>

(* The caller of create() with the new inode, still locked.                *)
Created(p) ==
    LET c == k[p]
        ip == itable[c.held].inode
    IN /\ c.pc = "created"
       /\ IF c.req.op = "creat" THEN OpenFile(p, c, c.held, ip)
          ELSE /\ itable' = iunlock(itable, c.held, ip)
               /\ ThenPut(p, [c EXCEPT !.held = 0], c.held, "idle")
               /\ UnchangedDisk /\ UNCHANGED <<fd, panic>>
       /\ UNCHANGED <<cwd, work, stale>>

(* create() failed; the new inode is gone and the parent is released.      *)
CreateUndo(p) ==
    LET c == k[p] IN
    /\ c.pc = "create_undo"
    /\ itable' = iunlock(itable, c.ip, itable[c.ip].inode)
    /\ ThenPut(p, [c EXCEPT !.ip = 0], c.ip, "idle")
    /\ UnchangedDisk /\ UnchangedFiles /\ Quiet

-----------------------------------------------------------------------------
(* sys_unlink().                                                           *)

UnlinkDp(p) ==
    LET c == k[p] IN
       /\ c.pc = "unlink"
       /\ CanLock(c.ip)
       /\ Panics(BadLock(c.ip))
       /\ \E there \in {dirlookup(D, ilock(c.ip), Head(c.path))} :
            IF Head(c.path) \in {Dot, DotDot} \/ there = 0
            THEN /\ itable' = iunlock(itable, c.ip, ilock(c.ip))
                 /\ ThenPut(p, [c EXCEPT !.ip = 0], c.ip, "idle")
            ELSE /\ itable' = iget(Keep(itable, c.ip, ilock(c.ip), p), there)
                 /\ Goto(p, [c EXCEPT !.held = there], "unlink_ip")
       /\ UnchangedDisk /\ UnchangedFiles /\ UNCHANGED stale

(* The parent after the entry is cleared; ".." goes with a directory.      *)
Unnamed(dp, type) == IF type = "dir" THEN [dp EXCEPT !.nlink = @ - 1] ELSE dp

(* Variant: without the second iupdate(dp).                                *)
Cleared_unsaved(p, c, w, ip) ==
    /\ iupdate(c.ip, w.ip, w.d)
    /\ itable' = Keep(iunlock(itable, c.ip, Unnamed(w.ip, ip.type)), c.held, ip, p)
    /\ ThenPut(p, [c EXCEPT !.ip = 0], c.ip, "unlink_end")

Cleared(p, c, w, ip) ==
    /\ iupdate(c.ip, Unnamed(w.ip, ip.type), w.d)
    /\ itable' = Keep(iunlock(itable, c.ip, Unnamed(w.ip, ip.type)), c.held, ip, p)
    /\ ThenPut(p, [c EXCEPT !.ip = 0], c.ip, "unlink_end")

(* With both locked: the entry is cleared and the parent released.         *)
UnlinkIp(p) ==
    LET c == k[p]
        ip == ilock(c.held)
    IN /\ c.pc = "unlink_ip"
       /\ CanLock(c.held)
       /\ Panics(BadLock(c.held) \/ ip.nlink < 1)
       /\ IF ip.type = "dir" /\ ~isdirempty(D, ip)
          THEN /\ itable' = iunlock(itable, c.held, ip)
               /\ ThenPut(p, [c EXCEPT !.held = 0], c.held, "unlink_bad")
               /\ UnchangedDisk
          ELSE \E w \in {clearentry(D, itable[c.ip].inode, Head(c.path))} : Cleared(p, c, w, ip)
       /\ UnchangedFiles /\ UNCHANGED stale

UnlinkBad(p) ==
    LET c == k[p] IN
    /\ c.pc = "unlink_bad"
    /\ itable' = iunlock(itable, c.ip, itable[c.ip].inode)
    /\ ThenPut(p, [c EXCEPT !.ip = 0], c.ip, "idle")
    /\ UnchangedDisk /\ UnchangedFiles /\ Quiet

UnlinkEnd(p) ==
    LET c == k[p]
        ip == [itable[c.held].inode EXCEPT !.nlink = @ - 1]
    IN /\ c.pc = "unlink_end"
       /\ iupdate(c.held, ip, D)
       /\ itable' = iunlock(itable, c.held, ip)
       /\ ThenPut(p, [c EXCEPT !.held = 0], c.held, "idle")
       /\ UnchangedFiles /\ Quiet

-----------------------------------------------------------------------------
(* sys_link() and sys_chdir().                                             *)

(* The old name: one link more, and the lookup of the new name's parent.   *)
Link(p) ==
    LET c == k[p]
        ip == ilock(c.ip)
        more == [ip EXCEPT !.nlink = @ + 1]
        start == StartOf(p, c.req.path2)
    IN /\ c.pc = "link"
       /\ CanLock(c.ip)
       /\ Panics(BadLock(c.ip))
       /\ IF ip.type = "dir"
          THEN /\ itable' = iunlock(itable, c.ip, ip)
               /\ ThenPut(p, [c EXCEPT !.ip = 0], c.ip, "idle")
               /\ UnchangedDisk
          ELSE /\ iupdate(c.ip, more, D)
               /\ itable' = iget(iunlock(itable, c.ip, more), start)
               /\ Goto(p, [c EXCEPT !.held = c.ip, !.ip = start,
                                    !.path = Elements(c.req.path2)], "walk")
       /\ UnchangedFiles /\ UNCHANGED stale

(* The new name.  dirlink() gives the inode back that has it already,      *)
(* while the directory is locked.                                          *)
LinkTaken(p, c, there) ==
    /\ itable' = iget(Keep(itable, c.ip, ilock(c.ip), p), there)
    /\ ThenPut(p, c, there, "link_taken")
    /\ UnchangedDisk /\ UNCHANGED stale

LinkNew(p, c) == \E w \in {dirlink(D, ilock(c.ip), Head(c.path), c.held)} :
    /\ Written(c.ip, w)
    /\ itable' = iunlock(itable, c.ip, w.ip)
    /\ ThenPut(p, [c EXCEPT !.ip = 0], c.ip, IF w.tot = 1 THEN "link_end" ELSE "link_bad")
    /\ stale' = (stale \/ (w.tot = 1 /\ w.ip.nlink = 0))

LinkDp(p) ==
    LET c == k[p] IN
    /\ c.pc = "link_dp"
    /\ CanLock(c.ip)
    /\ Panics(BadLock(c.ip))
    /\ \E there \in {dirlookup(D, ilock(c.ip), Head(c.path))} :
          IF there # 0 THEN LinkTaken(p, c, there) ELSE LinkNew(p, c)
    /\ UnchangedFiles

LinkTakenEnd(p) ==
    LET c == k[p] IN
    /\ c.pc = "link_taken"
    /\ itable' = iunlock(itable, c.ip, itable[c.ip].inode)
    /\ ThenPut(p, [c EXCEPT !.ip = 0], c.ip, "link_bad")
    /\ UnchangedDisk /\ UnchangedFiles /\ Quiet

(* Variant: without iput(ip).                                              *)
LinkEnd_noput(p) ==
    /\ k[p].pc = "link_end"
    /\ k' = [k EXCEPT ![p] = Idle]
    /\ UNCHANGED itable /\ UnchangedDisk /\ UnchangedFiles /\ Quiet

LinkEnd(p) ==
    /\ k[p].pc = "link_end"
    /\ ThenPut(p, [k[p] EXCEPT !.held = 0], k[p].held, "idle")
    /\ UNCHANGED itable /\ UnchangedDisk /\ UnchangedFiles /\ Quiet

(* Variant: the link is not taken back.                                    *)
LinkBad_kept(p) ==
    /\ k[p].pc = "link_bad"
    /\ ThenPut(p, [k[p] EXCEPT !.held = 0], k[p].held, "idle")
    /\ UNCHANGED itable /\ UnchangedDisk /\ UnchangedFiles /\ Quiet

(* The new name could not be made: the link is taken back.                 *)
LinkBad(p) ==
    LET c == k[p]
        less == [ilock(c.held) EXCEPT !.nlink = @ - 1]
    IN /\ c.pc = "link_bad"
       /\ CanLock(c.held)
       /\ Panics(BadLock(c.held))
       /\ iupdate(c.held, less, D)
       /\ itable' = iunlock(itable, c.held, less)
       /\ ThenPut(p, [c EXCEPT !.held = 0], c.held, "idle")
       /\ UnchangedFiles /\ UNCHANGED stale

Chdir(p) ==
    LET c == k[p]
        ip == ilock(c.ip)
    IN /\ c.pc = "chdir"
       /\ CanLock(c.ip)
       /\ Panics(BadLock(c.ip))
       /\ itable' = iunlock(itable, c.ip, ip)
       /\ IF ip.type = "dir" THEN ThenPut(p, c, cwd[p], "chdir_end")
          ELSE ThenPut(p, [c EXCEPT !.ip = 0], c.ip, "idle")
       /\ UnchangedDisk /\ UnchangedFiles /\ UNCHANGED stale

ChdirEnd(p) ==
    /\ k[p].pc = "chdir_end"
    /\ cwd' = [cwd EXCEPT ![p] = k[p].ip]
    /\ k' = [k EXCEPT ![p] = Idle]
    /\ UNCHANGED <<itable, fd, work>> /\ UnchangedDisk /\ Quiet

-----------------------------------------------------------------------------
(* Descriptors: fileclose(), fileread(), filewrite().                      *)

Asked(p, op) == {r \in Workloads[work][p] : r.op = op}

Close(p) == \E r \in Asked(p, "close") :
    /\ k[p].pc = "idle"
    /\ fd[p] # Closed
    /\ fd' = [fd EXCEPT ![p] = Closed]
    /\ ThenPut(p, [Idle EXCEPT !.req = r], fd[p].ip, "idle")
    /\ UNCHANGED <<itable, cwd, work>> /\ UnchangedDisk /\ Quiet

Read(p) == \E r \in Asked(p, "read") :
    LET i == fd[p].ip
        got == readi(D, ilock(i), fd[p].off, r.n)
    IN /\ k[p].pc = "idle"
       /\ fd[p] # Closed
       /\ CanLock(i)
       /\ ilock(i).type # "device"
       /\ fd' = [fd EXCEPT ![p].off = @ + Len(got)]
       /\ itable' = iunlock(itable, i, ilock(i))
       /\ UNCHANGED <<k, cwd, work>> /\ UnchangedDisk /\ Quiet

(* The cells filewrite() writes in one transaction.                        *)
max == ((MAXOPBLOCKS - 1 - 1 - 2) \div 2) * BSIZE

Chunk(buf) == SubSeq(buf, 1, IF Len(buf) > max THEN max ELSE Len(buf))

WriteStart(p) == \E r \in Asked(p, "write") :
    /\ k[p].pc = "idle"
    /\ fd[p].writable
    /\ ilock(fd[p].ip).type = "file"
    /\ Goto(p, [Idle EXCEPT !.req = r, !.path = r.buf], "write")
    /\ UNCHANGED itable /\ UnchangedDisk /\ UnchangedFiles /\ Quiet

(* What writei() does to the next chunk.  k.path is what is left of the    *)
(* buffer, of which only the first req.good cells have a valid address.    *)
NextWrite(p, c) ==
    writei(D, ilock(fd[p].ip), fd[p].off, Chunk(c.path),
           c.req.good - (Len(c.req.buf) - Len(c.path)))

(* Outside begin_op() .. end_op().                                         *)
Outside(p) == k[p].pc \in {"idle", "write"}

(* A block whose copy fails may have been logged earlier in a transaction  *)
(* that is still open because another call is in progress: then all of its *)
(* buffer is committed.                                                    *)
Committed(p, w) ==
    {w} \cup IF \A q \in Proc \ {p} : Outside(q) THEN {}
            ELSE {[w EXCEPT !.d.under = Restrict(@, DOMAIN disk.under \cap DOMAIN @)]}

(* One transaction of filewrite().                                         *)
WriteChunk(p) ==
    LET c == k[p]
        n1 == Len(Chunk(c.path))
    IN /\ c.pc = "write"
       /\ CanLock(fd[p].ip)
       /\ \E w \in Committed(p, NextWrite(p, c)) :
            /\ Written(fd[p].ip, w)
            /\ itable' = iunlock(itable, fd[p].ip, w.ip)
            /\ fd' = IF w.tot > 0 THEN [fd EXCEPT ![p].off = @ + w.tot] ELSE fd
            /\ IF w.tot # n1 \/ Len(c.path) = n1 THEN Goto(p, c, "idle")
               ELSE Goto(p, [c EXCEPT !.path = SubSeq(@, n1 + 1, Len(@))], "write")
       /\ UNCHANGED <<cwd, work, panic, stale>>

-----------------------------------------------------------------------------
(* The whole system.                                                       *)

(* bget() recycles the buffer of b (external, see Bcache.tla): what was    *)
(* not logged is forgotten.                                                *)
Evict(b) ==
    /\ b \in DOMAIN disk.under
    /\ disk' = [disk EXCEPT !.data[b] = disk.under[b], !.under = Without(@, b)]
    /\ UNCHANGED <<dinode, itable, cwd, fd, k, work, panic, stale>>

(* The disk without its buffers.                                           *)
OnDisk == [disk EXCEPT !.data = disk.under @@ @, !.under = AllLogged]

(* A crash, recovery from the log, and the first process of the new boot   *)
(* in the root directory; see the head of the module.                      *)
Restart ==
    /\ \E p \in Proc : Asked(p, "crash") # {}
    /\ \A p \in Proc : Outside(p)
    /\ itable' = [[i \in Inum |-> NoInode] EXCEPT ![ROOTINO].ref = Cardinality(Proc)]
    /\ cwd' = [p \in Proc |-> ROOTINO]
    /\ fd' = [p \in Proc |-> Closed]
    /\ k' = [p \in Proc |-> Idle]
    /\ disk' = OnDisk
    /\ UNCHANGED <<dinode, work, panic, stale>>

(* panic() stops the machine.                                              *)
Halted == panic /\ UNCHANGED vars

Init ==
    /\ dinode = mkfs.dinode
    /\ disk = Blocks(mkfs.d)
    /\ itable = [[i \in Inum |-> NoInode] EXCEPT ![ROOTINO].ref = Cardinality(Proc)]
    /\ cwd = [p \in Proc |-> ROOTINO]
    /\ fd = [p \in Proc |-> Closed]
    /\ k = [p \in Proc |-> Idle]
    /\ work \in DOMAIN Workloads
    /\ panic = FALSE
    /\ stale = FALSE

Step(p) ==
    \/ Begin(p) \/ Walk(p)
    \/ Iput(p) \/ IputFree(p) \/ IputDrop(p)
    \/ Open(p) \/ Create(p) \/ CreateFound(p) \/ Created(p) \/ CreateUndo(p)
    \/ UnlinkDp(p) \/ UnlinkIp(p) \/ UnlinkBad(p) \/ UnlinkEnd(p)
    \/ Link(p) \/ LinkDp(p) \/ LinkTakenEnd(p) \/ LinkEnd(p) \/ LinkBad(p)
    \/ Chdir(p) \/ ChdirEnd(p)
    \/ Close(p) \/ Read(p) \/ WriteStart(p) \/ WriteChunk(p)

Next == \/ ~panic /\ \E p \in Proc : Step(p)
        \/ ~panic /\ (Restart \/ \E b \in Block : Evict(b))
        \/ Halted

Spec == Init /\ [][Next]_vars

-----------------------------------------------------------------------------
(* Properties.                                                             *)

Count(P(_)) == Cardinality({p \in Proc : P(p)})

(* ref of every in-memory inode is the number of pointers the kernel has   *)
(* to it: the working directories, the open files, and those of the calls  *)
(* in progress (iget, idup, iput).                                         *)
RefsExact == \A i \in Inum :
    itable[i].ref = Count(LAMBDA p : cwd[p] = i /\ k[p].ret # "chdir_end")
                    + Count(LAMBDA p : fd[p].ip = i) + Count(LAMBDA p : k[p].ip = i)
                    + Count(LAMBDA p : k[p].held = i) + Count(LAMBDA p : k[p].put = i)

(* unlink() has cleared the entry and not yet counted it.                  *)
Dying(i) == \E p \in Proc : k[p].held = i /\ k[p].ret = "unlink_end"

(* link() has counted an entry that is not there yet, or will not be.      *)
Promised(i) == Count(LAMBDA p : k[p].held = i /\ k[p].req.op = "link" /\ k[p].ret # "link_end")

(* The entries, "." aside, of the directories that are themselves named:   *)
(* directory, place and the inode that is named.                           *)
NamingEntries == UNION {
    LET e == Entries(D, dinode[j])
    IN {<<j, x, DeInum(e[x])>> : x \in {y \in 1..Len(e) : DeName(e[y]) # Dot}} :
    j \in {i \in Inum : dinode[i].type = "dir" /\ dinode[i].nlink > 0 /\ ~Dying(i)}}

(* nlink on disk is the number of directory entries for the inode, "."     *)
(* aside, at every step of concurrent create, link and unlink calls, as    *)
(* long as nothing is put into a directory that was removed.               *)
LinksExact == ~stale =>
    LET all == NamingEntries IN
    \A i \in Inum : dinode[i].type # "none" =>
        dinode[i].nlink = Cardinality({e \in all : e[3] = i}) + Promised(i)
                          + (IF Dying(i) THEN 1 ELSE 0)

(* The bitmap marks the blocks of the allocated inodes and no others, no   *)
(* block is used twice (balloc, bfree, bmap, itrunc), and every block      *)
(* below the size of an inode is there.                                    *)
BlocksExact ==
    LET own(i) == BlocksOf(D, dinode[i])
        blocks == UNION {{own(i)[x] : x \in 1..Len(own(i))} : i \in Inum}
    IN /\ disk.used = blocks
       /\ Cardinality(blocks) = FoldLeft(LAMBDA n, i : n + Len(own(i)), 0, [i \in Inum |-> i])
       /\ \A i \in Inum : \A bn \in 0..MAXFILE-1 :
            bn * BSIZE < dinode[i].size => bmap(D, dinode[i], bn).d.logged = {}

(* A valid in-memory inode agrees with the disk whenever it is unlocked,   *)
(* and also between the steps of a call: iupdate() "must be called after   *)
(* every change to an ip->xxx field that lives on disk" (fs.c:222), and is.*)
InodesWrittenBack == \A i \in Inum : itable[i].valid => itable[i].inode = dinode[i]

(* "ip->ref == 1 means no other process can have ip locked, so this        *)
(* acquiresleep() won't block (or deadlock)".                              *)
IputNeverBlocks == \A p \in Proc :
    k[p].pc = "put" /\ LastRef(k[p].put) => CanLock(k[p].put)

(* Allocated on disk, with neither links nor references.                   *)
Orphan(i) == dinode[i].type # "none" /\ dinode[i].nlink = 0 /\ itable[i].ref = 0

(* "If that was the last reference and the inode has no links to it, free  *)
(* the inode (and its content) on disk" (iput): a step leaves an inode     *)
(* behind that nothing can reach only at a restart, or in the window in    *)
(* which iput() has freed the inode and still counts as a reference (an    *)
(* inode reused there stays behind if its own last iput() comes before the *)
(* end of the window).                                                     *)
LastPutFreesUnlessReused == [][\A i \in Inum :
    Orphan(i)' => \/ Orphan(i) \/ Restart
                  \/ \E p \in Proc : k[p].pc = "drop" /\ k[p].put = i]_vars

(* The kernel panics (ilock: no type, unlink: nlink < 1, freeing free      *)
(* block) only where the ".." of a removed directory was followed or a     *)
(* removed directory was given an entry.                                   *)
NoPanic == panic => stale

AllRequests == UNION {Workloads[w][p] : w \in DOMAIN Workloads, p \in Proc}

(* The bytes of the files and the offsets of the descriptors.              *)
IsFile(i) == i # 0 /\ dinode[i].type = "file"

Contents(d) == [i \in Inum |-> IF IsFile(i) THEN Entries(d, dinode[i]) ELSE <<>>]

(* Where byte x of file i is, and the bytes that differ on the disk, as    *)
(* they are there.                                                         *)
BlockOf(i, x) == bmap(D, dinode[i], (x - 1) \div BSIZE).addr
CellOf(x) == (x - 1) % BSIZE

Unlogged(i) ==
    [x \in {y \in 1..(IF IsFile(i) THEN dinode[i].size ELSE 0) :
              \E b \in {BlockOf(i, y)} \cap DOMAIN disk.under :
                 disk.under[b][CellOf(y)] # disk.data[b][CellOf(y)]} |->
        disk.under[BlockOf(i, x)][CellOf(x)]]

F == INSTANCE Files WITH
        content <- Contents(D),
        behind <- [i \in Inum |-> IF disk.under = AllLogged THEN AllLogged ELSE Unlogged(i)],
        fd <- [p \in Proc |-> IF fd[p].ip # 0 /\ IsFile(fd[p].ip)
                              THEN [ip |-> fd[p].ip, off |-> fd[p].off]
                              ELSE [ip |-> 0, off |-> 0]],
        out <- [p \in Proc |-> IF k[p].pc = "write" THEN k[p].path ELSE <<>>],
        Byte <- Nat \ {0}, MaxIO <- max,
        Buffers <- {r.buf : r \in {x \in AllRequests : x.op = "write"}}

(* The blocks, the indirect blocks and the chunks of filewrite() implement *)
(* files that are plain sequences of bytes: what a write has stored stays  *)
(* there, over a restart too, and only the bytes that a failing copy from  *)
(* user memory left in a buffer (fs.c:522) may vanish again.               *)
ImplementsFiles == F!Spec
=============================================================================
