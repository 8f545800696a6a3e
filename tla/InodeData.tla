----------------------------- MODULE InodeData -----------------------------
(***************************************************************************)
(* Blocks and inode contents (kernel/fs.c, mkfs/mkfs.c): the free bitmap,  *)
(* the direct and indirect blocks of an inode, reading and writing at an   *)
(* offset, directory entries, and the image mkfs builds.  The definitions  *)
(* are functions of a disk record d and of the in-memory inode ip of which *)
(* the caller holds the lock; each returns what the C function leaves.     *)
(*                                                                         *)
(* A block holds BSIZE cells.  A cell is a byte of a file, a block number  *)
(* of an indirect block, or a directory entry; 0 is the cell of a zeroed   *)
(* block.                                                                  *)
(***************************************************************************)
EXTENDS Integers, Sequences, SequencesExt, TLC

CONSTANTS BSIZE,        \* cells of a block, and so NINDIRECT
          NDIRECT,
          NBLOCKS,      \* data blocks of the disk
          NINODES,      \* inodes of the disk
          ImageFiles    \* contents of the files mkfs puts in the root directory

(* The root directory of the image does not end at a block boundary: mkfs  *)
(* rounds its size up to the next block even if it is a multiple of BSIZE. *)
ASSUME FsAssumption ==
    /\ BSIZE \in Nat \ {0} /\ NDIRECT \in Nat \ {0}
    /\ NBLOCKS \in Nat /\ NINODES \in Nat \ {0}
    /\ (2 + Len(ImageFiles)) % BSIZE # 0

Block == 1..NBLOCKS

Inum == 1..NINODES

ROOTINO == 1

MAXFILE == NDIRECT + BSIZE

(* Names are numbers; the first two are "." and "..".                      *)
Dot == 1
DotDot == 2
FirstName == 3

(* struct dirent; inum 0 marks a free entry.                               *)
Dirent(name, inum) == name * (NINODES + 1) + inum
DeInum(cell) == cell % (NINODES + 1)
DeName(cell) == cell \div (NINODES + 1)

(* struct dinode; addrs[NDIRECT] is the indirect block, block 0 is none.   *)
FreeInode == [type |-> "none", nlink |-> 0, size |-> 0, addrs |-> [i \in 0..NDIRECT |-> 0]]

Zeroes == [i \in 0..BSIZE-1 |-> 0]

(* A disk record: the blocks marked in the bitmap; the contents of blocks  *)
(* as bread() returns them; what the disk has of a block whose buffer was  *)
(* changed without log_write(); the blocks given to log_write() ("bitmap"  *)
(* and "inode" among them); and whether the code panics.                   *)
Disk(used, data, under) ==
    [used |-> used, data |-> data, under |-> under, logged |-> {}, panic |-> FALSE]

AllLogged == [b \in {} |-> Zeroes]

Without(f, b) == Restrict(f, DOMAIN f \ {b})

(* The whole buffer of b is part of the transaction.                       *)
log_write(d, b) ==
    [d EXCEPT !.logged = @ \cup {<<"block", b>>}, !.under = Without(@, b)]

-----------------------------------------------------------------------------
(* The block allocator.                                                    *)

(* balloc() takes the first free block and zeroes it; 0 if there is none.  *)
balloc(d) ==
    IF Block \subseteq d.used THEN [d |-> d, addr |-> 0]
    ELSE LET b == CHOOSE x \in Block \ d.used : \A y \in Block \ d.used : x <= y
         IN [d |-> log_write([d EXCEPT !.used = @ \cup {b}, !.data[b] = Zeroes,
                                       !.logged = @ \cup {<<"bitmap", 0>>}], b),
             addr |-> b]

(* What a free block holds is not kept: balloc() zeroes a block before     *)
(* anybody can read it.                                                    *)
bfree(d, b) ==
    [d EXCEPT !.used = @ \ {b}, !.data[b] = Zeroes, !.logged = @ \cup {<<"bitmap", 0>>},
              !.under = Without(@, b), !.panic = @ \/ b \notin d.used]

-----------------------------------------------------------------------------
(* The blocks of an inode.                                                 *)

(* A block address that is kept, or allocated if it is 0.                  *)
AddrOrNew(d, addr) == IF addr = 0 THEN balloc(d) ELSE [d |-> d, addr |-> addr]

(* r becomes entry i of ip.addrs.                                          *)
SetAddr(r, ip, i) == [d |-> r.d, ip |-> [ip EXCEPT !.addrs[i] = r.addr], addr |-> r.addr]

(* r becomes cell x of the indirect block f; a new one is logged.          *)
SetCell(f, x, r) ==
    [d |-> IF r.d = f.d THEN f.d
           ELSE log_write([r.d EXCEPT !.data[f.addr][x] = r.addr], f.addr),
     ip |-> f.ip, addr |-> r.addr]

Indirect(f, x) == IF f.addr = 0 THEN f ELSE SetCell(f, x, AddrOrNew(f.d, f.d.data[f.addr][x]))

(* bmap(): the address of block bn of ip, allocated if it has none; 0 if   *)
(* there is no block left.                                                 *)
bmap(d, ip, bn) ==
    IF bn < NDIRECT THEN SetAddr(AddrOrNew(d, ip.addrs[bn]), ip, bn)
    ELSE Indirect(SetAddr(AddrOrNew(d, ip.addrs[NDIRECT]), ip, NDIRECT), bn - NDIRECT)

(* The blocks itrunc() frees, in its order.                                *)
BlocksOf(d, ip) ==
    LET direct == [i \in 1..NDIRECT |-> ip.addrs[i - 1]]
        ind == ip.addrs[NDIRECT]
    IN SelectSeq(IF ind = 0 THEN direct
                 ELSE direct \o [i \in 1..BSIZE |-> d.data[ind][i - 1]] \o <<ind>>,
                 LAMBDA b : b # 0)

itrunc(d, ip) ==
    [d |-> FoldLeft(bfree, d, BlocksOf(d, ip)),
     ip |-> [ip EXCEPT !.size = 0, !.addrs = FreeInode.addrs]]

-----------------------------------------------------------------------------
(* Reading and writing.                                                    *)

CellAt(at, x) == IF at.addr = 0 THEN 0 ELSE at.d.data[at.addr][x]

(* What readi() copies out: n cells from off, fewer at the end of ip.  A   *)
(* block below the size that was never allocated would be allocated here,  *)
(* and read as zeroes; the invariants show that there is none.             *)
readi(d, ip, off, n) ==
    IF off > ip.size THEN <<>>
    ELSE [i \in 1..(IF off + n > ip.size THEN ip.size - off ELSE n) |->
            CellAt(bmap(d, ip, (off + i - 1) \div BSIZE), (off + i - 1) % BSIZE)]

(* Variant: the place in the block is not taken into account.              *)
PieceLen_whole(off, left) == IF left < BSIZE THEN left ELSE BSIZE

(* The cells of one piece: up to the end of the buffer or of the block.    *)
PieceLen(off, left) == IF left < BSIZE - (off % BSIZE) THEN left ELSE BSIZE - (off % BSIZE)

(* The buffer of block at.addr with the m cells of buf after the first tot *)
(* at x.                                                                   *)
either_copyin(at, x, m, buf, tot) ==
    [at.d EXCEPT !.data[at.addr] = [i \in x..x + m - 1 |-> buf[tot + 1 + i - x]] @@ @]

(* either_copyin() fails after it has copied m cells: nothing is logged,   *)
(* unless the block is part of the transaction already.                    *)
CopyFails(at, x, m, buf, tot) ==
    IF m = 0 THEN at.d
    ELSE [either_copyin(at, x, m, buf, tot) EXCEPT
            !.under = IF <<"block", at.addr>> \in at.d.logged THEN @
                      ELSE @ @@ (at.addr :> at.d.data[at.addr])]

(* The loop of writei(); w has the disk, the inode, the offset and the     *)
(* cells written so far.  Only the first good cells of the caller's buffer *)
(* are mapped: either_copyin() fails where they end.                       *)
RECURSIVE WriteLoop(_, _, _)
WritePiece(w, at, m, buf, good) ==
    IF at.addr = 0 THEN [w EXCEPT !.d = at.d, !.ip = at.ip]
    ELSE IF w.tot + m > good
    THEN [w EXCEPT !.d = CopyFails(at, w.off % BSIZE, good - w.tot, buf, w.tot), !.ip = at.ip]
    ELSE WriteLoop([d |-> log_write(either_copyin(at, w.off % BSIZE, m, buf, w.tot), at.addr),
                    ip |-> at.ip, off |-> w.off + m, tot |-> w.tot + m], buf, good)
WriteLoop(w, buf, good) ==
    IF w.tot = Len(buf) THEN w
    ELSE WritePiece(w, bmap(w.d, w.ip, w.off \div BSIZE), PieceLen(w.off, Len(buf) - w.tot), buf, good)

WriteAll(d, ip, off, buf, good) ==
    WriteLoop([d |-> d, ip |-> ip, off |-> off, tot |-> 0], buf, good)

(* The end of writei(): the size grows, and the inode is logged.           *)
Finish(w) == [w EXCEPT !.ip.size = IF w.off > @ THEN w.off ELSE @,
                       !.d.logged = @ \cup {<<"inode", 0>>}]

(* The loop stopped early and the blocks it allocated are forgotten.       *)
Forget(w, ip, n) == IF w.tot < n THEN [w EXCEPT !.ip = ip] ELSE w

(* Variant: the inode is written back only if all was written.             *)
writei_lazy(d, ip, off, buf, good) ==
    IF off > ip.size \/ off + Len(buf) > MAXFILE * BSIZE
    THEN [d |-> d, ip |-> ip, off |-> off, tot |-> -1]
    ELSE Forget(Finish(WriteAll(d, ip, off, buf, good)), ip, Len(buf))

(* writei(): tot is what it returns; the caller's iupdate() stands for the *)
(* one at its end.                                                         *)
writei(d, ip, off, buf, good) ==
    IF off > ip.size \/ off + Len(buf) > MAXFILE * BSIZE
    THEN [d |-> d, ip |-> ip, off |-> off, tot |-> -1]
    ELSE Finish(WriteAll(d, ip, off, buf, good))

-----------------------------------------------------------------------------
(* Directories; e is the sequence of entries.                              *)

Entries(d, dp) == readi(d, dp, 0, dp.size)

Matches(e, name) == {i \in 1..Len(e) : DeInum(e[i]) # 0 /\ DeName(e[i]) = name}

FirstOf(S) == CHOOSE x \in S : \A y \in S : x <= y

LookupIn(e, name) == IF Matches(e, name) = {} THEN 0 ELSE DeInum(e[FirstOf(Matches(e, name))])

(* dirlookup(): the inode number, 0 if absent.                             *)
dirlookup(d, dp, name) == LookupIn(Entries(d, dp), name)

(* The offset of the first free entry, or of the end.                      *)
FreeEntry(e) == FirstOf({i \in 1..Len(e) : DeInum(e[i]) = 0} \cup {Len(e) + 1}) - 1

LinkIn(d, dp, e, name, inum) ==
    IF Matches(e, name) # {} THEN [d |-> d, ip |-> dp, off |-> 0, tot |-> -1]
    ELSE writei(d, dp, FreeEntry(e), <<Dirent(name, inum)>>, 1)

(* dirlink(): tot is 1 on success, -1 if the name is there already.        *)
dirlink(d, dp, name, inum) == LinkIn(d, dp, Entries(d, dp), name, inum)

(* unlink() overwrites the entry of name with zeroes.                      *)
clearentry(d, dp, name) ==
    writei(d, dp, FirstOf(Matches(Entries(d, dp), name)) - 1, <<0>>, 1)

(* isdirempty(): nothing after the first two entries.                      *)
isdirempty(d, dp) == \A i \in 3..dp.size : DeInum(readi(d, dp, i - 1, 1)[1]) = 0

-----------------------------------------------------------------------------
(* The image built by mkfs.                                                *)

(* iappend() takes the blocks in increasing order, as balloc() does from   *)
(* an empty bitmap; mkfs marks them in the bitmap at the end.              *)
Appended(dinode, inum, w) == [d |-> w.d, dinode |-> [dinode EXCEPT ![inum] = w.ip]]

iappend(img, inum, buf) ==
    Appended(img.dinode, inum,
             writei(img.d, img.dinode[inum], img.dinode[inum].size, buf, Len(buf)))

NewInode(type) == [FreeInode EXCEPT !.type = type, !.nlink = 1]

(* File i of the image gets inode i + 1 and a name of its own.             *)
AddFile(img, i) ==
    iappend(iappend([img EXCEPT !.dinode[i + 1] = NewInode("file")],
                    ROOTINO, <<Dirent(FirstName + i - 1, i + 1)>>),
            i + 1, ImageFiles[i])

BlankImage == [d |-> Disk({}, [b \in Block |-> Zeroes], AllLogged),
               dinode |-> [[i \in Inum |-> FreeInode] EXCEPT ![ROOTINO] = NewInode("dir")]]

mkfs ==
    LET root == iappend(BlankImage, ROOTINO, <<Dirent(Dot, ROOTINO), Dirent(DotDot, ROOTINO)>>)
        full == FoldLeft(AddFile, root, [i \in 1..Len(ImageFiles) |-> i])
    IN [full EXCEPT !.dinode[ROOTINO].size = (@ \div BSIZE + 1) * BSIZE]

=============================================================================
