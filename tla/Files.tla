------------------------------- MODULE Files -------------------------------
(***************************************************************************)
(* What the file layer promises: every file has a sequence of bytes, and   *)
(* a process reads and writes the file of its descriptor at the            *)
(* descriptor's offset.  A write that fails may leave some of its bytes    *)
(* behind, which are forgotten sooner or later, or not.  Where the bytes   *)
(* are on the disk is not part of this specification.                      *)
(***************************************************************************)
EXTENDS Integers, Sequences, Functions, TLC

CONSTANTS Proc, Inum, Byte,
          Buffers,      \* what a process may ask to write
          MaxIO         \* bytes moved by one step at most

VARIABLES content,      \* [Inum -> Seq(Byte)], what a read returns
          behind,       \* [Inum -> what bytes left behind by failed writes, by
                        \* their places, go back to when they are forgotten]
          fd,           \* [Proc -> [ip, off]], ip 0 when nothing is open
          out           \* [Proc -> Seq(Byte)], what is left of a process' write

vars == <<content, behind, fd, out>>

(* The bytes s with those from off on replaced by t.                       *)
Overlay(s, off, t) ==
    [i \in 1..(IF off + Len(t) > Len(s) THEN off + Len(t) ELSE Len(s)) |->
        IF i > off /\ i <= off + Len(t) THEN t[i - off] ELSE s[i]]

Nothing == [x \in {} |-> 0]

Init == /\ content \in [Inum -> Seq(Byte)]
        /\ behind = [i \in Inum |-> Nothing]
        /\ fd = [p \in Proc |-> [ip |-> 0, off |-> 0]]
        /\ out = [p \in Proc |-> <<>>]

(* Opening may truncate the file that is opened.                           *)
Open(p) == \E i \in Inum :
    /\ fd[p].ip = 0
    /\ fd' = [fd EXCEPT ![p] = [ip |-> i, off |-> 0]]
    /\ \/ UNCHANGED <<content, behind>>
       \/ content' = [content EXCEPT ![i] = <<>>] /\ behind' = [behind EXCEPT ![i] = Nothing]
    /\ UNCHANGED out

Close(p) == /\ fd[p].ip # 0
            /\ fd' = [fd EXCEPT ![p] = [ip |-> 0, off |-> 0]]
            /\ UNCHANGED <<content, behind, out>>

Ask(p) == /\ fd[p].ip # 0 /\ out[p] = <<>>
          /\ UNCHANGED fd
          /\ \E b \in Buffers : out' = [out EXCEPT ![p] = b]
          /\ UNCHANGED <<content, behind>>

(* The places of n bytes at an offset.                                     *)
Places(off, n) == off + 1..off + n

(* The next n bytes are stored at the offset, which advances by n; the     *)
(* rest may be given up.  The file is never left with a gap.  What failed  *)
(* writes left behind may become permanent with them.                      *)
Write(p, n) ==
    LET i == fd[p].ip
        s == SubSeq(out[p], 1, n)
    IN /\ out[p] # <<>> /\ n <= Len(out[p])
       /\ fd' = [fd EXCEPT ![p].off = @ + n]
       /\ \/ out' = [out EXCEPT ![p] = <<>>]
          \/ out' = [out EXCEPT ![p] = SubSeq(@, n + 1, Len(@))]
       /\ \/ n = 0 /\ UNCHANGED <<content, behind>>
          \/ /\ n > 0 /\ fd[p].off <= Len(content[i])
             /\ content' = [content EXCEPT ![i] = Overlay(@, fd[p].off, s)]
             /\ DOMAIN behind'[i] \subseteq DOMAIN behind[i] \ Places(fd[p].off, n)
             /\ behind' = [behind EXCEPT ![i] = Restrict(@, DOMAIN behind'[i])]

(* The same of a write that fails and leaves j bytes more behind, inside   *)
(* the file and perhaps only for a while.                                  *)
FailingWrite(p, n, j) ==
    LET i == fd[p].ip
        s == SubSeq(out[p], 1, n)
        more == SubSeq(Overlay(content[i], fd[p].off, SubSeq(out[p], 1, n + j)), 1,
                       Len(Overlay(content[i], fd[p].off, s)))
    IN /\ n + j <= Len(out[p])
       /\ fd' = [fd EXCEPT ![p].off = @ + n]
       /\ out' = [out EXCEPT ![p] = <<>>]
       /\ fd[p].off <= Len(content[i])
       /\ content' = [content EXCEPT ![i] = more]
       /\ DOMAIN behind'[i] \subseteq
             (DOMAIN behind[i] \ Places(fd[p].off, n)) \cup Places(fd[p].off + n, j)
       /\ behind' = [behind EXCEPT ![i] = Restrict(@ @@ content[i], DOMAIN behind'[i])]

(* Bytes of a failed write go back to what they were.                      *)
Forget(i) ==
    LET S == DOMAIN behind[i] \ DOMAIN behind'[i]
    IN /\ UNCHANGED <<fd, out>>
       /\ S # {}
       /\ behind' = [behind EXCEPT ![i] = Restrict(@, DOMAIN @ \ S)]
       /\ content' = [content EXCEPT ![i] = Restrict(behind[i], S) @@ @]

(* A read of n bytes advances the offset, to the end of the file at most.  *)
Read(p, n) ==
    /\ fd[p].ip # 0
    /\ fd' = [fd EXCEPT ![p].off = @ + n]
    /\ fd[p].off + n <= Len(content[fd[p].ip])
    /\ UNCHANGED <<content, behind, out>>

(* A file that no descriptor refers to may disappear.                      *)
Remove(i) ==
    /\ UNCHANGED <<fd, out>>
    /\ \A p \in Proc : fd[p].ip # i
    /\ content[i] # <<>> /\ content'[i] = <<>>
    /\ content' = [content EXCEPT ![i] = <<>>]
    /\ behind' = [behind EXCEPT ![i] = Nothing]

(* The machine restarts: nothing is open, every file is as it was, without *)
(* what failed writes left behind.                                         *)
Restart == /\ (\E p \in Proc : fd[p].ip # 0) \/ (\E i \in Inum : behind[i] # Nothing)
           /\ fd' = [p \in Proc |-> [ip |-> 0, off |-> 0]]
           /\ out' = [p \in Proc |-> <<>>]
           /\ behind' = [i \in Inum |-> Nothing]
           /\ content' = [i \in Inum |-> behind[i] @@ content[i]]

Next == \/ \E p \in Proc : \/ Open(p) \/ Close(p) \/ Ask(p)
                           \/ \E n \in 0..MaxIO : Write(p, n)
                           \/ \E n \in 0..MaxIO, j \in 1..MaxIO : FailingWrite(p, n, j)
                           \/ \E n \in 1..MaxIO : Read(p, n)
        \/ \E i \in Inum : Remove(i) \/ Forget(i)
        \/ Restart

Spec == Init /\ [][Next]_vars

=============================================================================
