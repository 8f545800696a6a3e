-------------------------------- MODULE Tty ---------------------------------
(***************************************************************************)
(* What console input promises: the line being typed can be edited until   *)
(* it is complete; complete input is a queue; a read gets the next bytes   *)
(* of the queue, up to the end of a line or a ^D, which ends a read and is *)
(* seen by exactly one read as the end of the file.                        *)
(***************************************************************************)
EXTENDS Naturals, Sequences, SequencesExt

CONSTANTS Reader, Size, Char, NL, EOF, Request

VARIABLES line,     \* typed, still editable
          queue,    \* complete input that nobody has read
          got,      \* [Reader -> the bytes of the current or last read]
          want      \* [Reader -> bytes the current read asks for, 0 if none]

Init == /\ line = <<>> /\ queue = <<>>
        /\ got = [p \in Reader |-> <<>>]
        /\ want = [p \in Reader |-> 0]

Used == Len(line) + Len(queue)

(* A character is dropped only if the buffer is full; a full buffer makes  *)
(* the line complete.                                                      *)
Type(c) ==
    /\ Used < Size
    /\ IF c \in {NL, EOF} \/ Used + 1 = Size
       THEN queue' = queue \o Append(line, c) /\ line' = <<>>
       ELSE line' = Append(line, c) /\ UNCHANGED queue
    /\ UNCHANGED <<got, want>>

Erase ==
    /\ line # <<>>
    /\ line' = Front(line)
    /\ UNCHANGED <<queue, got, want>>

Kill == line' = <<>> /\ UNCHANGED <<queue, got, want>>

Ask(p, n) ==
    /\ want[p] = 0
    /\ want' = [want EXCEPT ![p] = n]
    /\ got' = [got EXCEPT ![p] = <<>>]
    /\ UNCHANGED <<line, queue>>

(* The bytes s go to p.  The read ends when it has all it asked for, after *)
(* a newline, or before a ^D that follows some bytes; otherwise it waits   *)
(* for more with the queue empty.                                          *)
Get(p, s, rest) ==
    LET all == got[p] \o s
        ends == Len(all) = want[p] \/ (s # <<>> /\ Last(s) = NL)
                    \/ (all # <<>> /\ rest # <<>> /\ Head(rest) = EOF)
    IN /\ Len(all) <= want[p]
       /\ \A i \in 1..Len(s) : s[i] # EOF /\ (s[i] = NL => i = Len(s))
       /\ ends \/ rest = <<>>
       /\ got' = [got EXCEPT ![p] = all]
       /\ want' = IF ends THEN [want EXCEPT ![p] = 0] ELSE want
       /\ queue' = rest
       /\ UNCHANGED line

Read(p) == want[p] > 0 /\ \E k \in 0..Len(queue) :
                Get(p, SubSeq(queue, 1, k), SubSeq(queue, k + 1, Len(queue)))

(* The end of the file: nothing is read, and the ^D is gone.               *)
EndOfFile(p) ==
    /\ want[p] > 0 /\ got[p] = <<>> /\ queue # <<>> /\ Head(queue) = EOF
    /\ queue' = Tail(queue)
    /\ want' = [want EXCEPT ![p] = 0]
    /\ UNCHANGED <<line, got>>

(* The reader's buffer is not mapped, from some byte on: that byte is      *)
(* lost.                                                                   *)
Fault(p) ==
    /\ want[p] > 0
    /\ \E k \in 1..Len(queue) :
          /\ \A i \in 1..k : queue[i] # EOF
          /\ \A i \in 1..(k-1) : queue[i] # NL
          /\ got' = [got EXCEPT ![p] = @ \o SubSeq(queue, 1, k - 1)]
          /\ queue' = SubSeq(queue, k + 1, Len(queue))
    /\ want' = [want EXCEPT ![p] = 0]
    /\ UNCHANGED line

(* The reader has been killed: it takes what there is and does not wait.   *)
Killed(p) ==
    /\ want[p] > 0
    /\ \A i \in 1..Len(queue) : queue[i] \notin {NL, EOF}
    /\ got' = [got EXCEPT ![p] = @ \o queue]
    /\ queue' = <<>>
    /\ want' = [want EXCEPT ![p] = 0]
    /\ UNCHANGED line

Next == \/ Erase \/ Kill
        \/ \E c \in Char : Type(c)
        \/ \E p \in Reader : \/ Read(p) \/ EndOfFile(p) \/ Fault(p) \/ Killed(p)
                             \/ \E n \in Request : Ask(p, n)

Spec == Init /\ [][Next]_<<line, queue, got, want>>

=============================================================================
