----------------------------- MODULE ByteQueue ------------------------------
(* What pipes promise: each is a bounded FIFO queue of bytes with a read   *)
(* end and a write end. A byte goes in only while both ends are open, and  *)
(* what was written comes out once, in order, even after the last writer   *)
(* has gone. A pipe is given to its next owners empty.                     *)
EXTENDS Naturals, Sequences

CONSTANTS Pipes, Byte, CAPACITY

VARIABLES queue, ends

vars == <<queue, ends>>

Init ==
    /\ queue = [pi \in Pipes |-> <<>>]
    /\ ends = [pi \in Pipes |-> {}]

Open(pi) ==
    /\ ends[pi] = {}
    /\ ends' = [ends EXCEPT ![pi] = {"r", "w"}]
    /\ queue' = [queue EXCEPT ![pi] = <<>>]

Put(pi, b) ==
    /\ ends[pi] = {"r", "w"} /\ Len(queue[pi]) < CAPACITY
    /\ queue' = [queue EXCEPT ![pi] = Append(@, b)]
    /\ UNCHANGED ends

Get(pi) ==
    /\ "r" \in ends[pi] /\ queue[pi] # <<>>
    /\ queue' = [queue EXCEPT ![pi] = Tail(@)]
    /\ UNCHANGED ends

(* With its last end, a pipe loses the bytes that nobody has read.         *)
Close(pi, end) ==
    /\ end \in ends[pi]
    /\ ends' = [ends EXCEPT ![pi] = @ \ {end}]
    /\ queue' = [queue EXCEPT ![pi] = IF ends[pi] = {end} THEN <<>> ELSE @]

Next ==
    \E pi \in Pipes :
       \/ Open(pi) \/ Get(pi)
       \/ \E b \in Byte : Put(pi, b)
       \/ \E end \in {"r", "w"} : Close(pi, end)

Spec == Init /\ [][Next]_vars
=============================================================================
