----------------------------- MODULE AtomicDisk -----------------------------
(***************************************************************************)
(* What the logging layer promises to the file system: writes made between *)
(* begin_op() and end_op() change what every later read returns at once,   *)
(* and reach the disk together with all writes of all operations that      *)
(* overlap, at a moment when no operation is in progress.  A crash goes    *)
(* back to the last such moment.                                           *)
(***************************************************************************)
EXTENDS Integers

CONSTANTS Block,      \* file system blocks
          Val         \* contents of a block

VARIABLES durable,    \* what a crash leaves
          current,    \* what reads return
          active      \* operations in progress

Init ==
    /\ durable \in [Block -> Val]
    /\ current = durable
    /\ active = 0

Begin == active' = active + 1 /\ UNCHANGED <<durable, current>>

End == active > 0 /\ active' = active - 1 /\ UNCHANGED <<durable, current>>

Write(b, v) ==
    /\ active > 0
    /\ current' = [current EXCEPT ![b] = v]
    /\ UNCHANGED <<durable, active>>

Commit ==
    /\ active = 0
    /\ durable' = current
    /\ UNCHANGED <<current, active>>

Crash ==
    /\ current' = durable
    /\ active' = 0
    /\ UNCHANGED durable

Next == Begin \/ End \/ Commit \/ Crash \/ \E b \in Block, v \in Val : Write(b, v)

Spec == Init /\ [][Next]_<<durable, current, active>>
=============================================================================
