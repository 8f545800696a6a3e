----------------------------- MODULE BlockStore -----------------------------
(***************************************************************************)
(* What bread(), bwrite() and brelse() promise their callers: every disk   *)
(* block has one contents, a process that has got a block holds it alone   *)
(* until it releases it, and only the holder changes the contents.         *)
(***************************************************************************)
CONSTANTS Proc, Block, Val, NoProc

VARIABLES content,    \* content[k]: what the next bread() of block k shows
          holder      \* holder[k]: the process that has block k, or NoProc

Init ==
    /\ content \in [Block -> Val]
    /\ holder = [k \in Block |-> NoProc]

Get(p, k) ==
    /\ holder[k] = NoProc
    /\ holder' = [holder EXCEPT ![k] = p]
    /\ UNCHANGED content

Change(p, k, v) ==
    /\ holder[k] = p
    /\ content' = [content EXCEPT ![k] = v]
    /\ UNCHANGED holder

Release(p, k) ==
    /\ holder[k] = p
    /\ holder' = [holder EXCEPT ![k] = NoProc]
    /\ UNCHANGED content

Next ==
    \E p \in Proc, k \in Block : Get(p, k) \/ Release(p, k) \/ \E v \in Val : Change(p, k, v)

Spec == Init /\ [][Next]_<<content, holder>>
=============================================================================
