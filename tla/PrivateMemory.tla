--------------------------- MODULE PrivateMemory ---------------------------
(***************************************************************************)
(* What the virtual memory system promises to user programs: every address *)
(* space is a private array of pages.  fork() duplicates it, sbrk() adds   *)
(* zero pages at its end or drops pages from its end, exec() replaces it,  *)
(* exit() discards it, and a store changes one page of one space only.     *)
(***************************************************************************)
EXTENDS Integers

CONSTANTS Space,      \* address spaces
          NPAGES,     \* pages of the user part of a space
          Value,      \* contents a page can have, as a program sees it
          Zero,       \* the contents of a page sbrk() adds
          Img,        \* the contents of a page exec() loads
          NoData      \* the page is not part of the space

VARIABLE vm           \* vm[s][v]: the contents of page v of space s

Page == 0..NPAGES-1

Empty == [v \in Page |-> NoData]

(* A store by the program, or by the kernel into a buffer of the program.  *)
Store(s, v, x) ==
    /\ vm[s][v] # NoData
    /\ vm' = [vm EXCEPT ![s][v] = x]

Fork(s, c) ==
    /\ vm[s] # Empty
    /\ vm[c] = Empty
    /\ vm' = [vm EXCEPT ![c] = vm[s]]

(* sbrk(): the space becomes n pages long.                                 *)
Resize(s, n) ==
    /\ vm[s] # Empty
    /\ vm' = [vm EXCEPT ![s] =
                [v \in Page |-> IF v >= n THEN NoData
                                ELSE IF vm[s][v] = NoData THEN Zero ELSE vm[s][v]]]

Exit(s) ==
    vm' = [vm EXCEPT ![s] = Empty]

(* exec(): space s is replaced by the fresh space c of n pages.            *)
Exec(s, c, n) ==
    /\ vm[c] = Empty
    /\ vm' = [vm EXCEPT ![s] = Empty,
                        ![c] = [v \in Page |-> IF v < n THEN Img ELSE NoData]]

Init ==
    \E s \in Space :
       vm = [t \in Space |-> IF t = s THEN [v \in Page |-> IF v = 0 THEN Img ELSE NoData]
                                      ELSE Empty]

Next ==
    \E s \in Space :
       \/ \E v \in Page, x \in Value : Store(s, v, x)
       \/ \E c \in Space \ {s} : Fork(s, c)
       \/ \E n \in 0..NPAGES : Resize(s, n)
       \/ Exit(s)
       \/ \E c \in Space \ {s}, n \in 1..NPAGES : Exec(s, c, n)

Spec == Init /\ [][Next]_vm
=============================================================================
