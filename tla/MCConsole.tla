------------------------------ MODULE MCConsole ------------------------------
(***************************************************************************)
(* Two readers and two writers.                                            *)
(***************************************************************************)
EXTENDS Console, TLC

CONSTANTS r1, r2, w1, w2, key1, key2, key3, key4, key5

Alphabet == <<key1, key2, key3, key4, key5>>

Asks(s1, s2) == r1 :> s1 @@ r2 :> s2
Bytes(n1, n2) == w1 :> n1 @@ w2 :> n2

(* Typing and editing, with one reader.                                    *)
Lines == [keys |-> 4, keyset |-> {CR, EOF, BS, KILL}, ask |-> Asks({2}, {}),
          bytes |-> Bytes(0, 0), prints |-> 0, upsets |-> 0]

(* A reader of lines and a reader of characters.                           *)
TwoReaders == [keys |-> 3, keyset |-> {CR, EOF}, ask |-> Asks({3}, {1}),
               bytes |-> Bytes(0, 0), prints |-> 0, upsets |-> 0]

(* A reader that is killed or has no buffer.                               *)
Upsets == [keys |-> 3, keyset |-> {CR, EOF, NUL}, ask |-> Asks({3}, {}),
           bytes |-> Bytes(0, 0), prints |-> 0, upsets |-> 1]

(* Output from all sources.                                                *)
Writes == [keys |-> 1, keyset |-> {PROCS}, ask |-> Asks({}, {}),
           bytes |-> Bytes(3, 1), prints |-> 1, upsets |-> 1]

AllBudgets == {Lines, TwoReaders, Upsets, Writes}

=============================================================================
