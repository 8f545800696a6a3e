---------------------------- MODULE MCCowMemory ----------------------------
(* An instance of CowMemory for model checking.                            *)
EXTENDS CowMemory, TLC

(* An image of one text page and one writable page above it.               *)
TextAndData == <<[n |-> 1, w |-> FALSE, x |-> TRUE], [n |-> 1, w |-> TRUE, x |-> FALSE]>>

Symmetry == Permutations(Space) \cup Permutations(Frame)
=============================================================================
