------------------------------- MODULE MCFile -------------------------------
(* Instances of File for model checking.                                   *)
EXTENDS File, TLC

Symmetry == Permutations(P) \cup Permutations(Files) \cup Permutations(Byte)
=============================================================================
