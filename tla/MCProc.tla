------------------------------- MODULE MCProc -------------------------------
(* Instances of Proc for model checking.                                   *)
EXTENDS Proc, TLC

Symmetry == Permutations(CPU)
=============================================================================
