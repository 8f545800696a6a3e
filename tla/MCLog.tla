------------------------------- MODULE MCLog -------------------------------
(* Instances of Log for model checking.                                    *)
EXTENDS Log, TLC

Symmetry == Permutations(Proc) \cup Permutations(Block) \cup Permutations(Val)
=============================================================================
