------------------------------ MODULE MCBcache ------------------------------
(* Instances of Bcache for model checking.                                 *)
EXTENDS Bcache

Symmetry == Permutations(Proc) \cup Permutations(Block) \cup Permutations(Val)
=============================================================================
