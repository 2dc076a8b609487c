---------------------------- MODULE MCSmallVector -----------------------------
(* Vectors of SmallVector.tla that outgrow their buffer, and then a block.  *)
EXTENDS SmallVector, TLC

Symmetry == Permutations(Vectors) \union Permutations(Values)
===============================================================================
