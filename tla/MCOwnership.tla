---------------------------- MODULE MCOwnership ----------------------------
(* Instances of Ownership for TLC: one older service, the others new. *)
EXTENDS Ownership, TLC

CONSTANTS older

MCVersion == [i \in Instances |-> IF i = older THEN "0.1" ELSE "0.2"]
Symmetry == Permutations(Instances \ {older}) \union Permutations(Ids)
=============================================================================
