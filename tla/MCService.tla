----------------------------- MODULE MCService -----------------------------
(* Instances of Service for TLC. *)
EXTENDS Service, TLC

CONSTANTS p1, p2, a1, a2

\* p1 approves a1 only, p2 approves a2 only.
MCAllows == {<<p1, a1>>, <<p2, a2>>} \intersect (Profiles \X Commands)

Symmetry == Permutations(Operations) \union Permutations(Sessions)
=============================================================================
