---------------------------- MODULE MCAnalytics ----------------------------
(* Instances of Analytics for TLC. *)
EXTENDS Analytics, TLC

Symmetry == Permutations(Operations) \union Permutations(Payloads)
=============================================================================
