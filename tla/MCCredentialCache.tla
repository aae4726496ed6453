------------------------- MODULE MCCredentialCache -------------------------
(* Instances of CredentialCache for TLC: one caching profile, one without. *)
EXTENDS CredentialCache, TLC

CONSTANTS caching, plain

MCCacheTtl == (caching :> 1) @@ (plain :> 0)
Symmetry == Permutations(Operations)
=============================================================================
