----------------------------- MODULE MCGuardian -----------------------------
(* Instances of Guardian for TLC. *)
EXTENDS Guardian
=============================================================================
