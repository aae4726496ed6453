----------------------------- MODULE MCRedactor -----------------------------
(* Instances of Redactor for TLC. *)
EXTENDS Redactor
=============================================================================
