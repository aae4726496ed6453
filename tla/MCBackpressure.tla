--------------------------- MODULE MCBackpressure ---------------------------
(* Instances of Backpressure for TLC: every buffer holds one. *)
EXTENDS Backpressure
=============================================================================
