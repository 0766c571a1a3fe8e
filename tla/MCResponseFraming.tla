------------------------- MODULE MCResponseFraming -------------------------
(* Instances of ResponseFraming for TLC. *)
EXTENDS ResponseFraming
=============================================================================
