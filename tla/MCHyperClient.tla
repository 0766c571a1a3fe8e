--------------------------- MODULE MCHyperClient ---------------------------
(* Instances of HyperClient for TLC. *)
EXTENDS HyperClient
=============================================================================
