----------------------------- MODULE MCReadout ------------------------------
(* Instances of Readout for TLC. *)
EXTENDS Readout, TLC
=============================================================================
