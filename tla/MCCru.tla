-------------------------------- MODULE MCCru -------------------------------
(* Instances of CruDmaChannel for TLC. *)
EXTENDS CruDmaChannel, TLC
=============================================================================
