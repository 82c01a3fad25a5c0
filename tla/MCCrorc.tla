------------------------------- MODULE MCCrorc ------------------------------
(* Instances of CrorcDmaChannel for TLC. *)
EXTENDS CrorcDmaChannel, TLC
=============================================================================
