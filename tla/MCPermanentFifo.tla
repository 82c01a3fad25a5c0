-------------------------- MODULE MCPermanentFifo ---------------------------
(* Instances of PermanentFifo for TLC. *)
EXTENDS PermanentFifo
=============================================================================
