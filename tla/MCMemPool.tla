----------------------------- MODULE MCMemPool ------------------------------
(* Instances of MemPool for TLC. *)
EXTENDS MemPool
=============================================================================
