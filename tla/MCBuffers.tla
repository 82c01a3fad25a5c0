----------------------------- MODULE MCBuffers ------------------------------
(***************************************************************************)
(* The two buffers the readout's threads share without a lock, in one      *)
(* model: `part' says which of them moves, so that their states add up.    *)
(***************************************************************************)
EXTENDS Fifo, MemPool, TLC

VARIABLE part

BuffersInit == FifoInit /\ PoolInit /\ part \in {"fifo", "pool"}

BuffersNext ==
    \/ part = "fifo" /\ FifoNext /\ UNCHANGED <<poolVars, part>>
    \/ part = "pool" /\ PoolNext /\ UNCHANGED <<fifoVars, part>>

Symmetry == Permutations(Getters) \cup Permutations(Releasers) \cup Permutations(Items)

BuffersSpec == BuffersInit /\ [][BuffersNext]_<<fifoVars, poolVars, part>>
=============================================================================
