---------------------------- MODULE MCDmaClients ----------------------------
\* The two clients of a DMA channel on a small instance.
EXTENDS DmaClients
=============================================================================
