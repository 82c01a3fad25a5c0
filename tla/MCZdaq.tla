------------------------------- MODULE MCZdaq -------------------------------
\* A producer and a consumer of Zdaq on a small instance.
EXTENDS Zdaq
=============================================================================
