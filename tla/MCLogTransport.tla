--------------------------- MODULE MCLogTransport ---------------------------
\* The transport of InfoLogger messages on a small instance.
EXTENDS LogTransport
=============================================================================
