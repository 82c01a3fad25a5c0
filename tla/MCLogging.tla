----------------------------- MODULE MCLogging -----------------------------
\* The way of log lines to the database on a small instance.
EXTENDS Logging

\* The processes that log are alike.
AppSymmetry == Permutations(Apps)
=============================================================================
