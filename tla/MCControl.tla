----------------------------- MODULE MCControl -----------------------------
\* The control system on a small instance.
EXTENDS ControlSystem

OneObject == <<"o1">>
=============================================================================
