-------------------------- MODULE MCOutOfOrderQueue --------------------------
EXTENDS OutOfOrderQueue

CONSTANTS c1, c2, c3, g1, d1, d2
=============================================================================
