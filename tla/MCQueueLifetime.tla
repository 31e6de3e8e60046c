--------------------------- MODULE MCQueueLifetime ---------------------------
EXTENDS QueueLifetime

CONSTANTS q1, q2, c1, c2, h1, i1
=============================================================================
