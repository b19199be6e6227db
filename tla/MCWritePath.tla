---------------------------- MODULE MCWritePath ----------------------------
EXTENDS WritePath, TLC

CONSTANTS t1, t2, p1
MCProjectOf == [t \in TodoIds |-> p1]
=============================================================================
