---------------------------- MODULE MCNodeView ------------------------------
EXTENDS NodeView, TLC

CONSTANTS n1, n2, t1

HashOne == (t1 :> 1)
=============================================================================
