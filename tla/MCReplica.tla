----------------------------- MODULE MCReplica ------------------------------
EXTENDS Replica

CONSTANTS n1, n2, n3, o1, o2, o3, t1

HashOne == (t1 :> 0)

\* Nodes and requests are interchangeable.
Symmetry == Permutations(Node) \cup Permutations(Op)
=============================================================================
