---------------------------- MODULE MCMetaServer ----------------------------
EXTENDS MetaServer, TLC

CONSTANTS n1, n2, s1, s2, t1

HashOne == (t1 :> 1)

\* The map of the standard library in use puts a node whose bucket is empty at the
\* beginning of the iteration order.
InsertFirst(order, n) == <<n>> \o order

\* Nodes and servers are interchangeable.
Symmetry == Permutations(Node) \cup Permutations(Server)
=============================================================================
