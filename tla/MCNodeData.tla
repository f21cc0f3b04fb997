---------------------------- MODULE MCNodeData ------------------------------
EXTENDS NodeData, TLC

CONSTANTS k1, k2, k3, w1, w2

\* Two request threads on one key while caches come and go, or one thread and
\* a sweep of several batches over three keys.
MCLoads ==
  {[keys |-> {k}, writers |-> Writer, caches |-> 2, time |-> 1] : k \in Key}
    \cup {[keys |-> Key, writers |-> {w}, caches |-> 1, time |-> 2] : w \in Writer}

\* Keys and request threads are interchangeable: no action tells them apart.
Symmetry == Permutations(Key) \cup Permutations(Writer)
=============================================================================
