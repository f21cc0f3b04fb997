---------------------------- MODULE MCMetaView ------------------------------
EXTENDS MetaView, TLC

CONSTANTS n1, n2, n3, t1, t2

VARIABLE pulled   \* whether anybody looks at the state in this behaviour

\* butil::Hash: any number; the two tables start at different nodes.
HashTwo == (t1 :> 1) @@ (t2 :> 3)

\* The nodes are interchangeable: the order of nodes_ is part of the state.
NodeSymmetry == Permutations(Node)

\* Bound of the behaviours with pulls: two nodes, none taken down from epoch 4.
TwoNodes ==
  /\ Len(meta'.nodes) <= 2
  /\ meta.version.epoch >= 4 => meta.alive \subseteq meta'.alive

\* No command reads the snapshot or a route: where nobody looks they are left
\* out, which leaves room for three nodes.
MCInit == ViewInit /\ pulled \in BOOLEAN

MCNext ==
  /\ \/ pulled /\ ViewNext /\ TwoNodes
     \/ ~pulled /\ Next /\ UNCHANGED <<snapshot, held>>
  /\ UNCHANGED pulled

MCSpec == MCInit /\ [][MCNext]_<<viewVars, pulled>>
=============================================================================
