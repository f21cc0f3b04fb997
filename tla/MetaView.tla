------------------------------ MODULE MetaView ------------------------------
(* What the meta server shows of its state while it applies commands: the    *)
(* snapshot MetaCommand keeps (GetMetaInfoSnapshot), the requests            *)
(* PreDealRequest answers from it without the replicated log, and a route    *)
(* that a client or a node server pulled some time ago and still uses.       *)
EXTENDS MetaCommand

VARIABLES
  snapshot,   \* MetaCommand::snapshot_
  held        \* the last route pulled, as its holder keeps it

viewVars == <<meta, reply, born, snapshot, held>>

\* No snapshot yet: older than every state of meta.
NullSnapshot == [InitMeta EXCEPT !.version = [epoch |-> -1, version |-> -1]]

NoRoute == [tables |-> {}, epoch |-> -1, version |-> -1, partitions |-> << >>]

ViewInit == Init /\ snapshot = NullSnapshot /\ held = NoRoute

GetMetaInfoSnapshot == IF Changed(meta, snapshot.version) THEN meta ELSE snapshot

\* The route to t that m contains: a request of its holder carries the epoch of
\* the server and the version of the table.
Route(m, t) == [tables |-> {t}, epoch |-> m.version.epoch,
                version |-> m.table_info[t].version,
                partitions |-> m.table_info[t].partitions]

-----------------------------------------------------------------------------
\* DealPing takes the snapshot before it updates the node.
ViewPing(n) == DealPing(n) /\ snapshot' = GetMetaInfoSnapshot /\ UNCHANGED held

ViewOther == NextOther /\ UNCHANGED <<snapshot, held>>

\* PULL of a table by name, or of all of them.
DealPull(t) ==
  /\ snapshot' = GetMetaInfoSnapshot
  /\ held' = IF t \in DOMAIN snapshot'.table_info THEN Route(snapshot', t) ELSE NoRoute
  /\ UNCHANGED vars

\* The tables a PULL by node n is answered with.
PulledBy(snap, n) == snap.node_table[n] \cap DOMAIN snap.table_info

DealPullNode(n) ==
  /\ snapshot' = GetMetaInfoSnapshot
  /\ \E t \in PulledBy(snapshot', n) : held' = Route(snapshot', t)
  /\ UNCHANGED vars

\* LISTTABLE, LISTNODE, LISTMETA: the answer is read from the snapshot.
DealList == snapshot' = GetMetaInfoSnapshot /\ UNCHANGED <<meta, reply, born, held>>

ViewNext ==
  \/ ViewOther
  \/ \E n \in Node : ViewPing(n) \/ DealPullNode(n)
  \/ \E t \in Table : DealPull(t)
  \/ DealList

ViewSpec == ViewInit /\ [][ViewNext]_viewVars

-----------------------------------------------------------------------------
\* Type invariant of the snapshot and of the route.
ViewTypeOK ==
  /\ IsMeta(snapshot)
  /\ held.tables \subseteq Table
  /\ held.epoch \in Int /\ held.version \in Int

\* A snapshot that MetaInfo::Changed calls current is the current state, up to
\* the alive times: what PULL and LIST answer without the log is what the log
\* has reached.
SnapshotFresh == ~Changed(meta, snapshot.version) => snapshot = meta

\* A route whose epoch and table version are still the server's has the
\* partitions of the server: the two numbers NodeServer::CheckEpoch compares are
\* enough to refuse every request that was sent along an outdated route.
RouteFenced ==
  \A t \in held.tables :
    /\ t \in DOMAIN meta.table_info
    /\ held.epoch = meta.version.epoch
    /\ held.version = meta.table_info[t].version
    => held.partitions = meta.table_info[t].partitions

=============================================================================
