----------------------------- MODULE NodeRoute ------------------------------
(* A client's route and the node server it sends requests to: the client     *)
(* pulled the route from the meta server at some time (Cluster::             *)
(* UpdateTableInfo), the node server answers with its own view (CheckEpoch). *)
EXTENDS NodeView

VARIABLE held   \* the route: the epoch, the table's version and partitions

NoRoute == [tables |-> {}, epoch |-> -1, version |-> -1, partitions |-> << >>]

\* Cluster::UpdateTableInfo for one table.
UpdateTableInfo(t) ==
  /\ held.tables = {}
  /\ held' = [tables |-> {t}, epoch |-> meta.version.epoch,
              version |-> meta.table_info[t].version,
              partitions |-> meta.table_info[t].partitions]
  /\ UNCHANGED vars

RouteInit == Init /\ held = NoRoute

RouteNext ==
  \/ Next /\ UNCHANGED held
  \/ \E t \in DOMAIN meta.table_info : UpdateTableInfo(t)

RouteSpec == RouteInit /\ [][RouteNext]_<<vars, held>>

\* Mutant of CheckEpoch: a request of an older epoch is let through.
CheckEpochOlder(t) ==
  /\ held.epoch <= view.version.epoch
  /\ t \in DOMAIN view.table_info => held.version = view.table_info[t].version

\* CheckEpoch, once the node is not behind the request: the epoch is the node's
\* and the table, if the node has it, has the request's version.
CheckEpoch(t) ==
  /\ held.epoch = view.version.epoch
  /\ t \in DOMAIN view.table_info => held.version = view.table_info[t].version

-----------------------------------------------------------------------------
\* A request that CheckEpoch lets through is served with the partitions its
\* sender has: the sender and the node agree on the master and the slaves, in
\* whatever order pings, pulls and answers arrive. The exception is a view into
\* which CreateTable installed its answer after the view it was sent from had
\* been replaced.
NodeFenced ==
  \A t \in held.tables \cap DOMAIN view.table_info :
    ~mixed /\ CheckEpoch(t) => held.partitions = view.table_info[t].partitions

=============================================================================
