---------------------------- MODULE MetaCommand -----------------------------
(* The commands the meta server applies to its state machine, one at a time  *)
(* in the order of the replicated log: MetaCommand::DealRequest and the      *)
(* Deal* handlers (meta/meta_command.cc), over the operators of MetaInfo.    *)
EXTENDS MetaInfo

CONSTANTS
  Dups,        \* numbers of copies clients ask for
  MaxEpoch,    \* bound: no node is taken down once the epoch is there
  MaxVersion   \* bound: no table command is accepted once the version is there

ASSUME DupsAssumption == Dups \subseteq Nat \ {0}
ASSUME BoundsAssumption == MaxEpoch \in Nat /\ MaxVersion \in Nat

VARIABLES
  meta,    \* MetaServer::meta_info_
  reply,   \* type and status of the last response
  born     \* history: per table, the circumstances of its creation

vars == <<meta, reply, born>>

Reply == [type : {"NONE", "PING", "INIT", "DROPTABLE", "DOWNNODES", "MIGRATE"},
          status : {"OK", "EXIST", "EEPOCH"}]

\* The order of nodes_ when the table was created, and whether every node was up
\* then and no migration has been committed since.
Birth == [order : Seq(Node), clean : BOOLEAN]

NotBorn == [order |-> << >>, clean |-> FALSE]

Init ==
  /\ meta = InitMeta
  /\ reply = [type |-> "NONE", status |-> "OK"]
  /\ born = [t \in Table |-> NotBorn]

-----------------------------------------------------------------------------
Known == Elems(meta.nodes)

\* The version a request carries: the current one, or one that is behind.
RequestVersions ==
  {meta.version,
   [meta.version EXCEPT !.epoch = @ - 1],
   [meta.version EXCEPT !.version = @ - 1]}

Answer(type, status) == reply' = [type |-> type, status |-> status]

\* Status of INIT from the version CreateTable returns: -1 is an error, 0 a
\* table that exists.
InitStatus(epoch) == IF epoch > 0 THEN "OK" ELSE IF epoch = 0 THEN "EXIST" ELSE "EEPOCH"

\* Mutant of SetStatus: a refusal is answered with ERROR, not EEPOCH.
SetStatusError(epoch) == IF epoch # 0 THEN "OK" ELSE "ERROR"

\* Status of the other commands: every number but 0 is a success.
SetStatus(epoch) == IF epoch # 0 THEN "OK" ELSE "EEPOCH"

\* PING of a node: three cases of MetaInfo::UpdateNode. No migrate task is ever
\* queued, because DownNodes generates none, so none is handed out.
DealPing(n) ==
  /\ \/ /\ n \notin Known
        /\ \E order \in OrdersWith(meta, n) : meta' = UpdateNewNode(meta, n, order)
     \/ /\ n \in Known \ meta.alive
        /\ \E carried \in Carried(meta, n) : meta' = UpdateDownNode(meta, n, carried)
     \/ /\ n \in meta.alive
        /\ UNCHANGED meta
  /\ Answer("PING", "OK")
  /\ UNCHANGED born

\* INIT from a node server: NewTable over the nodes it last pulled, up or down,
\* with duplicate_num clamped to their number.
DealInit(t, dup, info) ==
  /\ meta.version.version < MaxVersion
  /\ Known # {} /\ dup <= Len(meta.nodes)
  /\ \/ /\ info # meta.version
        /\ Answer("INIT", InitStatus(-1))
        /\ UNCHANGED <<meta, born>>
     \/ /\ info = meta.version
        /\ t \in DOMAIN meta.table_info
        /\ Answer("INIT", InitStatus(0))
        /\ UNCHANGED <<meta, born>>
     \/ /\ info = meta.version
        /\ t \notin DOMAIN meta.table_info
        /\ meta' = CreateTable(meta, t, NewTable(meta.nodes, t, dup))
        /\ Answer("INIT", InitStatus(meta'.version.epoch))
        /\ born' = [born EXCEPT ![t] = [order |-> meta.nodes, clean |-> Known = meta.alive]]

\* Mutant of DealDropTable: the tables are dropped before the version is compared.
DealDropTableFirst(ts, info) ==
  /\ meta.version.version < MaxVersion
  /\ meta' = DropTable(meta, ts)
  /\ Answer("DROPTABLE", SetStatus(IF info = meta.version THEN meta'.version.epoch ELSE 0))
  /\ born' = [t \in Table |-> IF t \in DOMAIN meta'.table_info THEN born[t] ELSE NotBorn]

DealDropTable(ts, info) ==
  /\ meta.version.version < MaxVersion
  /\ meta' = IF info = meta.version THEN DropTable(meta, ts) ELSE meta
  /\ Answer("DROPTABLE", SetStatus(IF info = meta.version THEN meta'.version.epoch ELSE 0))
  /\ born' = [t \in Table |-> IF t \in DOMAIN meta'.table_info THEN born[t] ELSE NotBorn]

\* DOWNNODES from the leader's timer. A node the leader lists was up in the
\* snapshot the epoch comes from; its pings since then do not change the epoch.
DealDownNodes(ns, epoch) ==
  /\ meta.version.epoch < MaxEpoch
  /\ meta' = IF epoch = meta.version.epoch THEN DownNodes(meta, ns) ELSE meta
  /\ Answer("DOWNNODES", SetStatus(IF epoch = meta.version.epoch THEN meta'.version.epoch ELSE 0))
  /\ UNCHANGED born

\* MIGRATE: the commit of a migration to dst.
DealMigrate(t, i, dst, role, info) ==
  /\ meta.version.version < MaxVersion
  /\ LET accepted == info = meta.version /\ t \in DOMAIN meta.table_info
     IN  /\ meta' = IF accepted THEN CommitMigrate(meta, t, i, dst, role) ELSE meta
         /\ Answer("MIGRATE", SetStatus(IF accepted THEN meta'.version.epoch ELSE 0))
         /\ born' = IF accepted THEN [born EXCEPT ![t].clean = FALSE] ELSE born

\* Lists of distinct nodes that are up, in any order.
ExpiredLists ==
  {ns \in UNION {[1 .. k -> meta.alive] : k \in 1 .. Cardinality(meta.alive)} :
     \A k, l \in DOMAIN ns : ns[k] = ns[l] => k = l}

\* Every command but PING.
NextOther ==
  \/ \E t \in Table, dup \in Dups, info \in RequestVersions : DealInit(t, dup, info)
  \/ \E ts \in SUBSET Table, info \in RequestVersions : DealDropTable(ts, info)
  \/ \E ns \in ExpiredLists, info \in RequestVersions : DealDownNodes(ns, info.epoch)
  \/ \E t \in Table, i \in Ids, dst \in Known, role \in {"MASTER", "SLAVE"},
        info \in RequestVersions : DealMigrate(t, i, dst, role, info)

Next == NextOther \/ \E n \in Node : DealPing(n)

Spec == Init /\ [][Next]_vars

-----------------------------------------------------------------------------
\* Type invariant of the meta server's state.
TypeOK == IsMeta(meta) /\ reply \in Reply /\ born \in [Table -> Birth]

\* A table whose node set has not grown since its creation, that was created
\* with every node up and that no migration has touched.
Clean(t) == t \in DOMAIN meta.table_info /\ born[t].clean /\ born[t].order = meta.nodes

\* The copies of partition i of t, by the placement rule.
Copies(t, i) == {Placed(meta.nodes, t, i, j) : j \in 0 .. meta.table_info[t].duplicate_num - 1}

NoRepeat(p) ==
  /\ p.master \notin Elems(p.slaves)
  /\ \A k, l \in DOMAIN p.slaves : p.slaves[k] = p.slaves[l] => k = l

\* Down and back in any order, one by one or several at once, a clean table's
\* partition is held by exactly those of its copies that are up, each once, and
\* is ACTIVE exactly when all of them are (MigrateFromTable against
\* UpdatePartNodeMS).
CleanRestored ==
  \A t \in Table : Clean(t) => \A i \in Ids :
    LET p == meta.table_info[t].partitions[i]
    IN  /\ Members(p) = Copies(t, i) \cap meta.alive
        /\ NoRepeat(p)
        /\ (p.status = "ACTIVE") <=> (Copies(t, i) \subseteq meta.alive)

\* PULL by node returns every clean table the node holds a partition of, and
\* DOWNNODES looks at it: node_table_ covers the partitions.
NodeTableCovers ==
  \A t \in Table : Clean(t) =>
    \A n \in TableMembers(meta.table_info[t]) : t \in meta.node_table[n]

\* A command answered with EEPOCH or EXIST has had no effect, so that a client
\* may send it again with a newer version.
RefusedUnchanged == [][reply'.status # "OK" => UNCHANGED meta]_vars

\* No command takes the epoch or the version back, and one that changes the
\* placement or the state of the nodes raises one of them: what
\* MetaInfo::Changed compares tells every change.
VersionTellsChange ==
  [][/\ meta'.version.epoch >= meta.version.epoch
     /\ meta'.version.version >= meta.version.version
     /\ meta' # meta => Changed(meta', meta.version)]_vars

=============================================================================
