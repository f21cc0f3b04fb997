------------------------------ MODULE MetaInfo ------------------------------
(* The meta server's state machine: class MetaInfo (meta/meta_info.cc).      *)
(* Every method is an operator from a meta record to a meta record; the      *)
(* modules that extend this one decide who calls it and when.                *)
(*                                                                           *)
(* A meta record m has the fields                                            *)
(*   version     [epoch, version], VersionInfo version_                      *)
(*   table_info  existing tables -> [duplicate_num, version, partitions]     *)
(*   node_table  node -> tables the node is recorded for                     *)
(*   nodes       the nodes of nodes_, in the iteration order of the map      *)
(*   alive       the nodes of nodes_ whose last_alive_time is not 0          *)
(* Times are reduced to zero or not zero, the only part of them that is      *)
(* replicated or saved.                                                      *)
EXTENDS Integers, Sequences, FiniteSets

CONSTANTS
  Node,            \* node servers
  NoNode,          \* the empty Node message: no master
  Table,           \* table names
  PartitionNum,    \* partitions of a table
  Hash             \* butil::Hash of a table name

ASSUME NoNodeAssumption == NoNode \notin Node
ASSUME PartitionNumAssumption == PartitionNum \in Nat \ {0}
ASSUME HashAssumption == Hash \in [Table -> Nat]

Ids == 0 .. PartitionNum - 1

VersionInfo == [epoch : Int, version : Int]

Partition == [master : Node \cup {NoNode},
              slaves : Seq(Node \cup {NoNode}),
              status : {"ACTIVE", "SLOWDOWN", "STUCK"}]

TableInfo == [duplicate_num : Nat, version : Int, partitions : [Ids -> Partition]]

\* Meta records whose existing tables are D.
MetaOver(D) == [version : VersionInfo, table_info : [D -> TableInfo],
                node_table : [Node -> SUBSET Table], nodes : Seq(Node), alive : SUBSET Node]

IsMeta(m) == DOMAIN m.table_info \subseteq Table /\ m \in MetaOver(DOMAIN m.table_info)

Elems(s) == {s[k] : k \in DOMAIN s}

\* master and slaves of a partition
Members(p) == ({p.master} \cup Elems(p.slaves)) \ {NoNode}

TableMembers(table) == UNION {Members(table.partitions[i]) : i \in Ids}

-----------------------------------------------------------------------------
\* MetaInfo() followed by Init()
InitMeta == [version |-> [epoch |-> 0, version |-> 0],
             table_info |-> [t \in {} |-> t],
             node_table |-> [n \in Node |-> {}],
             nodes |-> << >>,
             alive |-> {}]

\* Position of n in the iteration order of nodes_, counted from 0.
Rank(m, n) == (CHOOSE k \in DOMAIN m.nodes : m.nodes[k] = n) - 1

\* Node number (start_index + i + j) % size, where CreateTable and
\* UpdatePartNodeMS look for copy j of partition i.
Placed(order, table, i, j) == order[((Hash[table] + i + j) % Len(order)) + 1]

\* The table a node server asks for: copy 0 is the master, the others slaves.
NewTable(order, table, dup) ==
  [duplicate_num |-> dup,
   version |-> 0,
   partitions |->
     [i \in Ids |-> [master |-> Placed(order, table, i, 0),
                     slaves |-> [j \in 1 .. dup - 1 |-> Placed(order, table, i, j)],
                     status |-> "ACTIVE"]]]

-----------------------------------------------------------------------------
\* The elements of s other than n, in order.
Without(s, n) ==
  LET kept[k \in 0 .. Len(s)] ==
        IF k = 0 THEN << >>
        ELSE IF s[k] = n THEN kept[k - 1] ELSE Append(kept[k - 1], s[k])
  IN  kept[Len(s)]

\* Mutant of Released: a slave that goes down is kept.
ReleasedMasterOnly(p, n) == IF p.master = n THEN [p EXCEPT !.master = NoNode] ELSE p

\* The first loop of MigrateFromTable: a master is released, otherwise every
\* slave entry of the node is.
Released(p, n) ==
  IF p.master = n THEN [p EXCEPT !.master = NoNode]
                  ELSE [p EXCEPT !.slaves = Without(@, n)]

\* The first slave that is in nodes_, up or down, becomes master.
Promoted(known, p) ==
  LET candidates == {k \in DOMAIN p.slaves : p.slaves[k] \in known}
      first == CHOOSE k \in candidates : \A l \in candidates : k <= l
  IN  IF p.master # NoNode \/ candidates = {}
      THEN p
      ELSE [p EXCEPT !.master = p.slaves[first],
                     !.slaves = SubSeq(@, 1, first - 1) \o SubSeq(@, first + 1, Len(@))]

MigrateFromPartition(known, p, n) ==
  LET q == Released(p, n)
      r == Promoted(known, q)
  IN  IF q = p THEN p
      ELSE [r EXCEPT !.status = IF r.master = NoNode THEN "STUCK" ELSE "SLOWDOWN"]

\* The table version is set to, not raised above, the current version.
MigrateFromTable(m, table, n) ==
  LET parts == [i \in Ids |-> MigrateFromPartition(Elems(m.nodes), table.partitions[i], n)]
  IN  IF parts = table.partitions THEN table
      ELSE [table EXCEPT !.partitions = parts, !.version = m.version.version]

\* Only the tables node_table_ records for the node are looked at. The list of
\* migrate tasks stays empty.
MigrateFromNode(m, n) ==
  [m EXCEPT !.node_table[n] = {},
            !.table_info = [t \in DOMAIN @ |->
                              IF t \in m.node_table[n]
                              THEN MigrateFromTable(m, m.table_info[t], n)
                              ELSE m.table_info[t]]]

GenerateMigrateTasks(m, ns) ==
  LET after[k \in 0 .. Len(ns)] == IF k = 0 THEN m ELSE MigrateFromNode(after[k - 1], ns[k])
  IN  after[Len(ns)]

DownNodes(m, ns) ==
  LET marked == [m EXCEPT !.alive = @ \ Elems(ns), !.version.epoch = @ + 1]
  IN  IF Elems(ns) \cap Elems(m.nodes) = {} THEN m
      ELSE GenerateMigrateTasks(marked, ns)

-----------------------------------------------------------------------------
\* What the loop of UpdatePartNodeMS does to a partition that is not ACTIVE
\* when the returning node n is its copy j. A request never asks for more
\* copies than there are nodes, so n is found at most once.
Rejoined(p, n, j, dup) ==
  IF j >= dup THEN p
  ELSE IF j > 0 THEN [p EXCEPT !.slaves = Append(@, n)]
  ELSE IF p.master = NoNode THEN [p EXCEPT !.master = n]
  ELSE IF p.master # n THEN [p EXCEPT !.master = n, !.slaves = Append(@, p.master)]
  ELSE p

\* The status UpdatePartNodeMS recomputes.
Recount(p, dup) ==
  [p EXCEPT !.status =
     IF p.master # NoNode /\ 1 + Len(p.slaves) = dup THEN "ACTIVE"
     ELSE IF p.master # NoNode \/ Len(p.slaves) > 0 THEN "SLOWDOWN"
     ELSE "STUCK"]

\* The copy of partition i the node n is, by the current order of nodes_.
CopyOf(m, t, i, n) == (Rank(m, n) - Hash[t] - i) % Len(m.nodes)

UpdatePartition(m, t, i, n) ==
  LET p == m.table_info[t].partitions[i]
      dup == m.table_info[t].duplicate_num
  IN  IF p.status = "ACTIVE" THEN p
      ELSE Recount(Rejoined(p, n, CopyOf(m, t, i, n), dup), dup)

\* Tables with a partition that is not ACTIVE: the ones the loop enters.
Degraded(m) ==
  {t \in DOMAIN m.table_info : \E i \in Ids : m.table_info[t].partitions[i].status # "ACTIVE"}

\* Tables in which the loop sets change: a slave added or a master replaced.
\* A master given to a partition that had none does not count.
Changes(m, n) ==
  {t \in Degraded(m) : \E i \in Ids :
     UpdatePartition(m, t, i, n).slaves # m.table_info[t].partitions[i].slaves}

\* change is not reset between tables, so every degraded table that the
\* unordered map yields after a changed one has its version set as well:
\* carried is the set of those.
UpdatePartNodeMS(m, n, carried) ==
  [m EXCEPT
     !.node_table[n] = @ \cup {t \in Degraded(m) : m.table_info[t].duplicate_num > 0},
     !.table_info = [t \in DOMAIN @ |->
        [m.table_info[t] EXCEPT
           !.partitions = [i \in Ids |-> UpdatePartition(m, t, i, n)],
           !.version = IF t \in Changes(m, n) \cup carried THEN m.version.version ELSE @]]]

Carried(m, n) == IF Changes(m, n) = {} THEN {{}} ELSE SUBSET (Degraded(m) \ Changes(m, n))

\* UpdateNode is one of three cases.
\*  - a node that is not in nodes_. Where an insertion puts it in the iteration
\*    order of the map is not specified: order is any order of the larger set;
UpdateNewNode(m, n, order) ==
  [m EXCEPT !.nodes = order, !.alive = @ \cup {n}, !.version.epoch = @ + 1]

OrdersWith(m, n) ==
  {order \in [1 .. Len(m.nodes) + 1 -> Elems(m.nodes) \cup {n}] :
     Elems(order) = Elems(m.nodes) \cup {n}}

\*  - a node that is down fails back;
UpdateDownNode(m, n, carried) ==
  [UpdatePartNodeMS([m EXCEPT !.alive = @ \cup {n}], n, carried)
     EXCEPT !.version.epoch = @ + 1]

\*  - a node that is up: only its last_alive_time changes, so m does not.

-----------------------------------------------------------------------------
WithTable(f, t, table) == [u \in DOMAIN f \cup {t} |-> IF u = t THEN table ELSE f[u]]

\* Mutant of SetNodeTable: only the masters are recorded.
SetNodeTableMasters(node_table, t, table) ==
  [n \in Node |-> node_table[n] \cup (IF \E i \in Ids : table.partitions[i].master = n THEN {t} ELSE {})]

\* Every node of the table is recorded for it (an absent master too, under the
\* name of the empty node, which nothing reads).
SetNodeTable(node_table, t, table) ==
  [n \in Node |-> node_table[n] \cup (IF n \in TableMembers(table) THEN {t} ELSE {})]

CreateTable(m, t, table) ==
  [m EXCEPT !.node_table = SetNodeTable(@, t, table),
            !.version.version = @ + 1,
            !.table_info = WithTable(@, t, [table EXCEPT !.version = m.version.version + 1])]

\* Mutant of DropTable: the version stays when the last table goes.
DropTableSilent(m, ts) ==
  [m EXCEPT !.table_info = [t \in DOMAIN @ \ ts |-> @[t]],
            !.version.version = IF DOMAIN m.table_info \subseteq ts THEN @ ELSE @ + 1]

\* The tables of ts that exist are dropped; one version for all of them.
DropTable(m, ts) ==
  LET dropped == ts \cap DOMAIN m.table_info
  IN  IF dropped = {} THEN m
      ELSE [m EXCEPT
              !.node_table = [n \in Node |->
                 @[n] \ {t \in dropped : n \in TableMembers(m.table_info[t])}],
              !.table_info = [t \in DOMAIN @ \ dropped |-> @[t]],
              !.version.version = @ + 1]

\* Mutant of CommitMigrate: the table keeps its version.
CommitMigrateSameTable(m, t, i, dst, role) ==
  IF dst \in Members(m.table_info[t].partitions[i]) THEN m
  ELSE [m EXCEPT !.table_info[t].partitions[i].slaves = Append(@, dst),
                 !.node_table[dst] = @ \cup {t},
                 !.version.version = @ + 1]

\* CommitMigrate past its version check. An absent master is appended to the
\* slaves as an empty node.
CommitMigrate(m, t, i, dst, role) ==
  LET table == m.table_info[t]
      p == table.partitions[i]
      q == IF role = "MASTER" THEN [p EXCEPT !.slaves = Append(@, p.master), !.master = dst]
                              ELSE [p EXCEPT !.slaves = Append(@, dst)]
      r == IF 1 + Len(q.slaves) = table.duplicate_num THEN [q EXCEPT !.status = "ACTIVE"] ELSE q
  IN  IF dst \in Members(p) THEN m
      ELSE [m EXCEPT !.node_table[dst] = @ \cup {t},
                     !.table_info[t] = [table EXCEPT !.partitions[i] = r,
                                                     !.version = m.version.version + 1],
                     !.version.version = @ + 1]

-----------------------------------------------------------------------------
\* Mutant of Changed: behind only when both numbers are.
ChangedBoth(m, info) == info.epoch < m.version.epoch /\ info.version < m.version.version

\* True when the version info is behind m in either number.
Changed(m, info) == info.epoch < m.version.epoch \/ info.version < m.version.version

=============================================================================
