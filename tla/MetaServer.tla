----------------------------- MODULE MetaServer -----------------------------
(* The replicas of the meta server (meta/meta_server.cc): each applies the   *)
(* commands of the replicated log to a MetaInfo of its own, saves it as a    *)
(* snapshot in a thread of its own, loses it in a crash and gets it back     *)
(* from a snapshot and the rest of the log. braft is external: a log of      *)
(* committed entries, a leader, and the calls it makes on the state machine. *)
(* MIGRATE has no sender, because no node server starts a NodeMigrate.       *)
EXTENDS MetaInfo, SequencesExt

CONSTANTS
  Server,         \* the replicas
  NoLeader,
  Dup,            \* copies of every table
  Insert(_, _),   \* the iteration order of nodes_ after the insertion of a node
  MaxLog,         \* bound: entries of the log
  MaxCrashes      \* bound: crashes

ASSUME NoLeaderAssumption == NoLeader \notin Server
ASSUME BoundsAssumption == Dup \in Nat \ {0} /\ MaxLog \in Nat /\ MaxCrashes \in Nat

VARIABLES
  log,        \* the committed entries
  leader,     \* the replica whose leader_term_ is the current term
  replica,    \* per server: its MetaInfo and what it is doing
  snapshot,   \* per server: the last snapshot on its disk
  crashes

vars == <<log, leader, replica, snapshot, crashes>>

\* MetaInfo as constructed, before Init().
Uninitialized == [InitMeta EXCEPT !.version = [epoch |-> -1, version |-> -1]]

\* odd is history: the state is not what the log up to applied gives, because an
\* entry was applied or a snapshot loaded before Init() was done, or because a
\* snapshot was not a cut.
Started == [step |-> "starting", meta |-> Uninitialized, applied |-> 0,
            saving |-> << >>, odd |-> FALSE]

\* The servers have been started and nothing has been committed yet.
Init ==
  /\ log = << >>
  /\ leader = NoLeader
  /\ replica = [s \in Server |-> [Started EXCEPT !.step = "running", !.meta = InitMeta]]
  /\ snapshot = [s \in Server |-> << >>]
  /\ crashes = 0

Up(s) == replica[s].step # "down"

-----------------------------------------------------------------------------
\* The requests that node servers, clients and the leader's timer send, from what
\* the leader shows them.
Commands(m) ==
  {[type |-> "PING", node |-> n] : n \in Node}
    \cup {[type |-> "DOWNNODES", epoch |-> m.version.epoch, nodes |-> <<n>>] : n \in m.alive}
    \cup {[type |-> "DROPTABLE", info |-> m.version, tables |-> {t}] : t \in DOMAIN m.table_info}
    \cup {[type |-> "INIT", info |-> m.version, table |-> t,
           content |-> NewTable(m.nodes, t, IF Dup > Len(m.nodes) THEN Len(m.nodes) ELSE Dup)]
            : t \in IF m.nodes = << >> THEN {} ELSE Table \ DOMAIN m.table_info}

\* Apply on the leader: the entry is proposed and committed. It is applied later,
\* when others may have been committed before it.
Propose ==
  /\ leader # NoLeader
  /\ Len(log) < MaxLog
  /\ \E c \in Commands(replica[leader].meta) : log' = Append(log, c)
  /\ UNCHANGED <<leader, replica, snapshot, crashes>>

\* What DealRequest can make of m.
DealRequest(m, c) ==
  CASE c.type = "PING" /\ c.node \notin Elems(m.nodes) ->
         {UpdateNewNode(m, c.node, Insert(m.nodes, c.node))}
    [] c.type = "PING" /\ c.node \in Elems(m.nodes) \ m.alive ->
         {UpdateDownNode(m, c.node, carried) : carried \in Carried(m, c.node)}
    [] c.type = "DOWNNODES" /\ c.epoch = m.version.epoch -> {DownNodes(m, c.nodes)}
    [] c.type = "DROPTABLE" /\ c.info = m.version -> {DropTable(m, c.tables)}
    [] c.type = "INIT" /\ c.info = m.version /\ c.table \notin DOMAIN m.table_info ->
         {CreateTable(m, c.table, c.content)}
    [] OTHER -> {m}

\* on_apply of the next entry.
OnApply(s) ==
  /\ Up(s)
  /\ replica[s].applied < Len(log)
  /\ \E m \in DealRequest(replica[s].meta, log[replica[s].applied + 1]) :
       replica' = [replica EXCEPT ![s].meta = m, ![s].applied = @ + 1,
                                  ![s].odd = @ \/ replica[s].meta.version.epoch = -1]
  /\ UNCHANGED <<log, leader, snapshot, crashes>>

-----------------------------------------------------------------------------
\* The end of Start: MetaInfo::Init, while the raft node already works. It looks at
\* the epoch under one lock and sets both numbers under another.
Initialized(s) ==
  /\ replica[s].step = "starting"
  /\ replica' = [replica EXCEPT ![s].step =
       IF replica[s].meta.version.epoch > -1 THEN "running" ELSE "setting"]
  /\ UNCHANGED <<log, leader, snapshot, crashes>>

InitMetaInfo(s) ==
  /\ replica[s].step = "setting"
  /\ replica' = [replica EXCEPT ![s].step = "running",
                                ![s].meta.version = InitMeta.version,
                                ![s].odd = @ \/ replica[s].meta # Uninitialized]
  /\ UNCHANGED <<log, leader, snapshot, crashes>>

\* on_leader_start, which braft calls when every entry of earlier terms has been
\* applied. RefreshNodes touches the times of nodes that are up only.
OnLeaderStart(s) ==
  /\ leader = NoLeader
  /\ Up(s) /\ replica[s].applied = Len(log)
  /\ leader' = s
  /\ UNCHANGED <<log, replica, snapshot, crashes>>

OnLeaderStop ==
  /\ leader # NoLeader
  /\ leader' = NoLeader
  /\ UNCHANGED <<log, replica, snapshot, crashes>>

-----------------------------------------------------------------------------
\* on_snapshot_save: braft has labelled the snapshot with the last entry applied;
\* the state is read later, in the thread that is started here.
OnSnapshotSave(s) ==
  /\ Up(s) /\ replica[s].saving = << >>
  /\ replica[s].applied > (IF snapshot[s] = << >> THEN 0 ELSE snapshot[s][1].index)
  /\ replica' = [replica EXCEPT
       ![s].saving = <<[index |-> replica[s].applied, at |-> replica[s].meta]>>]
  /\ UNCHANGED <<log, leader, snapshot, crashes>>

\* SaveSnapshot: GetSnapshot and the files. at is history, the state at the label.
SaveSnapshot(s) ==
  /\ replica[s].saving # << >>
  /\ snapshot' = [snapshot EXCEPT ![s] =
       <<[index |-> replica[s].saving[1].index, at |-> replica[s].saving[1].at,
          meta |-> replica[s].meta, odd |-> replica[s].odd]>>]
  /\ replica' = [replica EXCEPT ![s].saving = << >>]
  /\ UNCHANGED <<log, leader, crashes>>

\* A file cannot be written: the last snapshot stays.
SaveFailed(s) ==
  /\ replica[s].saving # << >>
  /\ replica' = [replica EXCEPT ![s].saving = << >>]
  /\ UNCHANGED <<log, leader, snapshot, crashes>>

\* Mutant of SetMetaInfoSnapshot: every saved node is loaded as one that is up.
SetMetaInfoSnapshotUp(saved) ==
  [saved EXCEPT !.node_table = [n \in Node |->
                  {t \in DOMAIN saved.table_info : n \in TableMembers(saved.table_info[t])}],
                !.nodes = FoldLeft(Insert, << >>, saved.nodes),
                !.alive = Elems(saved.nodes)]

\* The state in the files. The nodes, saved in the order of nodes_, are inserted
\* one by one into a new map; node_table is not saved but made from the tables.
SetMetaInfoSnapshot(saved) ==
  [saved EXCEPT !.node_table = [n \in Node |->
                  {t \in DOMAIN saved.table_info : n \in TableMembers(saved.table_info[t])}],
                !.nodes = FoldLeft(Insert, << >>, saved.nodes)]

\* A snapshot that is newer in neither number is ignored.
LoadFromSnapshot(m, saved) ==
  IF saved.version.epoch <= m.version.epoch /\ saved.version.version <= m.version.version
  THEN m ELSE SetMetaInfoSnapshot(saved)

\* on_snapshot_load of snap: braft goes on behind its label.
Loaded(r, snap) ==
  [r EXCEPT !.meta = LoadFromSnapshot(r.meta, snap.meta), !.applied = snap.index,
            !.odd = @ \/ snap.odd \/ snap.meta # snap.at]

\* A follower that is behind gets the leader's snapshot.
InstallSnapshot(s) ==
  /\ leader \notin {s, NoLeader}
  /\ snapshot[leader] # << >> /\ replica[s].saving = << >>
  /\ Up(s) /\ replica[s].applied < snapshot[leader][1].index
  /\ replica' = [replica EXCEPT ![s] = Loaded(@, snapshot[leader][1])]
  /\ snapshot' = [snapshot EXCEPT ![s] = snapshot[leader]]
  /\ UNCHANGED <<log, leader, crashes>>

Crash(s) ==
  /\ crashes < MaxCrashes
  /\ Up(s)
  /\ crashes' = crashes + 1
  /\ replica' = [replica EXCEPT ![s] = [Started EXCEPT !.step = "down"]]
  /\ leader' = IF leader = s THEN NoLeader ELSE leader
  /\ UNCHANGED <<log, snapshot>>

\* Start up to the raft node, which loads the last snapshot if there is one.
Start(s) ==
  /\ replica[s].step = "down"
  /\ replica' = [replica EXCEPT ![s] =
       IF snapshot[s] = << >> THEN Started ELSE Loaded(Started, snapshot[s][1])]
  /\ UNCHANGED <<log, leader, snapshot, crashes>>

Next ==
  \/ Propose
  \/ OnLeaderStop
  \/ \E s \in Server :
       \/ OnApply(s) \/ Initialized(s) \/ InitMetaInfo(s) \/ OnLeaderStart(s)
       \/ OnSnapshotSave(s) \/ SaveSnapshot(s) \/ SaveFailed(s)
       \/ InstallSnapshot(s) \/ Crash(s) \/ Start(s)

Spec == Init /\ [][Next]_vars

-----------------------------------------------------------------------------
\* Two replicas that have applied the same entries, one of them from the log, the
\* other perhaps from a snapshot and the rest of the log, agree on the version, on
\* the nodes that are known and up and on the tables that exist, so that they go
\* on to accept and to refuse the same commands. The exception are replicas marked
\* odd. (They need not agree on the placement: it depends on the order of nodes_.)
AgreeOnNumbers ==
  \A r, s \in Server :
    LET a == replica[r]
        b == replica[s]
    IN  /\ a.step = "running" /\ b.step = "running"
        /\ ~a.odd /\ ~b.odd
        /\ a.applied = b.applied
        => /\ a.meta.version = b.meta.version
           /\ a.meta.alive = b.meta.alive
           /\ Elems(a.meta.nodes) = Elems(b.meta.nodes)
           /\ DOMAIN a.meta.table_info = DOMAIN b.meta.table_info

\* braft says of on_snapshot_save that it blocks on_apply, and that a snapshot may
\* be made asynchronously if the state machine can be copied on write: what is
\* saved is the state after the entry the snapshot is labelled with.
SnapshotIsCut ==
  \A s \in Server : snapshot[s] # << >> => snapshot[s][1].meta = snapshot[s][1].at

=============================================================================
