# A TLA+ model of noah

`src/storage/noah` is a key-value store. Tables are cut into partitions, every
partition has a master and slaves among the node servers, and a small group of
meta servers, replicated with braft, decides who holds what. Most of the
repository is vendored libraries (`net`: brpc, bthread and butil, `raft`: braft,
`third_party`) and small demonstrations (`ai`, `base`, `test`). Of the libraries two
parts are modelled, because the store rests on them: the consensus of braft, and
the ExecutionQueue that orders its disk writes and its tasks.

## The system

| part | source | state | operations |
|---|---|---|---|
| MetaInfo | `meta/meta_info.{h,cc}` | `version_` (epoch, version), `table_info_`, `node_table_`, `nodes_` | `UpdateNode`, `CreateTable`, `DownNodes`, `DropTable`, `CommitMigrate`, `Init`, `LoadFromSnapshot`, `GetSnapshot` |
| MetaCommand | `meta/meta_command.cc` | the cached `snapshot_` | one handler per request type; PULL and LIST are answered from the snapshot, the rest through the log |
| MetaMigrate | `meta/meta_migrate.cc` | `migrate_tasks_`, `processor_info_`, `migrating_info_` | `AddMigrateTasks`, `GetMigrateTask`, `CommitMigrate` |
| MetaServer | `meta/meta_server.cc` | leader term, braft node, schedule timer, snapshots on disk | `Start`, `Apply`, `on_apply`, snapshot save and load, leader start and stop, `CheckNodesStatus` |
| NodeServer | `node/node_server.cc` | `meta_info_` (the node's copy of the routes), channels, pools | RPC handlers, `HandlePing`, `UpdateMetaInfo`, `CheckEpoch`, `DropTable` |
| NodeMigrate | `node/node_migrate.cc` | running migrations | `Run`, `Register`, `MigrateData`, `CommitToMeta` |
| NodeData, Cache, LdbMgr, Expired | `node/node_data.cc`, `cache.cc`, `ldb.cc`, `expired.cc` | the key-value pairs of each partition, with expiry times | get, set, delete, list, clear, expiry sweeps |
| client | `client/cluster.cc`, `iterator.cc` | cached routes, the position of an iterator | table and key operations, retries, iteration |
| braft | `raft/braft/node.cpp`, `log_manager.cpp`, `ballot_box.cpp`, `raft_meta.cpp`, `replicator.cpp` | term, vote and their file, the log in memory and on disk, the disk queue, ballots | elections, vote and append handlers, `disk_thread`, `commit_at`, restart |
| ExecutionQueue | `net/bthread/execution_queue.{h,cpp}`, `execution_queue_inl.h` | `_head` and the linked nodes, `_versioned_ref`, `_high_priority_tasks` | `execute`, `cancel`, `stop`, `dereference`, `_execute_tasks`, `_more_tasks` |

A node server pings the meta leader; the first ping of a node, and the first one
after it was declared down, is a new *epoch*. The leader's timer finds nodes that
have not pinged for `node_timeout_ms` and puts a DOWNNODES command into the log:
the node is released from its partitions, a slave is promoted, and the partition
is SLOWDOWN (or STUCK, without a master) until the node is back. Creating,
dropping or migrating a table is a new *version*. Clients and nodes pull routes
from the leader and send the epoch and the version of the table with every
request; a node server refuses a request whose numbers are not those of its view.
The master of a partition passes Set and Del on to the slaves before it writes.

What is hard about it:

- the placement is computed by one rule when a table is created and a node
  returns, and by another one when a node fails;
- two numbers have to stand for every change of the placement, for the cached
  snapshot, for node servers and for clients;
- views are pulled by several threads, and answers can be late or lost;
- a snapshot of the meta server is taken beside the log, and its state depends on
  the iteration order of hash maps;
- writes reach the copies one after the other, while roles change;
- requests, the expiry sweep and the drop of a table share caches, and pages of a
  listing are asked for one by one while keys disappear;
- braft releases its mutex in the middle of an election and of a vote, and writes
  its log behind a queue; that queue is a list without locks.

## Modules

| module | models | state | actions |
|---|---|---|---|
| `MetaInfo` | the operations of MetaInfo as operators on a record `m` | none | none |
| `MetaCommand` | the commands applied in log order | `meta`, `reply`; history `born` | `DealPing`, `DealInit`, `DealDropTable`, `DealDownNodes`, `DealMigrate` |
| `MetaView` | MetaCommand plus the cached snapshot and a pulled route | `snapshot`, `held` | `ViewPing`, `DealPull`, `DealPullNode`, `DealList` |
| `MetaServer` | replicas, log, snapshots, crashes, leader | `log`, `leader`, `replica`, `snapshot` | `Propose`, `OnApply`, `Initialized`, `InitMetaInfo`, `OnSnapshotSave`, `SaveSnapshot`, `SaveFailed`, `InstallSnapshot`, `Crash`, `Start`, leader start and stop |
| `NodeView` | one node server's view against the meta server | `view`, `queue`, `update`, `request`, `create` | ping, the two kinds of pull, CreateTable in five steps, restart |
| `NodeRoute` | NodeView plus a client's route and `CheckEpoch` | `held` | `UpdateTableInfo` |
| `Replica` | Set, Del and Get of a key on master and slaves | `history` of the meta server, `view`, `data`, `op`, `calls`, `writes` | `NodeDown`, `NodeBack`, `UpdateMetaInfo`, `Receive`, `SlaveReceive`, `SlaveWrite`, `CallFailed`, `MasterWrite` |
| `NodeData` | the caches of one partition under concurrent threads | `heap`, `current`, `writer`, `sweep`, `drop`, `now` | `Set`/`CreateCache`/`SetExpiry`/`Write`, `Del`/`Erase`, the sweep, `ClearTables`/`Clear` |
| `Iterator` | the client's iterator and `Cache::List` | `cache`, `table_info`, `last_id`, `last_end`, `last_key` | `List`, `ListFailed`, `Erase` |
| `Raft` | one braft group | `term`, `voted`, `meta` (its file), `window` (threads that wait outside the mutex), `asked`, `log`, `disk`, `diskq`, `diskId`, `lastId`, `ballots`, `committed`, `msgs`; history `lapsed` | `ElectionTimeout`, `ElectSelf`/`ElectSelfLocked`, `RequestVote`/`RequestVoteLocked`, `BecomeLeader`, `Apply`, `AppendEntries`, `AppendOk`, `DiskThread`, `LeaderConflict`, the timeouts, `HigherTerm`, `Restart` |
| `ExecutionQueue` | the queue, one shared access a step | `head`, `node`, `urgent`, `vref`, `call`, `exec`; history `pushed`, `cancelled`, `stops` | `Address`/`Hold`, `Execute`/`Count`/`Swap`/`Link`, `Cancel`, `Stop`/`Mark`/`Release`/`Recycle`, the executor's `Top`, `NextTask`, `Done`, `NoTask`, `More`, `Reverse` |
| `TaskQueue` | what `execution_queue.h` promises: the abstract specification of `ExecutionQueue` | `waiting`, `running`, `cancelled`, `stops` | `Accept`, `Start`, `Finish`, `Withdraw`, `Over` |
| `RaftVotes` | the inductive invariant of Raft's elections | | |
| `..._proofs` | the proofs about MetaInfo, MetaView (with MetaCommand), NodeRoute, NodeData and Raft | | |
| `MC...` | constants and symmetry for the model checker | | |

How the code is abstracted:

- `MetaInfo` keeps the four members of the class. `nodes_` is an
  `std::unordered_map`; its iteration order decides the placement, so it is a
  sequence, and a new node may be inserted anywhere (`OrdersWith`). `MetaServer`
  compares replicas, so there the order is a function, the constant `Insert`; the
  model checker uses the one of libstdc++ for nodes in different buckets (in front).
  `last_alive_time` is reduced to up and down (`alive`). The loop over
  `table_info_` in `UpdatePartNodeMS` carries a flag from one table to the next in
  map order; `Carried` is the set of tables it may reach.
- No command is split: `on_apply` runs them one by one. Requests carry the current
  version or an older one.
- `MetaMigrate` never has a task, because `MigrateFromTable` leaves its list of tasks
  empty, so `DealPing` hands none out. A MIGRATE command can still arrive through
  the RPC interface and is modelled in `MetaCommand`.
- In `NodeView` a remote call has a step when the meta server answers and another
  one when the answer is installed, or lost. `CreateTable` reads the view without
  its lock, in three steps.
- `Replica` starts when all nodes have pinged and the table has been created. A view
  is the number of a state in `history`; a pull may install any of them, since
  `NodeView` shows that answers can be arbitrarily late. `data` has the request that
  wrote the key last. A node that is down is cut off and keeps its memory.
- `NodeData` has one partition; a thread holds the pointer to a cache it looked up,
  and a cache that has left `caches_` lives while it is held. A write may rehash the
  map and change its order.
- To `MetaServer` braft is a log of committed entries, a leader that has applied all
  of them, and the calls on the state machine; brpc calls are answered, fail, or fail and arrive
  nevertheless; `MergeFrom` on a proto3 enum makes any answer that is not OK win.
- In `Raft` a handler is one step, except where it unlocks `_mutex`: there it is two,
  with an element of `window` in between. A message stays in `msgs`, so it may be
  late, repeated or lost. Replicators are reduced to what they may send: any
  stretch of the leader's log with its committed index at some moment
  (`_send_entries` cuts a request at a number of entries and of bytes). An entry is
  its term and the leader that wrote it. `disk_thread` answers `last_log_id(true)`
  with its `last_id` (`lastId`), which starts every batch as `_disk_id` (`diskId`);
  `set_disk_id` ignores a lower id, so after a truncation the answer can be the id of
  an entry that is gone. Where a batch ends is left open; `PreVote` takes the answers
  that are possible when it is called. Two fields of messages, `fresh` and
  `backed`, are no part of the protocol: they record for the properties whether the
  last entry a candidate claimed was not older than the voter's, and whether stored
  votes elected a leader. The version of `_vote_ctx`, which voids responses to an
  earlier candidacy, is reduced to the id that was asked with (`asked`). The history
  variable `lapsed` records that a server knew the leader of a term, or led it, before
  it had stored the term: `step_down` and `elect_self` go on when the meta storage fails.
  A message or a request that would change nothing is left out, and so is one that
  ends in LOG(FATAL).
- In `ExecutionQueue` a step is one access to shared memory; the iterator's walk over
  nodes that only the executor touches is one step. A task is a node and its version.

## What is checked

Every run is a `.cfg` with the module named; `tlc -config X.cfg M`.

| run (cfg, module) | properties | instance | states |
|---|---|---|---|
| `commands` (MetaView, MCMetaView) | `TypeOK`, `CleanRestored`, `NodeTableCovers`, `RefusedUnchanged`, `VersionTellsChange`, `SnapshotFresh`, `RouteFenced` | 2 tables of 1 partition, 2 or 3 copies, `MaxEpoch` 6, `MaxVersion` 2; 3 nodes without pulls, 2 nodes with them | 120,490 |
| `meta_server` (MetaServer, MCMetaServer) | `AgreeOnNumbers` | 2 servers, 2 nodes, 1 table, `MaxLog` 3, `MaxCrashes` 1 | 890,677 |
| `node_route` (NodeRoute, MCNodeRoute) | `NodeFenced`, `CurrentIsComplete` | 2 nodes, 1 table, `MaxEpoch` 3, `MaxVersion` 2, `MaxChanges` 4, `MaxQueue` 1 | 770,369 |
| `node_view_live` (NodeViewLive, MCNodeView) | `Converges` | 2 nodes, 1 table, `MaxEpoch` 2, `MaxVersion` 1, `MaxRestarts` 1 | 163,118 |
| `replica` (Replica, MCReplica) | `GetsAnswered` | 2 nodes, 2 copies, 2 writes, `MaxEpoch` 4 | 155,628 |
| `iterator` (Iterator, Iterator) | `PageExact`, `ScanForward` | 3 partitions, 3 keys, pages of up to 3, 2 keys erased | 36,279 |
| `node_data` (NodeData, MCNodeData) | `WritesKept`, `FlagCovers`, `SweepComplete` | 1 key, 2 writers, 2 caches; or 3 keys, 1 writer, 1 cache, batches of 1 | 505,763 |
| `raft` (Raft, MCRaft) | `ElectionSafety`, `CommittedStored`, `FreshVotesKeepUniqueness` | 3 servers, `MaxQueue` 1, `MaxWindows` 1, eight starts | 277,980 |
| `execution_queue` (ExecutionQueue, MCExecutionQueue) | `ImplementsTaskQueue`, `HighTasksCounted`, `Drains` | 2 callers, 3 nodes; 3 executes and a cancel, or 2, a cancel and a stop | 109,370 |

The properties, each stated in its module:

- `CleanRestored`: down and back in any order, the copies of a table are where the
  placement rule wants them, each once, and the status is right. It is stated for
  *clean* tables: created with every node up, no node joined since, not migrated.
  Without one of these the code does not restore the placement (see below).
- `NodeTableCovers`: `node_table_` misses no clean table a node holds a part of.
- `RefusedUnchanged`, `VersionTellsChange`: a refused command has no effect; every
  change raises one of the two numbers and none ever falls.
- `SnapshotFresh`, `RouteFenced`, `NodeFenced`: the cached snapshot is current unless
  `Changed` says otherwise; a route or a view of another time with the same two
  numbers has the same partitions.
- `CurrentIsComplete`, `Converges`: a node's view with the meta server's version is
  complete, and it gets there whatever was lost. `CurrentIsComplete` and `NodeFenced`
  exclude a view that is *mixed*: an INIT answer installed over a view that had been
  replaced since INIT was sent. Without the exclusion both are false.
- `AgreeOnNumbers`: replicas that applied the same entries, from the log or from a
  snapshot, agree on everything that decides whether a command is accepted. It
  excludes replicas that loaded a snapshot that is no cut, or applied an entry before
  `Init()` was through (the field `odd`). They need not
  agree on the placement: loading a snapshot rebuilds `nodes_` in another order.
  With two copies, the log PING n1, PING n2, INIT, DOWNNODES n1, PING n1 and a
  restart from a snapshot after INIT, the model checker finds two replicas with
  different masters. No comment or test promises otherwise, so it is not a run.
- `GetsAnswered`: with one slave, no Get misses a Set that was answered.
- `ElectionSafety`, `CommittedStored`, `FreshVotesKeepUniqueness`: stored votes elect one
  leader a term; what any peer counts committed is in its log and on the disks of a
  majority; committed entries of two peers are equal. The last two are stated for
  behaviours in which every vote so far went to a claim not older than the voter's log
  and was stored before it made a leader, and no server followed a leader, or led, in a
  term it had not stored (`~lapsed`). braft itself breaks these premises, the first two
  as told below and the third when a write of the meta storage fails; the run shows
  that nothing else is wrong on this instance.
- `ImplementsTaskQueue`: a refinement. `waiting` is mapped to the pushed tasks that are
  still unexecuted, in the order of their exchange on `_head`, and `running` to the task
  of the executor. So each accepted task runs once, one at a time, in the order of
  its priority, and the stop task is last. `HighTasksCounted`, `Drains`: the counter
  does not drift, and everything accepted is run or cancelled in the end.
- `PageExact`, `ScanForward`, `WritesKept`, `FlagCovers`, `SweepComplete`: listing and
  caches.

Why the bounds are enough. In `commands`, six epochs are three joins and up to three
failures, with the returns after them: all nodes fail together and return one by
one, or a node fails twice. Two tables start at different nodes in the placement
rule, and only several tables show the flag `UpdatePartNodeMS` carries from one to
the next. Two more instances were run once and hold: one table of two partitions
with `MaxEpoch` 8 (148,775 states), and two tables on two nodes with `MaxEpoch` 5 and
`MaxVersion` 4, where both tables are dropped at once (311,226 states).
Behaviours with pulls and a cached snapshot add state that no command reads; they have
two nodes, and no node is taken down from epoch 4 on. An instance with one table and
`MaxVersion` 3, where a table comes back under its name, was run too and holds
(110,742 states). `node_route` has a create and a drop, and up to four changes in all.
One waiting update is enough, as a second one repeats the
comparison. In `meta_server`, three entries are a join, a table or a failure, and
one more before or after the snapshot. In `replica`, two writes are the least that can
supersede one another, and two failures let both copies be away, together or in
turn; instances with three writes (`MaxEpoch` 3) and with `MaxEpoch` 5 were run too
and hold. In `iterator`, three keys over three partitions give empty partitions at
every place. In `node_data`, two caches are one in use and one that was dropped.
In `raft` a budget limits rounds of pre_vote, terms, tasks and faults. From the
beginning: two elections of one term with a fault (a restart, a failed write or a
timeout) anywhere, and one that times out and is repeated. From a group that has
just elected a leader: another election, a task, or a fault. From the middle of
three more histories: a server that was cut off; two leaders in one term, which fires
`LeaderConflict`; and a server whose newer entry was replaced by an older one of the
leader, which then stands for election with the id of the entry it has lost. `MaxWindows` 1 lets one server at a time wait outside its mutex, and
that is enough for `raft_uniqueness`. In
`execution_queue`, three tasks are the least that gives a list with a middle; the
budget of 3 executes, a cancel and a stop with 2 nodes was run too and holds
(280,028 states).

Deadlock is not checked in `meta_server`, `replica`, `raft` and `execution_queue`, where the
system stops once the log is full, every request is through or the budget is spent.
In the other runs there is always a step.

Fairness is used in two runs. In `execution_queue`, a thread that has entered a call
goes on and a bthread that was started runs (`WF` on each caller and on the executor);
nobody is obliged to call. In `node_view_live`, the ping timer fires and is answered in
the end if it is tried again and again (`SF` on `HandlePing`), the thread of
`update_pool_` runs (`WF` on `StartUpdate`) and its PULL is answered in the end (`SF` on
`UpdateAnswered`), and calls that are out end, with or without an answer (`WF`).
`HandlePing` repeats every `ping_interval_ms` and calls have timeouts.

## Findings

Runs marked *violation* state what a comment or a test says and end in a
counterexample; `PROJECT.json` quotes the lines.

| run (cfg, module) | the code does | it says |
|---|---|---|
| `snapshot_is_cut` (SnapshotIsCut, MCMetaServer) | a snapshot has commands that are behind its index | "this method will block on_apply" (`raft.h:217`) |
| `raft_uniqueness` (RaftUniqueness, MCRaft) | a peer stores and acknowledges an entry while its vote waits outside the mutex, then votes by its older log; the committed entry is replaced | "committed tasks in different peers with the same index are always the same" (`raft.h:142`) |
| `values_persist` (ValuesPersist, MCReplica) | Set is answered although one of two slaves was not reached, and that slave is promoted | "check if values persist" (`noah_test.cc:875`) |

Six other statements were found false with the same modules. They are not kept as
runs; the properties above are stated so as to leave them out.

- A node can be master and slave of one partition, and is then released only once
  when it fails. This takes a table that was created while the node was down.
  (`meta_info.cc:332`: "relase master and slave"; excluded by `Clean`.)
- A returning node is recorded in `node_table_` for tables it has nothing of, and the
  record outlives the table. (`meta_info.cc:321`: "Table ... should exist".)
- A partition without a master is SLOWDOWN, not STUCK, after a slave has returned.
  (`meta_migrate.cc:94`: "is stucked".)
- A replica that applies a PING before `Init()` counts table versions from -1, so its
  first table has version 0. (`meta_info.h:128`: "0 initial but no table"; excluded
  by `odd`.)
- Del is accepted while a copy is away (`> kSlowDown`, `node_server.cc:475`; Set has
  `>=`), and the value is back when that copy returns as the master. (`noah_test.cc:961`:
  "check if values deleted"; `GetsAnswered` speaks of the Dels made with all copies there.)
- A server whose vote for itself could not be stored leads all the same when its last
  leader votes for it (`node.cpp:1389`), and another vote request that waits outside
  its mutex can then be granted in the same term: two leaders. (`node.cpp:1685`: "reset
  _voted_id to avoid inconsistent cases", "return immediately without granting
  _vote_ctx"; excluded by `backed`.)

## What is proved

TLAPS proves these for every value of the constants, from the assumptions in
the modules: `NoNode` is no node, there is at least one partition, `Hash` maps tables
to naturals, the numbers of copies are positive; the servers of a braft group are
finitely many, more than one, and `Nobody` is none of them; the batch of a sweep is
positive and times to live are naturals.

- `MetaView_proofs`, of the commands: `TypeCorrect`, `VersionTellsChangeHolds`,
  `RefusedUnchangedHolds`. The inductive invariant is `Inv == TypeOK /\ Sound(meta) /\ EpochZero`. `Sound` adds
  that no table has a version ahead of the server's: the versions a command writes
  into tables come from the server's. `EpochZero` says that the epoch is 0 only in
  the initial state. It is needed because handlers compute the status of an answer
  from the epoch they return: an accepted command at epoch 0 would be answered like
  a refused one. Every command is shown to be a step of `Moves`, which raises one of
  the numbers or changes nothing, and the theorems follow from that.
  `CleanRestoredHolds` and `NodeTableCoversHolds` rest on a second invariant,
  `CleanInv`: a clean table is `Intact`, which is to say held partition by partition
  as the placement rule wants it on the nodes that are up, and recorded in
  `node_table_` for every holder. It has to speak of the order of `nodes_` too: no
  table was born with more nodes than there are, so a join makes every older table
  unclean. The two rules, for a node that returns and for nodes that fail together,
  are each shown to lead from `Intact` to `Intact`, for any number of nodes, copies
  and partitions.
- `MetaView_proofs`, of the views: `SnapshotFreshHolds`, `RouteFencedHolds`. The invariant is
  `ViewInv`: `Inv`, `SnapshotFresh`, `RouteFenced`, the type of the snapshot and
  `NotAhead` (a route that was pulled is not ahead of the server). `NotAhead` is what
  carries `RouteFenced` over a step: a change of the partitions raises the epoch, or
  gives the table a version that no route can have yet.
- `NodeRoute_proofs`: `CurrentIsCompleteHolds`, `NodeFencedHolds`. The inductive invariant
  `RouteInv` speaks of everything that has been shown of a table and may still be
  used: the meta server's state, the node's view, both pulls on their way, the INIT
  that was answered and the client's route. `FenceInv`: no two of these agree on
  epoch, table and version and differ in the partitions. `CompleteInv`: those with the
  server's version have its tables and nodes. `ViewsInv` and `CreateInv` say that none is
  ahead of the server and that INIT counts one version up. The properties alone are
  not inductive, as a pull on its way becomes the view.
- `NodeData_proofs`: `NoWriteLost`, `ExpiryFlagCovers`, `SweepMissesNothing`, for any
  keys, request threads, caches, batch size and clock. The invariant adds to the three
  properties that the cache a DropTabler has taken out is not the current one
  (`DropInv`), that a thread which raised `expired_` of the current cache and has not
  written yet finds it raised (`RaisedInv`), and that nothing before the place where an
  undisturbed sweep goes on was due when it began (`SweepInv`).
- `Raft_proofs`: `RaftElectionSafety`, for a group of any size and any number of faults,
  elections and threads outside the mutex. The inductive invariant says that a vote
  that was granted is in the file of the voter until a later term is (`GrantInv`),
  that memory and file agree on votes for others (`StoredInv`), that a thread in
  `elect_self` has nothing stored in its term (`ElectInv`), that a waiting vote thread
  is not ahead (`VoteInv`), and that a leader which sends was elected by a quorum of
  such votes (`MsgInv`). Two quorums share a server, which granted once.
- `MetaInfo_proofs`: the lemmas below them, one per operation of MetaInfo: what it makes
  of a state of the right type, and how it moves the two numbers. The loops over
  down nodes and over slaves are recursive functions; their invariants are proved
  by the least counterexample (`LeastNat`, `LoopInvariant`, `LoopExists`).

Only model-checked: the liveness properties `Converges` and `Drains`; the refinement
`ImplementsTaskQueue` and `HighTasksCounted` (the list is followed by recursive operators,
which the prover does not take); `CommittedStored` and `FreshVotesKeepUniqueness`;
and everything about `MetaServer`, `Replica` and `Iterator`.

## Not modelled

- MetaMigrate and NodeMigrate: nothing adds a task or starts a migration. The
  commit of a migration is modelled.
- Persistence (`ldb.cc`, the `Ldb...` half of `node_data.cc`), off by default, and the
  loss of memory in a restart of a node server as seen by `Replica`.
- The retry loops of the client and the search for the leader (`meta_client.cc`). A
  retry is one more request, which `Replica` has; whether the loops end depends on
  other clients and on the timing of elections.
- Views, caches and roles of a node in one model, with tables dropped and created
  again: the product of `NodeView`, `NodeData` and `Replica` is out of the model
  checker's reach.
- braft: leader leases (off by default), changes of the configuration, installing
  snapshots, truncating the log's prefix, transfer of leadership, the cache of
  out-of-order requests, the window between stopping a replicator and its last
  response, and time.
- ExecutionQueue: `join`, executors of the user, and a second life of a slot;
  `dereference` reads `_this_id` after it gave its reference up.
- The rest of the vendored libraries, more than nine tenths of the lines of the
  repository: RPC protocols, the scheduler, containers, metrics and encodings. noah
  uses them through calls that are answered or fail, and they are modelled as that.
- Data races inside library containers (`DealPull` on the shared snapshot,
  `parallel_channels_`): their outcomes cannot be enumerated.
- RPC glue, tools, importers, the second copy of the client under `test_client`.
