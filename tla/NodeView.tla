------------------------------ MODULE NodeView ------------------------------
(* One node server's copy of the meta server's state, meta_info_ of          *)
(* NodeServer (node/node_server.cc): the ping timer, the thread that pulls   *)
(* after a ping, a request thread that pulls when a request is ahead of the  *)
(* node, and a thread that creates a table and installs the answer. Every    *)
(* remote call is sent in one step and answered, or lost, in a later one.    *)
(* The node servers meet only in the meta server, so the others are pings,   *)
(* failures and table commands that reach it at any time.                    *)
EXTENDS MetaInfo

CONSTANTS
  Self,          \* the node server
  Dup,           \* copies of every table, before the clamp
  MaxEpoch,      \* bound: no node is taken down once the epoch is there
  MaxVersion,    \* bound: no table is created or dropped once the version is there
  MaxQueue,      \* bound: updates waiting in update_pool_
  MaxRestarts    \* bound: restarts of the node server

ASSUME SelfAssumption == Self \in Node
ASSUME DupAssumption == Dup \in Nat \ {0}
ASSUME BoundsAssumption ==
  MaxEpoch \in Nat /\ MaxVersion \in Nat /\ MaxQueue \in Nat \ {0} /\ MaxRestarts \in Nat

VARIABLES
  meta,      \* MetaServer::meta_info_
  view,      \* NodeServer::meta_info_
  queue,     \* MetaUpdaters waiting in update_pool_, by their info_
  update,    \* answer to the PULL of the update thread: << >> or <<view>>
  request,   \* answer to the PULL of a request thread: << >> or <<view>>
  create,    \* the CreateTable call
  mixed,     \* history: an answer to INIT was installed over another view
  restarts

nodeVars == <<view, queue, update, request, create, mixed, restarts>>
vars == <<meta, nodeVars>>

-----------------------------------------------------------------------------
\* common::MetaInfo as constructed: VersionInfo() is -1, -1.
EmptyView == [version |-> [epoch |-> -1, version |-> -1],
              table_info |-> [t \in {} |-> t],
              nodes |-> << >>]

NoCreate == [step |-> "none"]

Init ==
  /\ meta = InitMeta
  /\ view = EmptyView
  /\ queue = << >> /\ update = << >> /\ request = << >>
  /\ create = NoCreate
  /\ mixed = FALSE
  /\ restarts = 0

-----------------------------------------------------------------------------
\* The meta server: the outcomes of UpdateNode, and the commands of others.
UpdateNode(m, n) ==
  IF n \notin Elems(m.nodes) THEN {UpdateNewNode(m, n, order) : order \in OrdersWith(m, n)}
  ELSE IF n \notin m.alive THEN {UpdateDownNode(m, n, carried) : carried \in Carried(m, n)}
  ELSE {m}

\* duplicate_num is at most the number of nodes the node server knows.
Clamp(order) == IF Dup > Len(order) THEN Len(order) ELSE Dup

OthersPing == \E n \in Node \ {Self} : meta' \in UpdateNode(meta, n)

NodeDown ==
  /\ meta.version.epoch < MaxEpoch
  /\ \E n \in meta.alive : meta' = DownNodes(meta, <<n>>)

OthersCreate ==
  /\ meta.version.version < MaxVersion
  /\ meta.nodes # << >>
  /\ \E t \in Table \ DOMAIN meta.table_info :
       meta' = CreateTable(meta, t, NewTable(meta.nodes, t, Clamp(meta.nodes)))

ClientDrop ==
  /\ meta.version.version < MaxVersion
  /\ \E t \in DOMAIN meta.table_info : meta' = DropTable(meta, {t})

MetaStep == (OthersPing \/ NodeDown \/ OthersCreate \/ ClientDrop) /\ UNCHANGED nodeVars

-----------------------------------------------------------------------------
\* Mutant of CheckShouldUpdate: the epoch is not compared.
CheckShouldUpdateVersion(info) == info.version # view.version.version

CheckShouldUpdate(info) == info # view.version

\* HandlePing. The version in the answer is compared with the view here and again
\* when the update runs, so the answer is taken at once.
HandlePing ==
  /\ meta' \in UpdateNode(meta, Self)
  /\ IF CheckShouldUpdate(meta'.version)
     THEN Len(queue) < MaxQueue /\ queue' = Append(queue, meta'.version)
     ELSE UNCHANGED queue
  /\ UNCHANGED <<view, update, request, create, mixed, restarts>>

\* The meta server applies the PING and the answer is lost.
PingLost ==
  /\ meta' \in UpdateNode(meta, Self)
  /\ UNCHANGED nodeVars

-----------------------------------------------------------------------------
\* The answer to a PULL by node: only the tables the node is recorded for.
Pulled(m) ==
  [version |-> m.version,
   table_info |-> [t \in m.node_table[Self] \cap DOMAIN m.table_info |-> m.table_info[t]],
   nodes |-> m.nodes]

\* MetaUpdater::Run and UpdateMetaInfo, up to the answer of the meta server.
StartUpdate ==
  /\ queue # << >> /\ update = << >>
  /\ queue' = Tail(queue)
  /\ update' = IF CheckShouldUpdate(Head(queue)) THEN <<Pulled(meta)>> ELSE << >>
  /\ UNCHANGED <<meta, view, request, create, mixed, restarts>>

\* CheckEpoch of a request that is ahead of the node: the newest a client can
\* send has the numbers of the meta server, once that has told it of the node.
Ahead ==
  /\ Self \in Elems(meta.nodes)
  /\ \/ meta.version.epoch > view.version.epoch
     \/ meta.version.version > view.version.version

StartRequest ==
  /\ request = << >>
  /\ Ahead
  /\ request' = <<Pulled(meta)>>
  /\ UNCHANGED <<meta, view, queue, update, create, mixed, restarts>>

\* Mutant of UpdateMetaInfo: the version is taken over, the tables are only added to.
UpdateMetaInfoMerge(pulled) ==
  /\ view' = [pulled EXCEPT !.table_info =
                [t \in DOMAIN @ \cup DOMAIN view.table_info |->
                   IF t \in DOMAIN view.table_info THEN view.table_info[t] ELSE @[t]]]
  /\ mixed' = FALSE

\* UpdateMetaInfo, from the answer: the whole view is replaced, whatever it was
\* when the PULL was sent. (The DropTabler it queues for the tables that leave the
\* view touches the node's data only, in module NodeData.)
UpdateMetaInfo(pulled) ==
  /\ view' = pulled
  /\ mixed' = FALSE

Lost == UNCHANGED <<view, mixed>>

UpdateAnswered ==
  /\ update # << >>
  /\ UpdateMetaInfo(update[1])
  /\ update' = << >>
  /\ UNCHANGED <<meta, queue, request, create, restarts>>

UpdateLost ==
  /\ update # << >> /\ update' = << >>
  /\ Lost
  /\ UNCHANGED <<meta, queue, request, create, restarts>>

RequestAnswered ==
  /\ request # << >>
  /\ UpdateMetaInfo(request[1])
  /\ request' = << >>
  /\ UNCHANGED <<meta, queue, update, create, restarts>>

RequestLost ==
  /\ request # << >> /\ request' = << >>
  /\ Lost
  /\ UNCHANGED <<meta, queue, update, create, restarts>>

-----------------------------------------------------------------------------
\* CreateTable, a call for a table the node does not have. It reads meta_info_
\* without the lock: the epoch, then the version, then the list of nodes.
CreateTableRpc ==
  /\ create.step = "none"
  /\ view.version.epoch >= 0
  /\ \E t \in Table \ DOMAIN view.table_info :
       create' = [step |-> "epoch", table |-> t, dup |-> Clamp(view.nodes),
                  epoch |-> view.version.epoch]
  /\ UNCHANGED <<meta, view, queue, update, request, mixed, restarts>>

ReadVersion ==
  /\ create.step = "epoch"
  /\ create' = [step |-> "version", table |-> create.table, dup |-> create.dup,
                info |-> [epoch |-> create.epoch, version |-> view.version.version]]
  /\ UNCHANGED <<meta, view, queue, update, request, mixed, restarts>>

SendInit ==
  /\ create.step = "version"
  /\ create' = [step |-> "sent", table |-> create.table, info |-> create.info,
                content |-> NewTable(view.nodes, create.table, create.dup)]
  /\ UNCHANGED <<meta, view, queue, update, request, mixed, restarts>>

\* The meta server accepts INIT; the answer carries its new version.
InitAccepted ==
  /\ create.step = "sent"
  /\ create.info = meta.version
  /\ create.table \notin DOMAIN meta.table_info
  /\ meta.version.version < MaxVersion
  /\ meta' = CreateTable(meta, create.table, create.content)
  /\ create' = [step |-> "answered", table |-> create.table, info |-> create.info,
                version |-> meta'.version, content |-> meta'.table_info[create.table]]
  /\ UNCHANGED <<view, queue, update, request, mixed, restarts>>

\* INIT refused, or the call or its answer lost: the node server changes nothing.
InitFailed ==
  /\ create.step \in {"sent", "answered"}
  /\ create' = NoCreate
  /\ UNCHANGED <<meta, view, queue, update, request, mixed, restarts>>

\* The answer to INIT sets the version and adds one table to the view.
InitAnswered ==
  /\ create.step = "answered"
  /\ view' = [view EXCEPT !.version = create.version,
                          !.table_info = WithTable(@, create.table, create.content)]
  /\ mixed' = (mixed \/ view.version # create.info)
  /\ create' = NoCreate
  /\ UNCHANGED <<meta, queue, update, request, restarts>>

\* The process is stopped and started: its memory is lost.
Restart ==
  /\ restarts < MaxRestarts
  /\ restarts' = restarts + 1
  /\ view' = EmptyView /\ mixed' = FALSE
  /\ queue' = << >> /\ update' = << >> /\ request' = << >>
  /\ create' = NoCreate
  /\ UNCHANGED meta

Create == CreateTableRpc \/ ReadVersion \/ SendInit \/ InitAccepted \/ InitFailed \/ InitAnswered

Next ==
  \/ MetaStep
  \/ HandlePing \/ PingLost
  \/ StartUpdate \/ UpdateAnswered \/ UpdateLost
  \/ StartRequest \/ RequestAnswered \/ RequestLost
  \/ Create
  \/ Restart

Spec == Init /\ [][Next]_vars

\* The timer and the threads of the node server run, and a call that is made
\* again and again is answered in the end.
Fairness ==
  /\ SF_vars(HandlePing)
  /\ WF_vars(StartUpdate) /\ SF_vars(UpdateAnswered)
  /\ WF_vars(RequestAnswered \/ RequestLost)
  /\ WF_vars(ReadVersion) /\ WF_vars(SendInit) /\ WF_vars(InitAnswered \/ InitFailed)

LiveSpec == Spec /\ Fairness

-----------------------------------------------------------------------------
\* A view that is not mixed and has the version of the meta server is what the
\* meta server would answer a PULL with, so that CheckShouldUpdate may stop there.
CurrentIsComplete ==
  ~mixed /\ view.version = meta.version =>
    /\ view.nodes = meta.nodes
    /\ DOMAIN Pulled(meta).table_info \subseteq DOMAIN view.table_info
    /\ \A t \in DOMAIN view.table_info :
         t \in DOMAIN meta.table_info /\ view.table_info[t] = meta.table_info[t]

\* Once nodes and tables stay as they are, the node server's view reaches the
\* version of the meta server and stays there.
Converges == <>[](view.version = meta.version)

=============================================================================
