-------------------------- MODULE NodeRoute_proofs --------------------------
(* For any nodes and tables: a view with the meta server's version is        *)
(* complete, and CheckEpoch fences every outdated route, although pulls      *)
(* arrive late and CreateTable writes into the view.                         *)
EXTENDS NodeRoute, MetaInfo_proofs

\* The answers on their way to the node server.
Pulls == (IF update = << >> THEN {} ELSE {update[1]})
           \cup (IF request = << >> THEN {} ELSE {request[1]})

\* The views the properties speak of, now or later.
Usable == Pulls \cup (IF mixed THEN {} ELSE {view})

\* A record of type common::MetaInfo that is not ahead of the meta server.
IsView(w) ==
  /\ w = [version |-> w.version, table_info |-> w.table_info, nodes |-> w.nodes]
  /\ w.version \in VersionInfo /\ w.nodes \in Seq(Node)
  /\ w.version.epoch <= meta.version.epoch
  /\ w.version.version <= meta.version.version

\* Somebody has pinged before anything is pulled, so a table is placed on nodes.
ViewsInv ==
  /\ Sound(meta) /\ meta.version.epoch >= 0 /\ meta.version.version >= 0
  /\ \A w \in Pulls \cup {view} : IsView(w)
  /\ \A w \in Pulls : w.nodes # << >>
  /\ view.version.epoch >= 0 => view.nodes # << >>
  /\ queue # << >> => meta.nodes # << >>
  /\ create.step # "none" => view.nodes # << >>

\* The version of an answered INIT is the one after the version it was sent with.
CreateInv ==
  \/ create.step = "none"
  \/ create.step \in {"epoch", "version"} /\ create.table \in Table /\ create.dup \in Nat \ {0}
  \/ create.step = "sent" /\ create.table \in Table /\ create.content \in TableInfo
  \/ /\ create.step = "answered"
     /\ create.table \in Table
     /\ create.info \in VersionInfo /\ create.version = NextVersion(create.info)
     /\ create.version.epoch <= meta.version.epoch
     /\ create.version.version <= meta.version.version

\* What has been shown of the tables: their versions and partitions, each with
\* the epoch it was shown at. A mixed view is left out.
From(w) == {<<w.version.epoch, t, w.table_info[t].version, w.table_info[t].partitions>> :
              t \in DOMAIN w.table_info}

Routed == {<<held.epoch, t, held.version, held.partitions>> : t \in held.tables}

Created ==
  IF create.step = "answered"
  THEN {<<create.version.epoch, create.table, create.content.version, create.content.partitions>>}
  ELSE {}

Shown == From(meta) \cup (UNION {From(w) : w \in Usable}) \cup Routed \cup Created

\* No two of them differ in the partitions alone.
FenceInv ==
  /\ \A x \in Shown : /\ x[1] \in Int /\ x[3] \in Int
                      /\ x[1] <= meta.version.epoch /\ x[3] <= meta.version.version
  /\ \A x, y \in Shown : x[1] = y[1] /\ x[2] = y[2] /\ x[3] = y[3] => x[4] = y[4]

\* w has every table the node is recorded for, but for those of added, and no
\* table that is not as the meta server has it, but for those of added.
CompleteBut(w, added) ==
  /\ w.nodes = meta.nodes
  /\ meta.node_table[Self] \cap DOMAIN meta.table_info \subseteq DOMAIN w.table_info \cup added
  /\ \A t \in DOMAIN w.table_info \ added :
       t \in DOMAIN meta.table_info /\ w.table_info[t] = meta.table_info[t]

CompleteInv ==
  /\ \A w \in Usable : w.version = meta.version => CompleteBut(w, {})
  /\ create.step = "answered" /\ create.version = meta.version =>
       /\ create.table \in DOMAIN meta.table_info
       /\ create.content = meta.table_info[create.table]
       /\ \A w \in Usable : w.version = create.info => CompleteBut(w, {create.table})

\* The inductive invariant. CurrentIsComplete and NodeFenced speak of the view
\* only; what is on its way must be as good, and what has been shown at different
\* times must agree.
RouteInv == ViewsInv /\ CreateInv /\ FenceInv /\ CompleteInv

-----------------------------------------------------------------------------
\* What the lemmas on MetaInfo need of the meta server.
LEMMA Current ==
  ASSUME ViewsInv
  PROVE  /\ DOMAIN meta.table_info \in SUBSET Table
         /\ meta.version \in VersionInfo
         /\ meta.version.epoch \in Int /\ meta.version.version \in Int
         /\ meta \in At(DOMAIN meta.table_info, meta.version)
         /\ meta.nodes \in Seq(Node) /\ meta.alive \in SUBSET Node
<1>1. Sound(meta)
  BY DEF ViewsInv
<1> QED
  BY <1>1, SoundType DEF Sound, VersionInfo

\* What a table version shown at a Sound state is.
LEMMA FromSound ==
  ASSUME NEW m, Sound(m), NEW x \in From(m)
  PROVE  /\ x[2] \in DOMAIN m.table_info
         /\ x[1] = m.version.epoch
         /\ x[3] = m.table_info[x[2]].version
         /\ x[4] = m.table_info[x[2]].partitions
         /\ x[1] \in Int /\ x[3] \in Int /\ x[3] <= m.version.version
<1>1. PICK t \in DOMAIN m.table_info :
        x = <<m.version.epoch, t, m.table_info[t].version, m.table_info[t].partitions>>
  BY DEF From
<1>2. m \in At(DOMAIN m.table_info, m.version) /\ m.version \in VersionInfo
  BY SoundType DEF Sound
<1>3. m.table_info[t] \in TableInfo /\ m.table_info[t].version <= m.version.version
  BY <1>2 DEF At, MetaOver
<1>4. m.table_info[t].version \in Int /\ m.version.epoch \in Int
  BY <1>2, <1>3 DEF TableInfo, VersionInfo
<1> QED
  BY <1>1, <1>3, <1>4

LEMMA RouteInitInv == RouteInit => RouteInv
<1> SUFFICES ASSUME RouteInit PROVE RouteInv
  OBVIOUS
<1> USE DEF RouteInit, Init
<1> DEFINE v == [epoch |-> 0, version |-> 0]
<1>1. InitMeta \in MetaOver({}) /\ InitMeta.version = v
  BY DEF InitMeta, MetaOver, VersionInfo
<1>2. Sound(meta)
  BY <1>1, SoundAt DEF At
<1>3. meta.version.epoch = 0 /\ meta.version.version = 0 /\ DOMAIN meta.table_info = {}
  BY DEF InitMeta
<1>4. Pulls = {}
  BY DEF Pulls
<1>5. IsView(view) /\ view.version.epoch = -1 /\ view.version # meta.version
  BY <1>3 DEF IsView, EmptyView, VersionInfo
<1>6. ViewsInv
  BY <1>2, <1>3, <1>4, <1>5 DEF ViewsInv, NoCreate
<1>7. CreateInv
  BY DEF CreateInv, NoCreate
<1>8. Shown = {}
  <2>1. From(meta) = {} /\ From(view) = {}
    BY <1>3 DEF From, EmptyView
  <2>2. Routed = {} /\ Created = {}
    BY DEF Routed, Created, NoRoute, NoCreate
  <2>3. \A w \in Usable : w = view
    BY <1>4 DEF Usable
  <2> QED BY <2>1, <2>2, <2>3 DEF Shown
<1>9. FenceInv
  BY <1>8 DEF FenceInv
<1>10. CompleteInv
  BY <1>4, <1>5 DEF CompleteInv, Usable, NoCreate
<1> QED
  BY <1>6, <1>7, <1>9, <1>10 DEF RouteInv

-----------------------------------------------------------------------------
\* What is shown next agrees with what was shown before, if the meta server
\* shows nothing new or has moved on.
LEMMA FenceStep ==
  ASSUME ViewsInv, FenceInv, Moves(meta', meta), Shown' \subseteq Shown \cup From(meta')
  PROVE  FenceInv'
<1>1. /\ Sound(meta) /\ Sound(meta') /\ meta.version \in VersionInfo /\ meta'.version \in VersionInfo
      /\ meta'.version.epoch >= meta.version.epoch
      /\ meta'.version.version >= meta.version.version
  BY Current, MovesForward DEF ViewsInv
<1>2. /\ meta.version.epoch \in Int /\ meta.version.version \in Int
      /\ meta'.version.epoch \in Int /\ meta'.version.version \in Int
  BY <1>1 DEF VersionInfo
<1>3. ASSUME NEW x \in Shown'
      PROVE  /\ x[1] \in Int /\ x[3] \in Int
             /\ x[1] <= meta'.version.epoch /\ x[3] <= meta'.version.version
  <2>1. CASE x \in Shown
    BY <1>1, <1>2, <2>1 DEF FenceInv
  <2>2. CASE x \in From(meta')
    BY <1>1, <1>2, <2>2, FromSound
  <2> QED BY <2>1, <2>2
<1>4. ASSUME NEW x \in From(meta'), NEW y \in From(meta'), x[2] = y[2]
      PROVE  x[4] = y[4]
  BY <1>1, <1>4, FromSound
<1>5. ASSUME NEW x \in From(meta'), NEW y \in Shown, x[1] = y[1], x[2] = y[2], x[3] = y[3]
      PROVE  x[4] = y[4]
  <2>1. /\ y[1] \in Int /\ y[3] \in Int
        /\ y[1] <= meta.version.epoch /\ y[3] <= meta.version.version
    BY DEF FenceInv
  <2>2. /\ x[2] \in DOMAIN meta'.table_info
        /\ x[1] = meta'.version.epoch
        /\ x[3] = meta'.table_info[x[2]].version
        /\ x[4] = meta'.table_info[x[2]].partitions
    BY <1>1, FromSound
  <2>3. ASSUME x \in Shown PROVE x[4] = y[4]
    BY <1>5, <2>3 DEF FenceInv
  <2>4. From(meta) \subseteq Shown
    BY DEF Shown
  <2>5. CASE meta' = meta
    BY <2>3, <2>4, <2>5
  <2>6. CASE meta'.version = NextEpoch(meta.version)
    BY <1>1, <1>2, <1>5, <2>1, <2>2, <2>6, NextVersionInfo
  <2>7. CASE meta'.version = NextVersion(meta.version) /\ AsIn(meta', meta)
    <3>1. meta'.version.epoch = meta.version.epoch
      BY <1>1, <2>7, NextVersionInfo
    <3>2. CASE /\ x[2] \in DOMAIN meta.table_info
               /\ meta'.table_info[x[2]] = meta.table_info[x[2]]
      <4> DEFINE z == <<meta.version.epoch, x[2], meta.table_info[x[2]].version,
                        meta.table_info[x[2]].partitions>>
      <4>1. z \in From(meta)
        BY <3>2 DEF From
      <4>2. z[1] = x[1] /\ z[2] = x[2] /\ z[3] = x[3] /\ z[4] = x[4]
        BY <2>2, <3>1, <3>2
      <4> HIDE DEF z
      <4> QED BY <1>5, <2>4, <4>1, <4>2 DEF FenceInv
    <3>3. CASE meta'.table_info[x[2]].version > meta.version.version
      BY <1>2, <1>5, <2>1, <2>2, <3>3
    <3> QED BY <2>2, <2>7, <3>2, <3>3 DEF AsIn
  <2> QED BY <2>5, <2>6, <2>7 DEF Moves
<1>6. ASSUME NEW x \in Shown', NEW y \in Shown', x[1] = y[1], x[2] = y[2], x[3] = y[3]
      PROVE  x[4] = y[4]
  <2>1. x \in Shown \/ x \in From(meta')
    OBVIOUS
  <2>2. y \in Shown \/ y \in From(meta')
    OBVIOUS
  <2>3. CASE x \in Shown /\ y \in Shown
    BY <1>6, <2>3 DEF FenceInv
  <2>4. CASE x \in From(meta') /\ y \in Shown
    BY <1>5, <1>6, <2>4
  <2>5. CASE x \in Shown /\ y \in From(meta')
    <3>1. y[1] = x[1] /\ y[2] = x[2] /\ y[3] = x[3]
      BY <1>6
    <3> QED BY <1>5, <2>5, <3>1
  <2>6. CASE x \in From(meta') /\ y \in From(meta')
    BY <1>4, <1>6, <2>6
  <2> QED BY <2>1, <2>2, <2>3, <2>4, <2>5, <2>6
<1> QED
  BY <1>3, <1>6 DEF FenceInv

-----------------------------------------------------------------------------
\* A command moves the meta server, and nodes_ never becomes empty again.
Forward == Moves(meta', meta) /\ (meta.nodes # << >> => meta'.nodes # << >>)

LEMMA UpdateNodeMoves ==
  ASSUME ViewsInv, NEW n \in Node, meta' \in UpdateNode(meta, n)
  PROVE  Forward /\ (n \in Elems(meta.nodes) \/ meta'.nodes # << >>)
<1> DEFINE D == DOMAIN meta.table_info
           v == meta.version
<1>0. D \in SUBSET Table /\ v \in VersionInfo /\ meta \in At(D, v) /\ meta.nodes \in Seq(Node)
  BY Current
<1>1. ASSUME NEW order \in OrdersWith(meta, n), meta' = UpdateNewNode(meta, n, order)
      PROVE  meta' \in At(D, NextEpoch(v)) /\ meta'.nodes # << >>
  <2>1. order \in [1 .. Len(meta.nodes) + 1 -> Node]
    BY <1>0 DEF OrdersWith, Elems
  <2>2. order \in Seq(Node) /\ order # << >>
    BY <1>0, <2>1
  <2> DEFINE r == UpdateNewNode(meta, n, order)
  <2> HIDE DEF D, v
  <2>3. r \in At(D, NextEpoch(v)) /\ r.nodes = order
    BY <1>0, <2>2, UpdateNewNodeType
  <2> HIDE DEF r
  <2> QED BY <1>1, <2>2, <2>3 DEF r
<1>2. ASSUME NEW carried, meta' = UpdateDownNode(meta, n, carried)
      PROVE  meta' \in At(D, NextEpoch(v)) /\ meta'.nodes = meta.nodes
  BY <1>0, <1>2, UpdateDownNodeType
<1>3. /\ \/ meta' = meta
         \/ meta' \in At(D, NextEpoch(v)) /\ (meta'.nodes # << >> \/ meta'.nodes = meta.nodes)
      /\ n \in Elems(meta.nodes) \/ meta'.nodes # << >>
  BY <1>1, <1>2 DEF UpdateNode
<1>4. meta' \in At(D, NextEpoch(v)) => Sound(meta') /\ meta'.version = NextEpoch(v)
  BY <1>0, SoundAt
<1> QED
  BY <1>3, <1>4 DEF Forward, Moves

LEMMA NewTableContent ==
  ASSUME NEW order \in Seq(Node), order # << >>, NEW t \in Table
  PROVE  /\ Clamp(order) \in Nat \ {0}
         /\ \A dup \in Nat \ {0} : NewTable(order, t, dup) \in TableInfo
<1>1. Len(order) \in Nat \ {0}
  OBVIOUS
<1> QED
  BY <1>1, DupAssumption, NewTableType DEF Clamp

LEMMA CreateTableMoves ==
  ASSUME ViewsInv, NEW t \in Table, NEW table \in TableInfo, meta' = CreateTable(meta, t, table)
  PROVE  Forward /\ meta'.version = NextVersion(meta.version) /\ meta'.nodes = meta.nodes
<1> DEFINE D == DOMAIN meta.table_info
           v == meta.version
<1>1. D \in SUBSET Table /\ v \in VersionInfo /\ meta \in At(D, v)
  BY Current
<1> DEFINE r == CreateTable(meta, t, table)
<1> HIDE DEF D, v
<1>2. r \in At(D \cup {t}, NextVersion(v)) /\ AsIn(r, meta) /\ r.nodes = meta.nodes
  BY <1>1, CreateTableType
<1> HIDE DEF r
<1>3. Sound(r) /\ r.version = NextVersion(v)
  BY <1>1, <1>2, SoundAt
<1> QED
  BY <1>2, <1>3 DEF Forward, Moves, v, r

LEMMA MetaStepMoves ==
  ASSUME ViewsInv, OthersPing \/ NodeDown \/ OthersCreate \/ ClientDrop
  PROVE  Forward
<1> DEFINE D == DOMAIN meta.table_info
           v == meta.version
<1>1. /\ D \in SUBSET Table /\ v \in VersionInfo /\ meta \in At(D, v)
      /\ meta.nodes \in Seq(Node) /\ meta.alive \in SUBSET Node
  BY Current
<1>2. CASE OthersPing
  BY <1>2, UpdateNodeMoves DEF OthersPing
<1>3. CASE NodeDown
  <2>1. PICK n \in meta.alive : meta' = DownNodes(meta, <<n>>)
    BY <1>3 DEF NodeDown
  <2>2. <<n>> \in Seq(Node)
    BY <1>1
  <2> DEFINE r == DownNodes(meta, <<n>>)
  <2> HIDE DEF D, v
  <2>3. r = meta \/ (r \in At(D, NextEpoch(v)) /\ r.nodes = meta.nodes)
    BY <1>1, <2>2, DownNodesType
  <2> HIDE DEF r
  <2>4. r \in At(D, NextEpoch(v)) => Sound(r) /\ r.version = NextEpoch(v)
    BY <1>1, SoundAt
  <2> QED BY <2>1, <2>3, <2>4 DEF Forward, Moves, v, r
<1>4. CASE OthersCreate
  <2>1. PICK t \in Table : meta' = CreateTable(meta, t, NewTable(meta.nodes, t, Clamp(meta.nodes)))
    BY <1>4 DEF OthersCreate
  <2>2. NewTable(meta.nodes, t, Clamp(meta.nodes)) \in TableInfo
    BY <1>1, <1>4, NewTableContent DEF OthersCreate
  <2> QED BY <2>1, <2>2, CreateTableMoves
<1>5. CASE ClientDrop
  <2>1. PICK t \in D : meta' = DropTable(meta, {t})
    BY <1>5 DEF ClientDrop
  <2> DEFINE r == DropTable(meta, {t})
  <2> HIDE DEF D, v
  <2>2. \/ r = meta
        \/ /\ r \in At(D \ {t}, NextVersion(v))
           /\ AsIn(r, meta) /\ r.nodes = meta.nodes
    BY <1>1, DropTableType
  <2> HIDE DEF r
  <2>3. r \in At(D \ {t}, NextVersion(v)) => Sound(r) /\ r.version = NextVersion(v)
    BY <1>1, SoundAt
  <2> QED BY <2>1, <2>2, <2>3 DEF Forward, Moves, v, r
<1> QED
  BY <1>2, <1>3, <1>4, <1>5

\* A command that does not concern the node server's threads: whatever they have
\* is outdated, or the command changed nothing.
LEMMA ServerStep ==
  ASSUME RouteInv, Forward, UNCHANGED <<view, update, request, create, mixed, held>>,
         queue' # << >> => meta'.nodes # << >>
  PROVE  RouteInv'
<1> USE DEF RouteInv
<1>1. /\ Sound(meta') /\ meta.version \in VersionInfo /\ meta'.version \in VersionInfo
      /\ meta'.version.epoch >= meta.version.epoch
      /\ meta'.version.version >= meta.version.version
      /\ meta' # meta => Changed(meta', meta.version)
  BY Current, MovesForward DEF ViewsInv, Forward
<1>2. /\ meta.version.epoch \in Int /\ meta.version.version \in Int
      /\ meta'.version.epoch \in Int /\ meta'.version.version \in Int
  BY <1>1 DEF VersionInfo
<1>3. Pulls' = Pulls /\ Usable' = Usable
  BY DEF Pulls, Usable
<1>4. ASSUME NEW w, IsView(w)
      PROVE  IsView(w)' /\ (meta' # meta => w.version # meta'.version)
  BY <1>1, <1>2, <1>4 DEF IsView, Changed, VersionInfo
<1>5. ViewsInv'
  <2>1. \A w \in Pulls' \cup {view'} : IsView(w)'
    BY <1>3, <1>4 DEF ViewsInv
  <2>2. meta'.version.epoch >= 0 /\ meta'.version.version >= 0
    BY <1>1, <1>2 DEF ViewsInv
  <2> QED BY <1>1, <1>3, <2>1, <2>2 DEF ViewsInv
<1>6. CreateInv'
  <2>1. create' = create /\ CreateInv
    OBVIOUS
  <2>2. CASE create.step # "answered"
    BY <2>1, <2>2 DEF CreateInv
  <2>3. CASE create.step = "answered"
    <3>1. /\ create.table \in Table
          /\ create.info \in VersionInfo /\ create.version = NextVersion(create.info)
          /\ create.version.epoch <= meta.version.epoch
          /\ create.version.version <= meta.version.version
      BY <2>1, <2>3 DEF CreateInv
    <3>2. create.version.epoch \in Int /\ create.version.version \in Int
      BY <3>1, NextVersionInfo DEF VersionInfo
    <3>3. /\ create.version.epoch <= meta'.version.epoch
          /\ create.version.version <= meta'.version.version
      BY <1>1, <1>2, <3>1, <3>2
    <3> QED BY <2>1, <2>3, <3>1, <3>3 DEF CreateInv
  <2> QED BY <2>2, <2>3
<1>7. FenceInv'
  <2>1. Routed' = Routed /\ Created' = Created
    BY DEF Routed, Created
  <2>2. Shown' \subseteq Shown \cup From(meta')
    BY <1>3, <2>1 DEF Shown, From
  <2> QED BY <2>2, FenceStep DEF Forward
<1>8. CompleteInv'
  <2>1. CASE meta' = meta
    BY <1>3, <2>1 DEF CompleteInv, CompleteBut
  <2>2. CASE meta' # meta
    <3>1. \A w \in Usable' : w.version # meta'.version
      BY <1>3, <1>4, <2>2 DEF ViewsInv, Usable
    <3>2. ASSUME create.step = "answered" PROVE create.version # meta'.version
      <4>1. /\ create.version \in VersionInfo
            /\ create.version.epoch <= meta.version.epoch
            /\ create.version.version <= meta.version.version
        BY <3>2, NextVersionInfo DEF CreateInv
      <4> QED BY <1>1, <1>2, <2>2, <4>1 DEF Changed, VersionInfo
    <3> QED BY <3>1, <3>2 DEF CompleteInv
  <2> QED BY <2>1, <2>2
<1> QED
  BY <1>5, <1>6, <1>7, <1>8

LEMMA MetaStepKeeps ==
  ASSUME RouteInv, MetaStep \/ PingLost, UNCHANGED held
  PROVE  RouteInv'
<1>1. ViewsInv /\ (queue # << >> => meta.nodes # << >>)
  BY DEF RouteInv, ViewsInv
<1>2. Forward
  BY <1>1, MetaStepMoves, UpdateNodeMoves, SelfAssumption DEF MetaStep, PingLost
<1>3. UNCHANGED <<view, queue, update, request, create, mixed>>
  BY DEF MetaStep, PingLost, nodeVars
<1> QED
  BY <1>1, <1>2, <1>3, ServerStep DEF Forward

LEMMA HandlePingKeeps ==
  ASSUME RouteInv, HandlePing, UNCHANGED held
  PROVE  RouteInv'
<1>1. ViewsInv
  BY DEF RouteInv
<1>2. Forward /\ (Self \in Elems(meta.nodes) \/ meta'.nodes # << >>)
  BY <1>1, UpdateNodeMoves, SelfAssumption DEF HandlePing
<1>3. meta'.nodes # << >>
  BY <1>2 DEF Forward, Elems
<1> QED
  BY <1>2, <1>3, ServerStep DEF HandlePing

-----------------------------------------------------------------------------
\* The answer to a PULL.
LEMMA PulledView ==
  ASSUME ViewsInv
  PROVE  /\ IsView(Pulled(meta)) /\ Pulled(meta).nodes = meta.nodes
         /\ Pulled(meta).version = meta.version
         /\ From(Pulled(meta)) \subseteq From(meta)
         /\ CompleteBut(Pulled(meta), {})
<1>1. /\ Pulled(meta).nodes = meta.nodes
      /\ Pulled(meta).version = meta.version
      /\ Pulled(meta).table_info = [t \in meta.node_table[Self] \cap DOMAIN meta.table_info |->
                                      meta.table_info[t]]
      /\ Pulled(meta) = [version |-> Pulled(meta).version, table_info |-> Pulled(meta).table_info,
                         nodes |-> Pulled(meta).nodes]
  BY DEF Pulled
<1>2. IsView(Pulled(meta))
  BY <1>1, Current DEF IsView
<1>3. From(Pulled(meta)) \subseteq From(meta)
  <2> SUFFICES ASSUME NEW t \in DOMAIN Pulled(meta).table_info
               PROVE  <<Pulled(meta).version.epoch, t, Pulled(meta).table_info[t].version,
                        Pulled(meta).table_info[t].partitions>> \in From(meta)
    BY DEF From
  <2>1. /\ t \in DOMAIN meta.table_info
        /\ Pulled(meta).table_info[t] = meta.table_info[t]
    BY <1>1
  <2> QED BY <1>1, <2>1 DEF From
<1> QED
  BY <1>1, <1>2, <1>3 DEF CompleteBut

\* A step that only reads the meta server, and moves what it has read.
LEMMA QuietStep ==
  ASSUME RouteInv, UNCHANGED meta, ViewsInv', CreateInv',
         Usable' \subseteq Usable \cup {Pulled(meta)},
         Routed' \subseteq Routed \cup From(meta),
         create' = create \/ create'.step # "answered"
  PROVE  RouteInv'
<1> USE DEF RouteInv
<1>1. FenceInv'
  <2>1. Created' \subseteq Created
    BY DEF Created
  <2>2. Shown' \subseteq Shown \cup From(meta')
    BY <2>1, PulledView DEF Shown
  <2> QED BY <2>2, FenceStep DEF Moves
<1>2. CompleteInv'
  <2>1. \A w : CompleteBut(w, {})' = CompleteBut(w, {})
    BY DEF CompleteBut
  <2>2. \A w \in Usable' : w.version = meta'.version => CompleteBut(w, {})'
    BY <2>1, PulledView DEF CompleteInv
  <2>3. ASSUME create'.step = "answered", create'.version = meta'.version
        PROVE  /\ create'.table \in DOMAIN meta'.table_info
               /\ create'.content = meta'.table_info[create'.table]
               /\ \A w \in Usable' : w.version = create'.info => CompleteBut(w, {create.table})'
    <3>1. create' = create
      BY <2>3
    <3>2. create.info \in VersionInfo /\ meta.version = NextVersion(create.info)
      BY <2>3, <3>1 DEF CreateInv
    <3>3. Pulled(meta).version # create.info
      BY <3>2, PulledView, NextVersionInfo DEF VersionInfo
    <3>4. \A w \in Usable : w.version = create.info => CompleteBut(w, {create.table})
      BY <2>3, <3>1 DEF CompleteInv
    <3>5. \A w \in Usable' : w.version = create.info => CompleteBut(w, {create.table})
      BY <3>3, <3>4
    <3> QED BY <2>3, <3>1, <3>5 DEF CompleteInv, CompleteBut
  <2> QED BY <2>2, <2>3 DEF CompleteInv
<1> QED
  BY <1>1, <1>2

LEMMA StartUpdateKeeps ==
  ASSUME RouteInv, StartUpdate, UNCHANGED held
  PROVE  RouteInv'
<1> USE DEF StartUpdate
<1>1. ViewsInv /\ CreateInv /\ meta.nodes # << >>
  BY DEF RouteInv, ViewsInv
<1>2. Pulls' \subseteq Pulls \cup {Pulled(meta)}
  BY DEF Pulls
<1>3. ViewsInv'
  <2>1. \A w : IsView(w)' = IsView(w)
    BY DEF IsView
  <2> QED BY <1>1, <1>2, <2>1, PulledView DEF ViewsInv
<1>4. CreateInv' /\ Routed' = Routed
  BY <1>1 DEF CreateInv, Routed
<1> QED
  BY <1>2, <1>3, <1>4, QuietStep DEF Usable

LEMMA StartRequestKeeps ==
  ASSUME RouteInv, StartRequest, UNCHANGED held
  PROVE  RouteInv'
<1> USE DEF StartRequest
<1>1. ViewsInv /\ CreateInv
  BY DEF RouteInv
<1>2. meta.nodes # << >>
  BY DEF Ahead, Elems
<1>3. Pulls' \subseteq Pulls \cup {Pulled(meta)}
  BY DEF Pulls
<1>4. ViewsInv'
  <2>1. \A w : IsView(w)' = IsView(w)
    BY DEF IsView
  <2> QED BY <1>1, <1>2, <1>3, <2>1, PulledView DEF ViewsInv
<1>5. CreateInv' /\ Routed' = Routed
  BY <1>1 DEF CreateInv, Routed
<1> QED
  BY <1>3, <1>4, <1>5, QuietStep DEF Usable

\* An answer arrives, or is lost.
LEMMA AnswerKeeps ==
  ASSUME RouteInv, UpdateAnswered \/ UpdateLost \/ RequestAnswered \/ RequestLost, UNCHANGED held
  PROVE  RouteInv'
<1> USE DEF UpdateAnswered, UpdateLost, RequestAnswered, RequestLost, Lost, UpdateMetaInfo
<1>1. ViewsInv /\ CreateInv
  BY DEF RouteInv
<1>2. UNCHANGED <<meta, queue, create>> /\ Pulls' \subseteq Pulls
  BY DEF Pulls
<1>3. UNCHANGED <<view, mixed>> \/ (view' \in Pulls /\ mixed' = FALSE)
  BY DEF Pulls
<1>4. ViewsInv'
  <2>1. \A w : IsView(w)' = IsView(w)
    BY <1>2 DEF IsView
  <2> QED BY <1>1, <1>2, <1>3, <2>1 DEF ViewsInv
<1>5. CreateInv' /\ Routed' = Routed
  BY <1>1, <1>2 DEF CreateInv, Routed
<1>6. Usable' \subseteq Usable
  BY <1>2, <1>3 DEF Usable
<1> QED
  BY <1>2, <1>4, <1>5, <1>6, QuietStep

LEMMA RestartKeeps ==
  ASSUME RouteInv, Restart, UNCHANGED held
  PROVE  RouteInv'
<1> USE DEF Restart
<1>1. ViewsInv
  BY DEF RouteInv
<1>2. Pulls' = {} /\ create' = NoCreate /\ view' = EmptyView /\ meta' = meta
  BY DEF Pulls
<1>3. /\ meta.version.epoch \in Int /\ meta.version.version \in Int
      /\ meta.version.epoch >= 0 /\ meta.version.version >= 0
  BY <1>1, Current DEF ViewsInv
<1>4. view'.version.epoch = -1 /\ view'.version # meta.version /\ From(view') = {}
  BY <1>2, <1>3 DEF EmptyView, From
<1>5. \A w \in Usable' : w = view'
  BY <1>2 DEF Usable
<1>6. ViewsInv'
  <2>1. IsView(view)'
    BY <1>2, <1>3 DEF IsView, EmptyView, VersionInfo
  <2> QED BY <1>1, <1>2, <1>4, <2>1 DEF ViewsInv, NoCreate
<1>7. CreateInv'
  BY <1>2 DEF CreateInv, NoCreate
<1>8. FenceInv'
  <2>1. Created' = {} /\ Routed' = Routed
    BY <1>2 DEF Created, NoCreate, Routed
  <2>2. Shown' \subseteq Shown \cup From(meta')
    BY <1>2, <1>4, <1>5, <2>1 DEF Shown
  <2> QED BY <1>1, <1>2, <2>2, FenceStep DEF Moves, RouteInv
<1>9. CompleteInv'
  BY <1>2, <1>4, <1>5 DEF CompleteInv, NoCreate
<1> QED
  BY <1>6, <1>7, <1>8, <1>9 DEF RouteInv

-----------------------------------------------------------------------------
\* CreateTable up to the INIT, and a failed one.
LEMMA SendKeeps ==
  ASSUME RouteInv, CreateTableRpc \/ ReadVersion \/ SendInit \/ InitFailed, UNCHANGED held
  PROVE  RouteInv'
<1> USE DEF CreateTableRpc, ReadVersion, SendInit, InitFailed
<1>1. ViewsInv /\ CreateInv
  BY DEF RouteInv
<1>2. UNCHANGED <<meta, view, queue, update, request, mixed>>
  OBVIOUS
<1>3. Pulls' = Pulls /\ Usable' = Usable /\ Routed' = Routed
  BY <1>2 DEF Pulls, Usable, Routed
<1>4. view.nodes \in Seq(Node) /\ (create'.step # "none" => view.nodes # << >>)
  BY <1>1 DEF ViewsInv, IsView, NoCreate
<1>5. ViewsInv'
  <2>1. \A w : IsView(w)' = IsView(w)
    BY <1>2 DEF IsView
  <2> QED BY <1>1, <1>2, <1>3, <1>4, <2>1 DEF ViewsInv
<1>6. CreateInv' /\ create'.step # "answered"
  <2>1. CASE CreateTableRpc
    <3>1. PICK t \in Table : create' = [step |-> "epoch", table |-> t, dup |-> Clamp(view.nodes),
                                        epoch |-> view.version.epoch]
      BY <2>1
    <3>2. Clamp(view.nodes) \in Nat \ {0}
      BY <1>4, <3>1, NewTableContent
    <3> QED BY <3>1, <3>2 DEF CreateInv
  <2>2. CASE ReadVersion
    BY <1>1, <2>2 DEF CreateInv
  <2>3. CASE SendInit
    <3>1. create.table \in Table /\ create.dup \in Nat \ {0}
      BY <1>1, <2>3 DEF CreateInv
    <3>2. NewTable(view.nodes, create.table, create.dup) \in TableInfo
      BY <1>4, <2>3, <3>1, NewTableContent
    <3> QED BY <2>3, <3>1, <3>2 DEF CreateInv
  <2>4. CASE InitFailed
    BY <2>4 DEF CreateInv, NoCreate
  <2> QED BY <2>1, <2>2, <2>3, <2>4
<1> QED
  BY <1>2, <1>3, <1>5, <1>6, QuietStep

\* The meta server accepts INIT: the views with the version it was sent with
\* lack the new table only.
LEMMA InitAcceptedKeeps ==
  ASSUME RouteInv, InitAccepted, UNCHANGED held
  PROVE  RouteInv'
<1> USE DEF InitAccepted
<1> DEFINE t == create.table
<1>1. ViewsInv /\ CreateInv /\ FenceInv /\ CompleteInv
  BY DEF RouteInv
<1>2. t \in Table /\ create.content \in TableInfo
  BY <1>1 DEF CreateInv
<1>3. Forward /\ meta'.version = NextVersion(meta.version) /\ meta'.nodes = meta.nodes
  BY <1>1, <1>2, CreateTableMoves
<1>4. /\ Sound(meta') /\ meta.version \in VersionInfo /\ meta'.version \in VersionInfo
      /\ meta'.version.epoch = meta.version.epoch
      /\ meta'.version.version = meta.version.version + 1
      /\ meta.version.epoch \in Int /\ meta.version.version \in Int
  BY <1>1, <1>3, Current, MovesForward, NextVersionInfo DEF ViewsInv, Forward
<1>5. UNCHANGED <<view, queue, update, request, mixed>> /\ Pulls' = Pulls /\ Usable' = Usable
  BY DEF Pulls, Usable
<1>6. /\ create'.step = "answered" /\ create'.table = t /\ create'.info = meta.version
      /\ create'.version = meta'.version /\ create'.content = meta'.table_info[t]
  OBVIOUS
<1>7. /\ t \in DOMAIN meta'.table_info
      /\ DOMAIN meta'.table_info = DOMAIN meta.table_info \cup {t}
      /\ \A u \in DOMAIN meta.table_info : meta'.table_info[u] = meta.table_info[u]
      /\ meta'.node_table[Self] \subseteq meta.node_table[Self] \cup {t}
  <2>1. meta \in MetaOver(DOMAIN meta.table_info)
    BY <1>1, Current DEF At
  <2>2. /\ meta'.table_info = WithTable(meta.table_info, t,
                                [create.content EXCEPT !.version = meta.version.version + 1])
        /\ meta'.node_table = SetNodeTable(meta.node_table, t, create.content)
    BY <2>1 DEF CreateTable, MetaOver
  <2>3. t \notin DOMAIN meta.table_info
    OBVIOUS
  <2> QED BY <2>2, <2>3, SelfAssumption DEF WithTable, SetNodeTable
<1> HIDE DEF InitAccepted
<1>8. ASSUME NEW w, IsView(w) PROVE IsView(w)' /\ w.version # meta'.version
  BY <1>4, <1>8 DEF IsView, VersionInfo
<1>9. ViewsInv'
  <2>1. \A w \in Pulls' \cup {view'} : IsView(w)'
    BY <1>1, <1>5, <1>8 DEF ViewsInv
  <2>2. meta'.version.epoch >= 0 /\ meta'.version.version >= 0
    <3>1. meta.version.epoch >= 0 /\ meta.version.version >= 0
      BY <1>1 DEF ViewsInv
    <3> QED BY <1>4, <3>1
  <2>3. /\ \A w \in Pulls' : w.nodes # << >>
        /\ view'.version.epoch >= 0 => view'.nodes # << >>
        /\ queue' # << >> => meta'.nodes # << >>
    BY <1>1, <1>3, <1>5 DEF ViewsInv
  <2>4. create'.step # "none" => view'.nodes # << >>
    BY <1>1, <1>5 DEF ViewsInv, InitAccepted
  <2> QED BY <1>4, <2>1, <2>2, <2>3, <2>4 DEF ViewsInv
<1>10. CreateInv'
  <2>1. /\ create'.version = NextVersion(create'.info)
        /\ create'.version.epoch <= meta'.version.epoch
        /\ create'.version.version <= meta'.version.version
    <3>1. meta'.version.epoch \in Int /\ meta'.version.version \in Int
      BY <1>4 DEF VersionInfo
    <3> QED BY <1>3, <1>6, <3>1
  <2> QED BY <1>2, <1>4, <1>6, <2>1 DEF CreateInv
<1>11. FenceInv'
  <2>1. Created' \subseteq From(meta')
    BY <1>6, <1>7 DEF Created, From
  <2>2. Routed' = Routed
    BY DEF Routed
  <2>3. Shown' \subseteq Shown \cup From(meta')
    BY <1>5, <2>1, <2>2 DEF Shown, From
  <2> QED BY <1>1, <1>3, <2>3, FenceStep DEF Forward
<1>12. CompleteInv'
  <2>1. \A w \in Usable' : w.version # meta'.version
    BY <1>1, <1>5, <1>8 DEF ViewsInv, Usable
  <2>2. ASSUME NEW w \in Usable, w.version = meta.version
        PROVE  CompleteBut(w, {create.table})'
    <3>1. CompleteBut(w, {})
      BY <1>1, <2>2 DEF CompleteInv
    <3>2. create'.table = create.table
      BY <1>6
    <3> QED BY <1>3, <1>7, <3>1, <3>2 DEF CompleteBut
  <2> QED BY <1>5, <1>6, <1>7, <2>1, <2>2 DEF CompleteInv
<1> QED
  BY <1>9, <1>10, <1>11, <1>12 DEF RouteInv

\* The node server installs the answer: over the view it was sent from, which it
\* completes, or the view is mixed.
LEMMA InitAnsweredKeeps ==
  ASSUME RouteInv, InitAnswered, UNCHANGED held
  PROVE  RouteInv'
<1> USE DEF InitAnswered
<1> DEFINE t == create.table
<1>1. ViewsInv /\ CreateInv /\ FenceInv /\ CompleteInv
  BY DEF RouteInv
<1>2. /\ t \in Table /\ create.info \in VersionInfo
      /\ create.version = NextVersion(create.info)
      /\ create.version.epoch <= meta.version.epoch
      /\ create.version.version <= meta.version.version
  BY <1>1 DEF CreateInv
<1>3. create.version \in VersionInfo /\ create.version.epoch = create.info.epoch
  BY <1>2, NextVersionInfo
<1>4. IsView(view) /\ view.nodes # << >>
  BY <1>1 DEF ViewsInv
<1>5. /\ view'.version = create.version
      /\ view'.table_info = WithTable(view.table_info, t, create.content)
      /\ view'.nodes = view.nodes
      /\ view' = [version |-> view'.version, table_info |-> view'.table_info, nodes |-> view'.nodes]
  BY <1>4 DEF IsView
<1>6. UNCHANGED <<meta, queue>> /\ create' = NoCreate /\ Pulls' = Pulls
  BY DEF Pulls
<1>7. ViewsInv'
  <2>1. IsView(view)'
    BY <1>2, <1>3, <1>4, <1>5, <1>6 DEF IsView
  <2>2. \A w \in Pulls' : IsView(w)'
    BY <1>1, <1>6 DEF ViewsInv, IsView
  <2> QED BY <1>1, <1>4, <1>5, <1>6, <2>1, <2>2 DEF ViewsInv
<1>8. CreateInv'
  BY <1>6 DEF CreateInv, NoCreate
<1>9. ASSUME ~mixed' PROVE view \in Usable /\ view.version = create.info
  BY <1>9 DEF Usable
<1>10. FenceInv'
  <2>1. ASSUME ~mixed' PROVE From(view') \subseteq From(view) \cup Created
    <3>1. view.version.epoch = create.version.epoch
      BY <1>3, <1>9, <2>1
    <3> QED BY <1>5, <3>1 DEF From, Created, WithTable
  <2>2. Created' = {} /\ Routed' = Routed
    BY <1>6 DEF Created, NoCreate, Routed
  <2>3. ASSUME NEW w \in Usable' PROVE From(w) \subseteq Shown
    <3>1. CASE w \in Pulls
      BY <3>1 DEF Shown, Usable
    <3>2. CASE ~mixed' /\ w = view'
      BY <1>9, <2>1, <3>2 DEF Shown
    <3> QED BY <1>6, <3>1, <3>2 DEF Usable
  <2>4. Shown' \subseteq Shown
    BY <1>6, <2>2, <2>3 DEF Shown, From
  <2> QED BY <1>1, <1>6, <2>4, FenceStep DEF Moves
<1>11. CompleteInv'
  <2>1. ASSUME ~mixed', create.version = meta.version PROVE CompleteBut(view', {})
    <3>1. /\ CompleteBut(view, {t}) /\ t \in DOMAIN meta.table_info
          /\ create.content = meta.table_info[t]
      BY <1>1, <1>9, <2>1 DEF CompleteInv
    <3> QED BY <1>5, <3>1 DEF CompleteBut, WithTable
  <2>2. \A w \in Usable' : w.version = meta.version => CompleteBut(w, {})
    BY <1>1, <1>5, <1>6, <2>1 DEF CompleteInv, Usable
  <2> QED BY <1>6, <2>2 DEF CompleteInv, CompleteBut, NoCreate
<1> QED
  BY <1>7, <1>8, <1>10, <1>11 DEF RouteInv

-----------------------------------------------------------------------------
\* A client pulls its route.
LEMMA UpdateTableInfoKeeps ==
  ASSUME RouteInv, NEW t \in DOMAIN meta.table_info, UpdateTableInfo(t)
  PROVE  RouteInv'
<1>1. UNCHANGED <<meta, view, queue, update, request, create, mixed>>
  BY DEF UpdateTableInfo, vars, nodeVars
<1>2. Pulls' = Pulls /\ Usable' = Usable
  BY <1>1 DEF Pulls, Usable
<1>3. ViewsInv' /\ CreateInv'
  BY <1>1, <1>2 DEF RouteInv, ViewsInv, IsView, CreateInv
<1>4. Routed' \subseteq From(meta)
  BY DEF UpdateTableInfo, Routed, From
<1> QED
  BY <1>1, <1>2, <1>3, <1>4, QuietStep

LEMMA RouteInvStep == RouteInv /\ [RouteNext]_<<vars, held>> => RouteInv'
<1> SUFFICES ASSUME RouteInv, [RouteNext]_<<vars, held>> PROVE RouteInv'
  OBVIOUS
<1>1. ASSUME Next, UNCHANGED held PROVE RouteInv'
  BY <1>1, MetaStepKeeps, HandlePingKeeps, StartUpdateKeeps, StartRequestKeeps, AnswerKeeps,
     SendKeeps, InitAcceptedKeeps, InitAnsweredKeeps, RestartKeeps DEF Next, Create
<1>2. ASSUME NEW t \in DOMAIN meta.table_info, UpdateTableInfo(t) PROVE RouteInv'
  BY <1>2, UpdateTableInfoKeeps
<1>3. CASE UNCHANGED <<vars, held>>
  <2>1. UNCHANGED <<meta, view, queue, update, request, create, mixed, held>>
    BY <1>3 DEF vars, nodeVars
  <2>2. Pulls' = Pulls /\ Usable' = Usable /\ Routed' = Routed
    BY <2>1 DEF Pulls, Usable, Routed
  <2>3. ViewsInv' /\ CreateInv'
    BY <2>1, <2>2 DEF RouteInv, ViewsInv, IsView, CreateInv
  <2> QED BY <2>1, <2>2, <2>3, QuietStep
<1> QED
  BY <1>1, <1>2, <1>3 DEF RouteNext

\* The invariant holds of every state of the meta server, the node server, its
\* calls and the route.
THEOREM RouteInvHolds == RouteSpec => []RouteInv
  BY RouteInitInv, RouteInvStep, PTL DEF RouteSpec

\* For any nodes and tables, a view that UpdateMetaInfo or CreateTable left and
\* that has the meta server's version is what a PULL would answer: the early
\* return of CheckShouldUpdate misses nothing, however late answers arrive.
THEOREM CurrentIsCompleteHolds == RouteSpec => []CurrentIsComplete
<1>1. RouteInv => CurrentIsComplete
  <2> SUFFICES ASSUME RouteInv, ~mixed, view.version = meta.version
               PROVE  CompleteBut(view, {})
    BY DEF CurrentIsComplete, CompleteBut, Pulled
  <2> QED BY DEF RouteInv, CompleteInv, Usable
<1> QED
  BY <1>1, RouteInvHolds, PTL

\* For any nodes and tables, a request that CheckEpoch lets through was sent
\* along the partitions the node server has, although neither need be the meta
\* server's any more.
THEOREM NodeFencedHolds == RouteSpec => []NodeFenced
<1>1. RouteInv => NodeFenced
  <2> SUFFICES ASSUME RouteInv, NEW t \in held.tables, t \in DOMAIN view.table_info,
                      ~mixed, CheckEpoch(t)
               PROVE  held.partitions = view.table_info[t].partitions
    BY DEF NodeFenced
  <2> DEFINE x == <<held.epoch, t, held.version, held.partitions>>
             y == <<view.version.epoch, t, view.table_info[t].version,
                    view.table_info[t].partitions>>
  <2>1. x \in Shown
    BY DEF Shown, Routed
  <2>2. y \in Shown
    <3>1. y \in From(view)
      BY DEF From
    <3>2. view \in Usable
      BY DEF Usable
    <3> QED BY <3>1, <3>2 DEF Shown
  <2>3. x[1] = y[1] /\ x[2] = y[2] /\ x[3] = y[3]
    BY DEF CheckEpoch
  <2>4. x[4] = y[4]
    BY <2>1, <2>2, <2>3 DEF RouteInv, FenceInv
  <2> QED BY <2>4
<1> QED
  BY <1>1, RouteInvHolds, PTL

=============================================================================
