-------------------------- MODULE MetaView_proofs ---------------------------
(* The meta server for any number of nodes and tables: type correctness of   *)
(* its commands, what the epoch and the version tell, where the copies of    *)
(* tables are placed, that the snapshot it answers from is never behind the  *)
(* log, and that epoch and version fence every outdated route.               *)
EXTENDS MetaView, MetaInfo_proofs

-----------------------------------------------------------------------------
(* Commands.                                                                 *)

\* Epoch 0 is the epoch of the initial state only.
EpochZero == meta.version.epoch >= 0 /\ (meta.version.epoch = 0 => meta = InitMeta)

\* The inductive invariant. TypeOK alone neither bounds the table versions nor
\* keeps the epoch, which commands return as their result, away from 0.
Inv == TypeOK /\ Sound(meta) /\ EpochZero

LEMMA InitInv == Init => Inv
<1> SUFFICES ASSUME Init PROVE Inv
  OBVIOUS
<1> DEFINE v == [epoch |-> 0, version |-> 0]
<1>1. InitMeta \in MetaOver({}) /\ InitMeta.version = v
  BY DEF InitMeta, MetaOver, VersionInfo
<1>2. InitMeta \in At({}, v)
  BY <1>1 DEF At
<1>3. Sound(meta)
  BY <1>2, SoundAt DEF Init
<1>4. TypeOK
  BY <1>3, SoundType DEF Init, TypeOK, NotBorn, Reply, Birth
<1>5. EpochZero
  BY <1>1 DEF Init, EpochZero
<1> QED
  BY <1>3, <1>4, <1>5 DEF Inv

-----------------------------------------------------------------------------
\* What the lemmas on MetaInfo need of the current state.
LEMMA Current ==
  ASSUME Inv
  PROVE  /\ DOMAIN meta.table_info \in SUBSET Table
         /\ meta.version \in VersionInfo
         /\ meta \in At(DOMAIN meta.table_info, meta.version)
         /\ meta.nodes \in Seq(Node) /\ meta.alive \in SUBSET Node /\ Known \in SUBSET Node
<1>1. Sound(meta)
  BY DEF Inv
<1>2. meta.nodes \in Seq(Node)
  BY <1>1, SoundType
<1>3. Known \in SUBSET Node
  BY <1>2 DEF Known, Elems
<1> QED
  BY <1>1, <1>3, SoundType DEF Sound

\* The numbers after a move.
LEMMA MovesVersion ==
  ASSUME Inv, Moves(meta', meta)
  PROVE  /\ Sound(meta') /\ meta'.version \in VersionInfo
         /\ meta'.version.epoch >= meta.version.epoch
         /\ meta'.version.version >= meta.version.version
         /\ meta' # meta => Changed(meta', meta.version)
  BY MovesForward DEF Inv

\* A move from the initial state is a new epoch; then the invariant is kept.
LEMMA MovesInv ==
  ASSUME Inv, Moves(meta', meta), reply' \in Reply, born' \in [Table -> Birth],
         meta = InitMeta => meta' = meta \/ meta'.version = NextEpoch(meta.version)
  PROVE  Inv'
<1>1. Sound(meta') /\ IsMeta(meta')
  BY MovesVersion, SoundType
<1>2. meta.version.epoch \in Int /\ meta.version \in VersionInfo
  BY Current DEF VersionInfo
<1>3. EpochZero'
  <2>1. CASE meta.version.epoch = 0
    <3>1. meta = InitMeta
      BY <2>1 DEF Inv, EpochZero
    <3>2. CASE meta' = meta
      BY <2>1, <3>1, <3>2 DEF EpochZero
    <3>3. CASE meta'.version = NextEpoch(meta.version)
      BY <1>2, <2>1, <3>3, NextVersionInfo DEF EpochZero
    <3> QED BY <3>1, <3>2, <3>3
  <2>2. CASE meta.version.epoch # 0
    <3>1. meta'.version.epoch \in Int /\ meta'.version.epoch >= meta.version.epoch
      BY MovesVersion DEF VersionInfo
    <3>2. meta.version.epoch >= 0
      BY DEF Inv, EpochZero
    <3> QED BY <1>2, <2>2, <3>1, <3>2 DEF EpochZero
  <2> QED BY <2>1, <2>2
<1> QED
  BY <1>1, <1>3 DEF Inv, TypeOK

-----------------------------------------------------------------------------
LEMMA PingStep ==
  ASSUME Inv, NEW n \in Node, DealPing(n)
  PROVE  Moves(meta', meta) /\ reply'.status = "OK" /\ Inv'
<1> DEFINE D == DOMAIN meta.table_info
           v == meta.version
<1>1. ASSUME NEW order \in OrdersWith(meta, n), meta' = UpdateNewNode(meta, n, order)
      PROVE  meta' \in At(D, NextEpoch(v))
  <2>1. order \in [1 .. Len(meta.nodes) + 1 -> Node]
    BY Current DEF OrdersWith, Known
  <2>2. order \in Seq(Node)
    BY <2>1, Current
  <2> QED BY <1>1, <2>2, Current, UpdateNewNodeType
<1>2. ASSUME NEW carried, meta' = UpdateDownNode(meta, n, carried)
      PROVE  meta' \in At(D, NextEpoch(v))
  BY <1>2, Current, UpdateDownNodeType
<1>3. meta' = meta \/ meta' \in At(D, NextEpoch(v))
  BY <1>1, <1>2 DEF DealPing
<1>4. meta' = meta \/ (Sound(meta') /\ meta'.version = NextEpoch(v))
  BY <1>3, Current, SoundAt
<1>5. reply' \in Reply /\ reply'.status = "OK" /\ born' \in [Table -> Birth]
  BY DEF DealPing, Answer, Reply, Inv, TypeOK
<1> QED
  BY <1>4, <1>5, MovesInv DEF Moves

\* In the initial state there are no nodes and no tables.
LEMMA InitEmpty ==
  ASSUME meta = InitMeta
  PROVE  Known = {} /\ meta.alive = {} /\ DOMAIN meta.table_info = {}
  BY DEF InitMeta, Known, Elems

\* The result of an accepted command is a positive epoch.
LEMMA EpochPositive ==
  ASSUME Inv, Moves(meta', meta), meta # InitMeta
  PROVE  meta.version.epoch > 0 /\ meta'.version.epoch > 0
<1>1. meta.version.epoch \in Int /\ meta'.version.epoch \in Int
  BY Current, MovesVersion DEF VersionInfo
<1>2. meta.version.epoch > 0
  BY <1>1 DEF Inv, EpochZero
<1> QED
  BY <1>1, <1>2, MovesVersion

LEMMA InitStep ==
  ASSUME Inv, NEW t \in Table, NEW dup \in Dups, NEW info, DealInit(t, dup, info)
  PROVE  Moves(meta', meta) /\ (reply'.status # "OK" => meta' = meta) /\ Inv'
<1> DEFINE D == DOMAIN meta.table_info
           v == meta.version
           table == NewTable(meta.nodes, t, dup)
<1>1. meta # InitMeta
  BY InitEmpty DEF DealInit
<1>2. CASE UNCHANGED <<meta, born>>
  <2>1. reply' \in Reply
    BY <1>2 DEF DealInit, Answer, InitStatus, Reply
  <2> QED BY <1>2, <2>1, MovesInv DEF Moves, Inv, TypeOK
<1>3. CASE /\ meta' = CreateTable(meta, t, table)
           /\ Answer("INIT", InitStatus(meta'.version.epoch))
           /\ born' = [born EXCEPT ![t] = [order |-> meta.nodes, clean |-> Known = meta.alive]]
  <2>1. meta.nodes \in Seq(Node) /\ Len(meta.nodes) # 0
    BY Current DEF DealInit, Known, Elems
  <2>2. table \in TableInfo
    BY <2>1, DupsAssumption, NewTableType
  <2>3. meta' \in At(D \cup {t}, NextVersion(v)) /\ AsIn(meta', meta)
    <3> HIDE DEF table
    <3> QED BY <1>3, <2>2, Current, CreateTableType
  <2>4. D \cup {t} \in SUBSET Table
    BY Current
  <2>5. Moves(meta', meta)
    BY <2>3, <2>4, SoundAt DEF Moves
  <2>6. meta'.version.epoch > 0
    BY <1>1, <2>5, EpochPositive
  <2>7. reply' = [type |-> "INIT", status |-> "OK"]
    BY <1>3, <2>6 DEF Answer, InitStatus
  <2>8. born' \in [Table -> Birth]
    BY <1>3, <2>1 DEF Inv, TypeOK, Birth
  <2> QED BY <1>1, <2>5, <2>7, <2>8, MovesInv DEF Reply
<1> QED
  BY <1>2, <1>3 DEF DealInit

LEMMA DropTableStep ==
  ASSUME Inv, NEW ts \in SUBSET Table, NEW info, DealDropTable(ts, info)
  PROVE  Moves(meta', meta) /\ (reply'.status # "OK" => meta' = meta) /\ Inv'
<1> DEFINE D == DOMAIN meta.table_info
           v == meta.version
<1>1. meta' = meta \/ (meta' \in At(D \ ts, NextVersion(v)) /\ AsIn(meta', meta))
  BY Current, DropTableType DEF DealDropTable
<1>2. D \ ts \in SUBSET Table
  BY Current
<1>3. Moves(meta', meta)
  BY <1>1, <1>2, SoundAt DEF Moves
<1>4. meta = InitMeta => meta' = meta
  BY InitEmpty DEF DealDropTable, DropTable
<1>5. reply' \in Reply /\ born' \in [Table -> Birth]
  BY DEF DealDropTable, Answer, SetStatus, Reply, Inv, TypeOK, NotBorn, Birth
<1>6. reply'.status # "OK" => meta' = meta
  BY <1>3, <1>4, EpochPositive DEF DealDropTable, Answer, SetStatus
<1> QED
  BY <1>3, <1>4, <1>5, <1>6, MovesInv

LEMMA DownNodesStep ==
  ASSUME Inv, NEW ns \in ExpiredLists, NEW epoch, DealDownNodes(ns, epoch)
  PROVE  Moves(meta', meta) /\ (reply'.status # "OK" => meta' = meta) /\ Inv'
<1> DEFINE D == DOMAIN meta.table_info
           v == meta.version
<1>1. ns \in Seq(Node) /\ meta # InitMeta
  <2>1. PICK k \in 1 .. Cardinality(meta.alive) : ns \in [1 .. k -> meta.alive]
    BY DEF ExpiredLists
  <2>2. ns \in Seq(Node)
    BY <2>1, Current
  <2>3. 1 \in 1 .. k
    BY <2>1
  <2>4. meta.alive # {}
    BY <2>1, <2>3
  <2> QED BY <2>2, <2>4, InitEmpty
<1>2. meta' = meta \/ meta' \in At(D, NextEpoch(v))
  BY <1>1, Current, DownNodesType DEF DealDownNodes
<1>3. Moves(meta', meta)
  BY <1>2, Current, SoundAt DEF Moves
<1>4. reply' \in Reply /\ born' \in [Table -> Birth]
  BY DEF DealDownNodes, Answer, SetStatus, Reply, Inv, TypeOK
<1>5. reply'.status # "OK" => meta' = meta
  BY <1>1, <1>3, EpochPositive DEF DealDownNodes, Answer, SetStatus
<1> QED
  BY <1>1, <1>3, <1>4, <1>5, MovesInv

LEMMA MigrateStep ==
  ASSUME Inv, NEW t \in Table, NEW i \in Ids, NEW dst \in Known, NEW role, NEW info,
         DealMigrate(t, i, dst, role, info)
  PROVE  Moves(meta', meta) /\ (reply'.status # "OK" => meta' = meta) /\ Inv'
<1> DEFINE D == DOMAIN meta.table_info
           v == meta.version
<1>1. dst \in Node /\ meta # InitMeta
  BY Current, InitEmpty
<1>2. meta' = meta \/ (meta' \in At(D, NextVersion(v)) /\ AsIn(meta', meta))
  BY <1>1, Current, CommitMigrateType DEF DealMigrate
<1>3. Moves(meta', meta)
  BY <1>2, Current, SoundAt DEF Moves
<1>4. reply' \in Reply
  BY DEF DealMigrate, Answer, SetStatus, Reply
<1>5. born' \in [Table -> Birth]
  BY DEF DealMigrate, Inv, TypeOK, Birth
<1>6. reply'.status # "OK" => meta' = meta
  BY <1>1, <1>3, EpochPositive DEF DealMigrate, Answer, SetStatus
<1> QED
  BY <1>1, <1>3, <1>4, <1>5, <1>6, MovesInv

\* Every command but PING, and then every command.
LEMMA OtherStep ==
  ASSUME Inv, NextOther
  PROVE  Moves(meta', meta) /\ (reply'.status # "OK" => meta' = meta) /\ Inv'
  BY InitStep, DropTableStep, DownNodesStep, MigrateStep DEF NextOther

LEMMA CommandStep ==
  ASSUME Inv, Next
  PROVE  Moves(meta', meta) /\ (reply'.status # "OK" => meta' = meta) /\ Inv'
  BY OtherStep, PingStep DEF Next

LEMMA InvStep == Inv /\ [Next]_vars => Inv'
<1> SUFFICES ASSUME Inv, [Next]_vars PROVE Inv'
  OBVIOUS
<1>1. CASE Next
  BY <1>1, CommandStep
<1>2. CASE UNCHANGED vars
  BY <1>2 DEF Inv, TypeOK, EpochZero, vars
<1> QED
  BY <1>1, <1>2

-----------------------------------------------------------------------------
\* The invariant holds of every state the commands reach.
THEOREM InvHolds == Spec => []Inv
  BY InitInv, InvStep, PTL DEF Spec

\* Type correctness: no command, whatever its arguments, leaves MetaInfo with a
\* table, a partition, a slave list or a node record of the wrong form.
THEOREM TypeCorrect == Spec => []TypeOK
<1>1. Inv => TypeOK
  BY DEF Inv
<1> QED
  BY <1>1, InvHolds, PTL

\* The epoch and the version never go back, and every change of the state raises
\* one of them, so that MetaInfo::Changed misses none.
THEOREM VersionTellsChangeHolds == Spec => VersionTellsChange
<1> DEFINE A == /\ meta'.version.epoch >= meta.version.epoch
                /\ meta'.version.version >= meta.version.version
                /\ meta' # meta => Changed(meta', meta.version)
<1>1. Inv /\ [Next]_vars => [A]_vars
  BY CommandStep, MovesVersion
<1> QED
  BY <1>1, InvHolds, PTL DEF Spec, VersionTellsChange

\* A command answered with anything but OK has changed nothing. It takes the
\* invariant: the commands return the epoch as their result and 0 for a refusal,
\* and epoch 0 is that of the empty server only.
THEOREM RefusedUnchangedHolds == Spec => RefusedUnchanged
<1>1. Inv /\ [Next]_vars => [reply'.status # "OK" => UNCHANGED meta]_vars
  BY CommandStep
<1> QED
  BY <1>1, InvHolds, PTL DEF Spec, RefusedUnchanged

-----------------------------------------------------------------------------
\* The nodes of any order with a new node: one more, each once.
LEMMA OrderedOnce ==
  ASSUME NEW m, m.nodes \in Seq(Node), Once(m.nodes), NEW n \in Node, n \notin Elems(m.nodes),
         NEW order \in OrdersWith(m, n)
  PROVE  /\ Once(order) /\ Len(order) = Len(m.nodes) + 1
         /\ Elems(order) = Elems(m.nodes) \cup {n}
<1> DEFINE N == Len(m.nodes)
           D == 1 .. N + 1
           T == Elems(m.nodes) \cup {n}
<1>1. order \in [D -> T] /\ Elems(order) = T /\ N \in Nat
  BY DEF OrdersWith
<1>2. Len(order) = N + 1
  <2>1. N + 1 \in Nat /\ DOMAIN order = 1 .. N + 1
    BY <1>1
  <2> QED BY <2>1
<1>3. IsFiniteSet(D) /\ Cardinality(D) = N + 1
  <2>1. 1 \in Int /\ N + 1 \in Int /\ N + 1 >= 1
    BY <1>1
  <2> QED BY <2>1, FS_Interval
<1>4. Cardinality(T) = N + 1
  BY ListCardinality, FS_AddElement
<1>5. order \in Surjection(D, T)
  <2>1. \A x \in T : \E k \in D : order[k] = x
    BY <1>1 DEF Elems
  <2> QED BY <1>1, <2>1 DEF Surjection
<1> HIDE DEF D, T
<1>6. order \in Injection(D, T)
  BY <1>3, <1>4, <1>5, FS_SurjSameCardinalityImpliesInj
<1>7. Once(order)
  BY <1>1, <1>6 DEF Injection, IsInjective, Once
<1> QED
  BY <1>1, <1>2, <1>7 DEF T

-----------------------------------------------------------------------------
\* The inductive invariant of the placement. CleanRestored does not say that a
\* missing master means that copy 0 is down, without which the count of copies
\* does not tell whether all are back; NodeTableCovers is what makes DOWNNODES
\* reach every table of a node. The length of the order at birth keeps a table
\* from becoming clean again once a node has been added.
CleanInv ==
  /\ Once(meta.nodes) /\ meta.alive \subseteq Known
  /\ \A t \in DOMAIN meta.table_info :
       /\ Len(born[t].order) <= Len(meta.nodes)
       /\ Clean(t) => Intact(meta, t, meta.alive)

LEMMA InitClean == Init => CleanInv
  BY DEF Init, InitMeta, CleanInv, Once, Known, Elems

\* The current state, as the lemmas on MetaInfo want it.
LEMMA CurrentOver ==
  ASSUME Inv
  PROVE  /\ meta \in MetaOver(DOMAIN meta.table_info) /\ born \in [Table -> Birth]
         /\ Len(meta.nodes) \in Nat
  BY Current DEF At, Inv, TypeOK

\* A command that keeps the nodes and the births of the tables.
LEMMA KeepsClean ==
  ASSUME CleanInv, meta'.nodes = meta.nodes, meta'.alive \subseteq Known,
         DOMAIN meta'.table_info \subseteq DOMAIN meta.table_info,
         \A t \in DOMAIN meta'.table_info :
           /\ born'[t].order = born[t].order /\ (born'[t].clean => born[t].clean)
           /\ born'[t].clean /\ Intact(meta, t, meta.alive) => Intact(meta', t, meta'.alive)
  PROVE  CleanInv'
<1>1. ASSUME NEW t \in DOMAIN meta'.table_info
      PROVE  /\ Len(born'[t].order) <= Len(meta'.nodes)
             /\ Clean(t)' => Intact(meta', t, meta'.alive)
  BY DEF CleanInv, Clean
<1> QED
  BY <1>1 DEF CleanInv, Known

LEMMA PingClean ==
  ASSUME Inv, CleanInv, NEW n \in Node, DealPing(n)
  PROVE  CleanInv'
<1> DEFINE D == DOMAIN meta.table_info
<1>1. /\ meta \in MetaOver(D) /\ D \in SUBSET Table /\ meta.nodes \in Seq(Node)
      /\ born \in [Table -> Birth] /\ born' = born
  BY Current, CurrentOver DEF DealPing
<1>2. Once(meta.nodes) /\ meta.alive \subseteq Elems(meta.nodes)
  BY DEF CleanInv, Known
<1>3. ASSUME NEW order \in OrdersWith(meta, n), n \notin Known, meta' = UpdateNewNode(meta, n, order)
      PROVE  CleanInv'
  <2>1. /\ Once(order) /\ Len(order) = Len(meta.nodes) + 1
        /\ Elems(order) = Elems(meta.nodes) \cup {n}
    BY <1>1, <1>2, <1>3, OrderedOnce DEF Known
  <2>2. meta'.nodes = order /\ meta'.alive = meta.alive \cup {n} /\ meta'.table_info = meta.table_info
    BY <1>1, <1>3 DEF UpdateNewNode, MetaOver
  <2>3. ASSUME NEW t \in D
        PROVE  Len(born[t].order) <= Len(order) /\ born[t].order # order
    <3>1. Len(born[t].order) <= Len(meta.nodes) /\ Len(born[t].order) \in Nat /\ Len(meta.nodes) \in Nat
      BY <1>1 DEF CleanInv, Birth
    <3> QED BY <2>1, <3>1
  <2>4. \A t \in DOMAIN meta'.table_info : Len(born'[t].order) <= Len(meta'.nodes) /\ ~Clean(t)'
    BY <1>1, <2>2, <2>3 DEF Clean
  <2>5. meta'.alive \subseteq Elems(meta'.nodes)
    BY <1>2, <2>1, <2>2
  <2> QED BY <2>1, <2>2, <2>4, <2>5 DEF CleanInv, Known
<1>4. ASSUME NEW carried, n \in Known \ meta.alive, meta' = UpdateDownNode(meta, n, carried)
      PROVE  CleanInv'
  <2>1. meta'.nodes = meta.nodes /\ meta'.alive = UpWith(meta, n)
    <3>1. Returned(meta', D, meta, n)
      BY <1>1, <1>4, UpdateDownNodeFields
    <3> QED BY <3>1 DEF Returned
  <2>2. meta' \in MetaOver(D)
    <3>1. meta' \in At(D, NextEpoch(meta.version))
      BY <1>4, Current, UpdateDownNodeType
    <3> QED BY <3>1 DEF At
  <2>3. DOMAIN meta'.table_info = D
    BY <2>2 DEF MetaOver
  <2>4. ASSUME NEW t \in D, Intact(meta, t, meta.alive) PROVE Intact(meta', t, meta'.alive)
    <3>1. n \in Elems(meta.nodes) \ meta.alive
      BY <1>4 DEF Known
    <3>2. Intact(UpdateDownNode(meta, n, carried), t, UpWith(meta, n))
      BY <1>1, <1>2, <2>4, <3>1, ReturnIntact
    <3> QED BY <1>4, <2>1, <3>2
  <2>5. meta'.alive \subseteq Known
    BY <1>2, <1>4, <2>1 DEF Known, UpWith
  <2> QED BY <1>1, <2>1, <2>3, <2>4, <2>5, KeepsClean
<1>5. CASE UNCHANGED meta
  BY <1>1, <1>5 DEF CleanInv, Clean, Known
<1> QED
  BY <1>3, <1>4, <1>5 DEF DealPing

LEMMA InitStepClean ==
  ASSUME Inv, CleanInv, NEW t \in Table, NEW dup \in Dups, NEW info, DealInit(t, dup, info)
  PROVE  CleanInv'
<1> DEFINE D == DOMAIN meta.table_info
<1>1. /\ meta \in MetaOver(D) /\ D \in SUBSET Table /\ meta.nodes \in Seq(Node)
      /\ born \in [Table -> Birth]
  BY Current, CurrentOver
<1>2. CASE UNCHANGED <<meta, born>>
  BY <1>2 DEF CleanInv, Clean, Known
<1>3. CASE /\ t \notin D
           /\ meta' = CreateTable(meta, t, NewTable(meta.nodes, t, dup))
           /\ born' = [born EXCEPT ![t] = [order |-> meta.nodes, clean |-> Known = meta.alive]]
  <2>1. dup \in 1 .. Len(meta.nodes)
    BY <1>1, DupsAssumption DEF DealInit
  <2>2. Once(meta.nodes) /\ t \in Table \ D
    BY <1>3 DEF CleanInv
  <2>3. /\ meta'.nodes = meta.nodes /\ meta'.alive = meta.alive
        /\ \A u \in DOMAIN meta'.table_info : u = t \/ u \in D
        /\ Intact(meta', t, Elems(meta.nodes))
        /\ \A u \in D : \A up : Intact(meta, u, up) => Intact(meta', u, up)
    <3>1. NewlyPlaced(meta', D, meta, t)
      BY <1>1, <1>3, <2>1, <2>2, CreateIntact
    <3> QED BY <3>1 DEF NewlyPlaced
  <2>4. born'[t].order = meta.nodes /\ (born'[t].clean => meta.alive = Elems(meta.nodes))
    BY <1>1, <1>3 DEF Known
  <2>5. \A u \in D : born'[u] = born[u]
    BY <1>1, <1>3
  <2>6. ASSUME NEW u \in D \cup {t}
        PROVE  /\ Len(born'[u].order) <= Len(meta'.nodes)
               /\ Clean(u)' => Intact(meta', u, meta'.alive)
    <3>1. CASE u = t
      BY <1>1, <2>3, <2>4, <3>1 DEF Clean
    <3>2. CASE u \in D
      BY <2>3, <2>5, <3>2 DEF Clean, CleanInv
    <3> QED BY <3>1, <3>2
  <2> QED BY <2>3, <2>6 DEF CleanInv, Known
<1> QED
  BY <1>2, <1>3 DEF DealInit

LEMMA DropTableClean ==
  ASSUME Inv, CleanInv, NEW ts \in SUBSET Table, NEW info, DealDropTable(ts, info)
  PROVE  CleanInv'
<1> DEFINE D == DOMAIN meta.table_info
<1>1. /\ meta \in MetaOver(D) /\ D \in SUBSET Table /\ born \in [Table -> Birth]
  BY Current, CurrentOver
<1>2. /\ meta'.nodes = meta.nodes /\ meta'.alive = meta.alive /\ DOMAIN meta'.table_info \subseteq D
      /\ \A u \in DOMAIN meta'.table_info : \A up : Intact(meta, u, up) => Intact(meta', u, up)
  <2>1. CASE meta' = meta
    BY <2>1
  <2>2. CASE meta' = DropTable(meta, ts)
    BY <1>1, <2>2, DropIntact
  <2> QED BY <2>1, <2>2 DEF DealDropTable
<1>3. \A u \in DOMAIN meta'.table_info : born'[u] = born[u]
  BY <1>1, <1>2 DEF DealDropTable
<1>4. meta'.alive \subseteq Known
  BY <1>2 DEF CleanInv
<1> QED
  BY <1>2, <1>3, <1>4, KeepsClean

LEMMA DownNodesClean ==
  ASSUME Inv, CleanInv, NEW ns \in ExpiredLists, NEW epoch, DealDownNodes(ns, epoch)
  PROVE  CleanInv'
<1> DEFINE D == DOMAIN meta.table_info
           v == meta.version
<1>1. /\ meta \in At(D, v) /\ v \in VersionInfo /\ D \in SUBSET Table /\ born' = born
      /\ Once(meta.nodes) /\ meta.alive \subseteq Elems(meta.nodes)
  BY Current DEF DealDownNodes, CleanInv, Known
<1>2. ns \in Seq(Node)
  <2>1. PICK k \in 1 .. Cardinality(meta.alive) : ns \in [1 .. k -> meta.alive]
    BY DEF ExpiredLists
  <2> QED BY <2>1, Current
<1>3. CASE meta' = meta
  BY <1>1, <1>3 DEF CleanInv, Clean, Known
<1>4. CASE meta' = DownNodes(meta, ns)
  <2>1. meta' = meta \/ (meta' \in At(D, NextEpoch(v)) /\ meta'.nodes = meta.nodes)
    <3> HIDE DEF D, v
    <3> QED BY <1>1, <1>2, <1>4, DownNodesType
  <2>2. meta'.nodes = meta.nodes /\ DOMAIN meta'.table_info = D
    BY <2>1 DEF At, MetaOver
  <2>3. /\ meta'.alive = StillUp(meta, ns)
        /\ \A t \in D : Intact(meta, t, meta.alive) => Intact(meta', t, meta'.alive)
    BY <1>1, <1>2, <1>4, DownIntact
  <2>4. meta'.alive \subseteq Known
    BY <1>1, <2>3 DEF Known, StillUp
  <2> QED BY <1>1, <2>2, <2>3, <2>4, KeepsClean
<1> QED
  BY <1>3, <1>4 DEF DealDownNodes

LEMMA MigrateClean ==
  ASSUME Inv, CleanInv, NEW t \in Table, NEW i \in Ids, NEW dst \in Known, NEW role, NEW info,
         DealMigrate(t, i, dst, role, info)
  PROVE  CleanInv'
<1> DEFINE D == DOMAIN meta.table_info
<1>1. /\ meta \in MetaOver(D) /\ D \in SUBSET Table /\ born \in [Table -> Birth] /\ dst \in Node
  BY Current, CurrentOver
<1>2. CASE meta' = meta /\ born' = born
  BY <1>2 DEF CleanInv, Clean, Known
<1>3. CASE /\ t \in D /\ meta' = CommitMigrate(meta, t, i, dst, role)
           /\ born' = [born EXCEPT ![t].clean = FALSE]
  <2>1. /\ meta'.nodes = meta.nodes /\ meta'.alive = meta.alive /\ DOMAIN meta'.table_info = D
        /\ \A u \in D \ {t} : \A up : Intact(meta, u, up) => Intact(meta', u, up)
    BY <1>1, <1>3, CommitIntact
  <2>2. \A u \in D : /\ born'[u].order = born[u].order /\ (born'[u].clean => born[u].clean)
                     /\ born'[u].clean => u # t
    BY <1>1, <1>3 DEF Birth
  <2>3. meta'.alive \subseteq Known
    BY <2>1 DEF CleanInv
  <2> QED BY <2>1, <2>2, <2>3, KeepsClean
<1> QED
  BY <1>2, <1>3 DEF DealMigrate

LEMMA CleanStep == Inv /\ CleanInv /\ [Next]_vars => CleanInv'
<1> SUFFICES ASSUME Inv, CleanInv, [Next]_vars PROVE CleanInv'
  OBVIOUS
<1>1. CASE UNCHANGED vars
  BY <1>1 DEF CleanInv, Clean, Known, vars
<1>2. CASE Next
  BY <1>2, PingClean, InitStepClean, DropTableClean, DownNodesClean, MigrateClean
     DEF Next, NextOther
<1> QED
  BY <1>1, <1>2

\* Until a restore loses the table names, the nodes and the tables agree on who
\* holds which copy: what CreateTable, Rebalance and the transfers place on a
\* node, that node's map lists, and the views' counts stay those of the tables.
THEOREM CleanHolds == Spec => []CleanInv
  BY InitClean, CleanStep, InvHolds, PTL DEF Spec

\* What Intact says of a clean table.
LEMMA CleanIntact ==
  ASSUME CleanInv, NEW t \in Table, Clean(t), NEW i \in Ids
  PROVE  LET p == meta.table_info[t].partitions[i]
         IN  /\ Members(p) = Copies(t, i) \cap meta.alive
             /\ NoRepeat(p)
             /\ (p.status = "ACTIVE") <=> (Copies(t, i) \subseteq meta.alive)
<1> DEFINE p == meta.table_info[t].partitions[i]
<1>1. Intact(meta, t, meta.alive)
  BY DEF CleanInv, Clean
<1>2. Copies(t, i) = CopiesIn(meta.nodes, t, i, meta.table_info[t].duplicate_num)
  BY DEF Copies, CopiesIn
<1>3. Holds(p, Copies(t, i), Placed(meta.nodes, t, i, 0), meta.alive)
  BY <1>1, <1>2 DEF Intact
<1> HIDE DEF p
<1>4. /\ Members(p) = Copies(t, i) \cap meta.alive
      /\ NoRepeat(p)
      /\ (p.status = "ACTIVE") <=> (Copies(t, i) \subseteq meta.alive)
  BY <1>3 DEF Holds, Held, Members, NoRepeat, Once
<1> QED
  BY <1>4 DEF p

\* Down and back in any order, one by one or together, a table that was created
\* with every node up and that no migration touched is held by exactly those of
\* its copies that are up, each once, and is ACTIVE exactly when all of them are.
THEOREM CleanRestoredHolds == Spec => []CleanRestored
<1>1. CleanInv => CleanRestored
  BY CleanIntact DEF CleanRestored
<1> QED
  BY <1>1, CleanHolds, PTL

\* node_table_ records every such table for every node that holds a part of it.
THEOREM NodeTableCoversHolds == Spec => []NodeTableCovers
<1>1. CleanInv => NodeTableCovers
  BY DEF CleanInv, NodeTableCovers, Clean, Intact
<1> QED
  BY <1>1, CleanHolds, PTL

-----------------------------------------------------------------------------
(* The snapshot and the routes.                                              *)

\* Neither the snapshot nor the route is ahead of the server.
NotAhead ==
  /\ snapshot.version \in VersionInfo
  /\ snapshot.version.epoch <= meta.version.epoch
  /\ snapshot.version.version <= meta.version.version
  /\ held.tables \subseteq Table /\ held.epoch \in Int /\ held.version \in Int
  /\ \A t \in held.tables : held.epoch <= meta.version.epoch /\ held.version <= meta.version.version

\* The inductive invariant.
ViewInv == Inv /\ NotAhead /\ IsMeta(snapshot) /\ SnapshotFresh /\ RouteFenced

LEMMA ViewInitInv == ViewInit => ViewInv
<1> SUFFICES ASSUME ViewInit PROVE ViewInv
  OBVIOUS
<1>1. Inv
  BY InitInv DEF ViewInit
<1>2. InitMeta \in MetaOver({}) /\ InitMeta.version = [epoch |-> 0, version |-> 0]
  BY DEF InitMeta, MetaOver, VersionInfo
<1> DEFINE v == [epoch |-> -1, version |-> -1]
<1>3. v \in VersionInfo /\ v.epoch = -1 /\ v.version = -1
  BY DEF VersionInfo
<1> HIDE DEF v
<1>4. snapshot \in MetaOver({}) /\ snapshot.version = v
  BY <1>2, <1>3, AssignVersion DEF ViewInit, NullSnapshot, v
<1>5. IsMeta(snapshot)
  BY <1>4, MetaOverType
<1>6. meta.version.epoch = 0 /\ meta.version.version = 0
  BY <1>2 DEF ViewInit, Init
<1>7. NotAhead
  BY <1>3, <1>4, <1>6 DEF NotAhead, ViewInit, NoRoute
<1>8. SnapshotFresh
  BY <1>3, <1>4, <1>6 DEF SnapshotFresh, Changed
<1>9. RouteFenced
  BY DEF RouteFenced, ViewInit, NoRoute
<1> QED
  BY <1>1, <1>5, <1>7, <1>8, <1>9 DEF ViewInv

\* The snapshot a handler reads is the state itself.
LEMMA SnapshotIsMeta ==
  ASSUME SnapshotFresh
  PROVE  GetMetaInfoSnapshot = meta
  BY DEF GetMetaInfoSnapshot, SnapshotFresh

\* The versions of the tables of the current state.
LEMMA TableVersion ==
  ASSUME Inv, NEW t \in DOMAIN meta.table_info
  PROVE  /\ t \in Table
         /\ meta.table_info[t].version \in Int
         /\ meta.table_info[t].version <= meta.version.version
<1>1. meta \in At(DOMAIN meta.table_info, meta.version) /\ DOMAIN meta.table_info \subseteq Table
  BY Current
<1>2. meta.table_info[t] \in TableInfo
  BY <1>1 DEF At, MetaOver
<1> QED
  BY <1>1, <1>2 DEF At, TableInfo

\* A command leaves an outdated route outdated, and makes one outdated whose
\* table it changes.
LEMMA RouteStep ==
  ASSUME ViewInv, Moves(meta', meta), Inv', UNCHANGED held
  PROVE  RouteFenced'
<1> SUFFICES ASSUME NEW t \in held.tables,
                    t \in DOMAIN meta'.table_info,
                    held.epoch = meta'.version.epoch,
                    held.version = meta'.table_info[t].version
             PROVE  held.partitions = meta'.table_info[t].partitions
  BY DEF RouteFenced
<1>1. /\ held.epoch \in Int /\ held.version \in Int
      /\ held.epoch <= meta.version.epoch /\ held.version <= meta.version.version
  BY DEF ViewInv, NotAhead
<1>2. Inv /\ meta.version \in VersionInfo /\ meta.version.epoch \in Int /\ meta.version.version \in Int
  BY Current DEF ViewInv, VersionInfo
<1>3. CASE meta' = meta
  BY <1>3 DEF ViewInv, RouteFenced
<1>4. CASE meta'.version = NextEpoch(meta.version)
  BY <1>1, <1>2, <1>4, NextVersionInfo
<1>5. CASE meta'.version = NextVersion(meta.version) /\ AsIn(meta', meta)
  <2>1. meta'.version.epoch = meta.version.epoch
    BY <1>2, <1>5, NextVersionInfo
  <2>2. CASE t \in DOMAIN meta.table_info /\ meta'.table_info[t] = meta.table_info[t]
    BY <2>1, <2>2 DEF ViewInv, RouteFenced
  <2>3. CASE meta'.table_info[t].version > meta.version.version
    BY <1>1, <1>2, <2>3
  <2> QED BY <1>5, <2>2, <2>3 DEF AsIn
<1> QED
  BY <1>3, <1>4, <1>5 DEF Moves

\* The rest of the invariant after a command, for the snapshot it leaves behind.
LEMMA SnapshotStep ==
  ASSUME ViewInv, Moves(meta', meta), Inv', UNCHANGED held, snapshot' = snapshot \/ snapshot' = meta
  PROVE  NotAhead' /\ IsMeta(snapshot') /\ SnapshotFresh'
<1>1. Inv /\ IsMeta(meta) /\ IsMeta(snapshot)
  BY DEF ViewInv, Inv, TypeOK
<1>2. /\ meta.version \in VersionInfo /\ meta'.version \in VersionInfo
      /\ meta'.version.epoch >= meta.version.epoch
      /\ meta'.version.version >= meta.version.version
      /\ meta' # meta => Changed(meta', meta.version)
  BY <1>1, Current, MovesVersion
<1>3. /\ snapshot'.version \in VersionInfo
      /\ snapshot'.version.epoch <= meta.version.epoch
      /\ snapshot'.version.version <= meta.version.version
      /\ ~Changed(meta, snapshot'.version) => snapshot' = meta
  <2>1. CASE snapshot' = snapshot
    BY <2>1 DEF ViewInv, NotAhead, SnapshotFresh
  <2>2. CASE snapshot' = meta
    BY <2>2, <1>2 DEF VersionInfo
  <2> QED BY <2>1, <2>2
<1>4. NotAhead'
  BY <1>2, <1>3 DEF ViewInv, NotAhead, VersionInfo
<1>5. SnapshotFresh'
  <2> SUFFICES ASSUME ~Changed(meta', snapshot'.version) PROVE snapshot' = meta'
    BY DEF SnapshotFresh
  <2>1. ~Changed(meta, snapshot'.version) /\ ~Changed(meta', meta.version)
    BY <1>2, <1>3 DEF Changed, VersionInfo
  <2> QED BY <1>2, <1>3, <2>1
<1> QED
  BY <1>1, <1>4, <1>5

LEMMA CommandViewStep ==
  ASSUME ViewInv, ViewOther \/ \E n \in Node : ViewPing(n)
  PROVE  ViewInv'
<1>1. Inv /\ SnapshotFresh
  BY DEF ViewInv
<1>2. /\ Moves(meta', meta) /\ Inv' /\ UNCHANGED held
      /\ snapshot' = snapshot \/ snapshot' = meta
  BY <1>1, OtherStep, PingStep, SnapshotIsMeta DEF ViewOther, ViewPing
<1> QED
  BY <1>2, RouteStep, SnapshotStep DEF ViewInv

\* A handler that reads: the server is as it was, and the route, if one is
\* pulled, is that of the current state.
LEMMA ReadStep ==
  ASSUME ViewInv, UNCHANGED vars, snapshot' = GetMetaInfoSnapshot,
         \/ UNCHANGED held
         \/ held' = NoRoute
         \/ \E t \in DOMAIN snapshot'.table_info : held' = Route(snapshot', t)
  PROVE  ViewInv'
<1>1. Inv /\ snapshot' = meta /\ meta' = meta
  BY SnapshotIsMeta DEF ViewInv, vars
<1>2. Inv'
  BY <1>1 DEF vars, Inv, TypeOK, EpochZero
<1>3. IsMeta(snapshot') /\ meta.version \in VersionInfo
  BY <1>1, Current DEF Inv, TypeOK
<1>4. SnapshotFresh'
  BY <1>1 DEF SnapshotFresh
<1>5. CASE UNCHANGED held
  <2>1. NotAhead' /\ RouteFenced'
    BY <1>1, <1>3, <1>5 DEF ViewInv, NotAhead, RouteFenced, VersionInfo
  <2> QED BY <1>2, <1>3, <1>4, <2>1 DEF ViewInv
<1>6. CASE held' = NoRoute
  <2>1. NotAhead' /\ RouteFenced'
    BY <1>1, <1>3, <1>6 DEF NotAhead, RouteFenced, VersionInfo, NoRoute
  <2> QED BY <1>2, <1>3, <1>4, <2>1 DEF ViewInv
<1>7. ASSUME NEW t \in DOMAIN meta.table_info, held' = Route(meta, t)
      PROVE  ViewInv'
  <2>1. /\ t \in Table
        /\ meta.table_info[t].version \in Int
        /\ meta.table_info[t].version <= meta.version.version
    BY <1>1, TableVersion
  <2>2. /\ held'.tables = {t}
        /\ held'.epoch = meta.version.epoch
        /\ held'.version = meta.table_info[t].version
        /\ held'.partitions = meta.table_info[t].partitions
    BY <1>7 DEF Route
  <2>3. NotAhead'
    BY <1>1, <1>3, <2>1, <2>2 DEF NotAhead, VersionInfo
  <2>4. RouteFenced'
    BY <1>1, <2>2 DEF RouteFenced
  <2> QED BY <1>2, <1>3, <1>4, <2>3, <2>4 DEF ViewInv
<1> QED
  BY <1>1, <1>5, <1>6, <1>7

LEMMA ViewInvStep == ViewInv /\ [ViewNext]_viewVars => ViewInv'
<1> SUFFICES ASSUME ViewInv, [ViewNext]_viewVars PROVE ViewInv'
  OBVIOUS
<1>1. CASE ViewOther \/ \E n \in Node : ViewPing(n)
  BY <1>1, CommandViewStep
<1>2. ASSUME NEW t \in Table, DealPull(t) PROVE ViewInv'
  BY <1>2, ReadStep DEF DealPull
<1>3. ASSUME NEW n \in Node, DealPullNode(n) PROVE ViewInv'
  BY <1>3, ReadStep DEF DealPullNode, PulledBy
<1>4. CASE DealList
  BY <1>4, ReadStep DEF DealList, vars
<1>5. CASE UNCHANGED viewVars
  BY <1>5 DEF viewVars, ViewInv, Inv, TypeOK, EpochZero, NotAhead, SnapshotFresh, RouteFenced
<1> QED
  BY <1>1, <1>2, <1>3, <1>4, <1>5 DEF ViewNext

-----------------------------------------------------------------------------
\* The invariant holds of every state of the server, its snapshot and a route.
THEOREM ViewInvHolds == ViewSpec => []ViewInv
  BY ViewInitInv, ViewInvStep, PTL DEF ViewSpec

\* Type correctness of the snapshot and of the route.
THEOREM ViewTypeCorrect == ViewSpec => []ViewTypeOK
<1>1. ViewInv => ViewTypeOK
  BY DEF ViewInv, NotAhead, ViewTypeOK
<1> QED
  BY <1>1, ViewInvHolds, PTL

\* The snapshot GetMetaInfoSnapshot keeps between commands, when it is not
\* refreshed, is the state the log has reached: comparing the two numbers of the
\* version is enough.
THEOREM SnapshotFreshHolds == ViewSpec => []SnapshotFresh
<1>1. ViewInv => SnapshotFresh
  BY DEF ViewInv
<1> QED
  BY <1>1, ViewInvHolds, PTL

\* A route that carries the server's epoch and the table's version has the
\* table's partitions, however long ago it was pulled and whatever was created,
\* dropped, migrated, lost and brought back in between.
THEOREM RouteFencedHolds == ViewSpec => []RouteFenced
<1>1. ViewInv => RouteFenced
  BY DEF ViewInv
<1> QED
  BY <1>1, ViewInvHolds, PTL
=============================================================================
