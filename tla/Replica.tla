------------------------------ MODULE Replica -------------------------------
(* One key of a partition on the node servers that hold a copy of it:        *)
(* NodeServer::Set, Del and Get (node/node_server.cc) with the calls from    *)
(* the master to the slaves, while nodes fail and return for the meta server *)
(* and every node server and client acts on a view pulled at some time. A    *)
(* node that fails is cut off, its memory is kept. Tables are neither        *)
(* created nor dropped and nothing is persisted (open_persistence is off).   *)
EXTENDS MetaInfo, SequencesExt

CONSTANTS
  Op,         \* write requests that reach a master, each at most once
  NoOp,       \* the writer of a key that nobody wrote
  Dup,        \* copies of the partition
  MaxEpoch    \* bound: no node is taken down once the epoch is there

ASSUME OpAssumption == NoOp \notin Op
ASSUME DupAssumption == Dup \in 1 .. Cardinality(Node)
ASSUME MaxEpochAssumption == MaxEpoch \in Nat

VARIABLES
  history,   \* the states of the meta server, oldest first
  view,      \* per node: which of them meta_info_ of the node server is
  data,      \* per node: the request that wrote what its cache has for the key
  op,        \* per request: what its handler on the master is doing
  calls,     \* calls to slaves that have not arrived, <<request, slave>>
  writes,    \* calls to slaves past CheckEpoch, before the write
  before     \* per request: those answered before it arrived

vars == <<history, view, data, op, calls, writes, before>>

T == CHOOSE t \in Table : TRUE

\* All nodes have pinged, the table has been created and pulled by every node.
Started(order) ==
  CreateTable([InitMeta EXCEPT !.nodes = order, !.alive = Node,
                               !.version.epoch = Cardinality(Node)],
              T, NewTable(order, T, Dup))

Init ==
  /\ \E order \in SetToSeqs(Node) : history = <<Started(order)>>
  /\ view = [n \in Node |-> 1]
  /\ data = [n \in Node |-> NoOp]
  /\ op = [o \in Op |-> [step |-> "idle"]]
  /\ calls = {} /\ writes = {}
  /\ before = [o \in Op |-> {}]

-----------------------------------------------------------------------------
Part(k) == history[k].table_info[T].partitions[0]

meta == history[Len(history)]

\* DOWNNODES for one node, and its PING when it is back.
NodeDown ==
  /\ meta.version.epoch < MaxEpoch
  /\ \E n \in meta.alive : history' = Append(history, DownNodes(meta, <<n>>))
  /\ UNCHANGED <<view, data, op, calls, writes, before>>

NodeBack ==
  /\ \E n \in Node \ meta.alive : \E carried \in Carried(meta, n) :
       history' = Append(history, UpdateDownNode(meta, n, carried))
  /\ UNCHANGED <<view, data, op, calls, writes, before>>

\* An answer to a PULL is installed. It may be late (module NodeView).
UpdateMetaInfo(n) ==
  /\ \E k \in 1 .. Len(history) : view' = [view EXCEPT ![n] = k]
  /\ UNCHANGED <<history, data, op, calls, writes, before>>

-----------------------------------------------------------------------------
\* The request a client sends that pulled state k, for the one partition: the
\* epoch, the version of the table, and the master it is sent to.
BatchSet(k) == [epoch |-> history[k].version.epoch,
                version |-> history[k].table_info[T].version,
                to |-> Part(k).master]

\* CheckEpoch on n: what n pulled has the table, the epoch and the version of the
\* request. (A node that is behind the request pulls first, which is a step of its
\* own here.)
CheckEpoch(n, request) ==
  LET mine == history[view[n]]
  IN  /\ T \in mine.node_table[n]
      /\ mine.version.epoch = request.epoch
      /\ mine.table_info[T].version = request.version

\* Mutant of Writable: Set is let through like Del.
WritableSlow(type, status) == status \in {"ACTIVE", "SLOWDOWN"}

\* Set wants a partition with all its copies, Del one with a master.
Writable(type, status) ==
  status \in IF type = "Set" THEN {"ACTIVE"} ELSE {"ACTIVE", "SLOWDOWN"}

Accepts(n, request, type) ==
  CheckEpoch(n, request) /\ Writable(type, Part(view[n]).status)

Answered == {o \in Op : op[o].step = "answered"}

\* Set or Del of a client arrives at the node it takes for the master. What that
\* refuses has no effect. The slaves are called in parallel, then the own cache
\* is written. full is history: the partition had all its copies.
Receive(o, request, type) ==
  LET n == request.to
      p == Part(view[n])
      slaves == IF p.master = n THEN Elems(p.slaves) ELSE {}
  IN  /\ op[o].step = "idle"
      /\ n # NoNode
      /\ Accepts(n, request, type)
      /\ op' = [op EXCEPT ![o] =
           [step |-> IF slaves = {} THEN "local" ELSE "slaves",
            type |-> type, request |-> request, full |-> p.status = "ACTIVE",
            waiting |-> slaves, written |-> {}]]
      /\ calls' = calls \cup ({o} \X slaves)
      /\ before' = [before EXCEPT ![o] = Answered \cup {NoOp}]
      /\ UNCHANGED <<history, view, data, writes>>

\* The parallel call is over when every slave has answered or failed. It fails if
\* all of them did: fail_limit is not set. An answer that is not OK is merged over
\* those that are, so that one of them is an error of the whole.
Collect(r) ==
  IF r.step # "slaves" \/ r.waiting # {} THEN r
  ELSE [r EXCEPT !.step = IF r.written = {} THEN "failed" ELSE "local"]

\* The same handler on a slave, up to the write.
SlaveReceive(o, s) ==
  /\ <<o, s>> \in calls
  /\ calls' = calls \ {<<o, s>>}
  /\ IF Accepts(s, op[o].request, op[o].type)
     THEN writes' = writes \cup {<<o, s>>} /\ UNCHANGED op
     ELSE /\ op' = IF s \in op[o].waiting THEN [op EXCEPT ![o].step = "failed"] ELSE op
          /\ UNCHANGED writes
  /\ UNCHANGED <<history, view, data, before>>

\* The slave writes and answers. If the master has given the call up nobody listens.
SlaveWrite(o, s) ==
  /\ <<o, s>> \in writes
  /\ writes' = writes \ {<<o, s>>}
  /\ data' = [data EXCEPT ![s] = o]
  /\ op' = IF s \notin op[o].waiting THEN op
           ELSE [op EXCEPT ![o] = Collect([@ EXCEPT !.waiting = @ \ {s}, !.written = @ \cup {s}])]
  /\ UNCHANGED <<history, view, calls, before>>

\* A call to a slave fails or times out. It may have arrived, or still arrive.
CallFailed(o, s) ==
  /\ op[o].step = "slaves" /\ s \in op[o].waiting
  /\ op' = [op EXCEPT ![o] = Collect([@ EXCEPT !.waiting = @ \ {s}])]
  /\ UNCHANGED <<history, view, data, calls, writes, before>>

\* The master writes its own cache and answers OK.
MasterWrite(o) ==
  /\ op[o].step = "local"
  /\ data' = [data EXCEPT ![op[o].request.to] = o]
  /\ op' = [op EXCEPT ![o].step = "answered"]
  /\ UNCHANGED <<history, view, calls, writes, before>>

Next ==
  \/ NodeDown \/ NodeBack
  \/ \E n \in Node : UpdateMetaInfo(n)
  \/ \E o \in Op, k \in 1 .. Len(history), type \in {"Set", "Del"} :
       Receive(o, BatchSet(k), type)
  \/ \E o \in Op, s \in Node : SlaveReceive(o, s) \/ SlaveWrite(o, s) \/ CallFailed(o, s)
  \/ \E o \in Op : MasterWrite(o)

Spec == Init /\ [][Next]_vars

-----------------------------------------------------------------------------
\* Get is answered by a node that its own view names as the master, whatever the
\* status of the partition; it answers with what its cache has.
Gets(n) ==
  /\ T \in history[view[n]].node_table[n]
  /\ Part(view[n]).master = n

\* A Get answered by n misses w, which has been answered: it sees a write that was
\* answered before w arrived, and for a Del one that set a value.
Missed(n, w) ==
  /\ Gets(n)
  /\ op[w].step = "answered"
  /\ data[n] \in before[w]
  /\ op[w].type = "Del" => data[n] # NoOp /\ op[data[n]].type = "Set"

\* With one slave per partition: through failures, returns, late pulls and routes,
\* and calls that fail and arrive nevertheless, no Get misses a Set that was
\* answered with OK, nor a Del that was answered while all copies were there.
\* That Set is refused while a copy is missing is what makes this true.
GetsAnswered ==
  \A n \in Node, w \in Answered : op[w].type = "Set" \/ op[w].full => ~Missed(n, w)

\* The test NodeFailSetAndGet stops a node server and checks "if values persist":
\* a Set that was answered is not missed by the masters of the current route.
ValuesPersist ==
  \A n \in Node, w \in Answered : op[w].type = "Set" /\ view[n] = Len(history) => ~Missed(n, w)

=============================================================================
