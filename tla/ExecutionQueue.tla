--------------------------- MODULE ExecutionQueue ---------------------------
(***************************************************************************)
(* bthread::ExecutionQueue, the queue behind the disk queue and the apply  *)
(* queue of braft: a wait-free list that many callers push to with one     *)
(* atomic exchange, and that one executor at a time takes tasks from.  The *)
(* caller that finds the list empty becomes the executor or starts it.     *)
(* The queue counts its references: after stop(), whoever releases the     *)
(* last one pushes the stop task.  Nodes come from a pool and go back to   *)
(* it; a handle <<node, version>> names a task beyond that.                *)
(*                                                                         *)
(* A step is one access to what the threads share: _head, _versioned_ref,  *)
(* _high_priority_tasks, _stopped, next of a node, or a node's mutex.      *)
(***************************************************************************)
EXTENDS Integers, Sequences, FiniteSets

CONSTANTS Caller,       \* threads that call execute, stop and cancel
          Pool,         \* the TaskNodes there are: a set of numbers
          StopNode,     \* the node of the stop task
          NULL, UNCONNECTED,
          Budgets,      \* how many calls of execute, stop and cancel there are,
                        \* and whether the callers hold references
          Options       \* TaskOptions the callers use

Node == Pool \cup {StopNode}

VARIABLES
  head,       \* _head: the last node pushed; NULL when there is no executor
  node,       \* [next, version, status, iterated, high, inplace] of each node
  free,       \* nodes in the pool
  urgent,     \* _high_priority_tasks
  vref,       \* _versioned_ref: <<version, references>>; the id has version 0
  stopped,    \* _stopped
  call,       \* what each caller is doing: [pc, n (its node), prev, refs, seen]
  exec,       \* the executor: [pc, by, head, cur, hi, n, tail, new]
  pushed,     \* history: the tasks in the order of their exchange on _head
  cancelled,  \* history: the tasks whose cancellation succeeded
  stops,      \* history: calls of |execute| with is_queue_stopped()
  left        \* calls left of the budget

histories == <<pushed, cancelled, stops, left>>
vars == <<head, node, free, urgent, vref, stopped, call, exec, histories>>

Task(n) == [node |-> n, version |-> node[n].version, high |-> node[n].high]

NotIn == [pc |-> "out", n |-> NULL, prev |-> NULL, refs |-> 0, seen |-> 0]
Idle == [pc |-> "idle", by |-> NULL, head |-> NULL, cur |-> NULL, hi |-> FALSE,
         n |-> 0, tail |-> NULL, new |-> NULL]

-----------------------------------------------------------------------------
(* References.                                                             *)

\* A caller is done with its node, and releases the references it has left.
Leave(c) == [NotIn EXCEPT !.refs = call[c].refs,
                          !.pc = IF call[c].refs > 0 THEN "release" ELSE "out"]

\* address(), the fetch_add: with the version of the id, the caller holds a
\* reference until it has executed its task or stopped the queue.
Address(c, op) ==
  /\ ~left.held /\ call[c].pc = "out"
  /\ left[op] > 0
  /\ vref' = [vref EXCEPT ![2] = @ + 1]
  /\ call' = [call EXCEPT ![c].pc = IF vref[1] = 0 THEN op ELSE "release",
                          ![c].refs = 1]
  /\ left' = [left EXCEPT ![op] = @ - 1]
  /\ UNCHANGED <<head, node, free, urgent, stopped, exec, pushed, cancelled, stops>>

\* A caller that holds a reference from execution_queue_address: the apply
\* queue of braft is used like that.
Hold(c) ==
  /\ left.held /\ call[c].pc = "out"
  /\ left.execute > 0
  /\ left' = [left EXCEPT !.execute = @ - 1]
  /\ call' = [call EXCEPT ![c].pc = "execute"]
  /\ UNCHANGED <<head, node, free, urgent, vref, stopped, exec, pushed, cancelled, stops>>

\* stop(), the compare_exchange on the version.
Stop(c) ==
  /\ call[c].pc = "stop"
  /\ IF vref[1] = 0
     THEN /\ vref' = [vref EXCEPT ![1] = 1]
          /\ call' = [call EXCEPT ![c].pc = "mark"]
     ELSE /\ call' = [call EXCEPT ![c].pc = "release"]
          /\ UNCHANGED vref
  /\ UNCHANGED <<head, node, free, urgent, stopped, exec, histories>>

\* Mutant of Mark: the reference of the creation is kept.
MarkKeeping(c) ==
  /\ call[c].pc = "mark"
  /\ stopped' = TRUE
  /\ call' = [call EXCEPT ![c].pc = "release"]
  /\ UNCHANGED <<head, node, free, urgent, vref, exec, histories>>

\* stop() after that: the reference of the creation is released too.
Mark(c) ==
  /\ call[c].pc = "mark"
  /\ stopped' = TRUE
  /\ call' = [call EXCEPT ![c].pc = "release", ![c].refs = 2]
  /\ UNCHANGED <<head, node, free, urgent, vref, exec, histories>>

\* dereference(), and address() with an outdated id: the fetch_sub.
Release(c) ==
  LET last == vref[2] = 1 /\ vref[1] % 2 = 1
  IN /\ call[c].pc = "release"
     /\ vref' = [vref EXCEPT ![2] = @ - 1]
     /\ call' = [call EXCEPT
          ![c].refs = @ - 1,
          ![c].seen = IF last THEN vref[1] ELSE 0,
          ![c].pc = CASE last -> "recycle"
                      [] ~last /\ call[c].refs > 1 -> "release"
                      [] OTHER -> "out"]
     /\ UNCHANGED <<head, node, free, urgent, stopped, exec, histories>>

\* After the last reference, the compare_exchange; one caller wins it, and
\* _on_recycle pushes the stop task.
Recycle(c) ==
  /\ call[c].pc = "recycle"
  /\ IF vref = <<call[c].seen, 0>>
     THEN /\ vref' = <<call[c].seen + 1, 0>>
          /\ call' = [call EXCEPT ![c].pc = "swap", ![c].n = StopNode, ![c].seen = 0]
     ELSE /\ call' = [call EXCEPT ![c] = Leave(c)]
          /\ UNCHANGED vref
  /\ UNCHANGED <<head, node, free, urgent, stopped, exec, histories>>

-----------------------------------------------------------------------------
(* execute() and start_execute().                                          *)

\* Which free node get_object returns makes no difference: here, the least.
Execute(c, opt) ==
  /\ call[c].pc = "execute"
  /\ IF stopped
     THEN /\ call' = [call EXCEPT ![c] = Leave(c)]
          /\ UNCHANGED <<node, free>>
     ELSE \E n \in free :
          /\ \A m \in free : n <= m
          /\ free' = free \ {n}
          /\ node' = [node EXCEPT ![n] =
                        [next |-> UNCONNECTED, version |-> @.version,
                         status |-> "UNEXECUTED", iterated |-> FALSE,
                         high |-> opt.high, inplace |-> opt.inplace]]
          /\ call' = [call EXCEPT ![c].n = n,
                                  ![c].pc = IF opt.high THEN "count" ELSE "swap"]
  /\ UNCHANGED <<head, urgent, vref, stopped, exec, histories>>

Count(c) ==
  /\ call[c].pc = "count"
  /\ urgent' = urgent + 1
  /\ call' = [call EXCEPT ![c].pc = "swap"]
  /\ UNCHANGED <<head, node, free, vref, stopped, exec, histories>>

\* The exchange on _head.  Who finds NULL executes, in place or in a bthread.
Swap(c) ==
  LET n == call[c].n
  IN /\ call[c].pc = "swap"
     /\ head' = n
     /\ pushed' = IF n = StopNode THEN pushed ELSE Append(pushed, Task(n))
     /\ IF head # NULL
        THEN /\ call' = [call EXCEPT ![c].pc = "link", ![c].prev = head]
             /\ UNCHANGED <<node, exec>>
        ELSE /\ node' = [node EXCEPT ![n].next = NULL]
             /\ IF node[n].inplace
                THEN /\ exec' = [Idle EXCEPT !.pc = "iterate", !.by = c, !.head = n,
                                             !.cur = n, !.hi = node[n].high, !.tail = n]
                     /\ call' = [call EXCEPT ![c].pc = "inplace"]
                ELSE /\ exec' = [Idle EXCEPT !.pc = "top", !.head = n]
                     /\ call' = [call EXCEPT ![c] = Leave(c)]
     /\ UNCHANGED <<free, urgent, vref, stopped, cancelled, stops, left>>

Link(c) ==
  /\ call[c].pc = "link"
  /\ node' = [node EXCEPT ![call[c].n].next = call[c].prev]
  /\ call' = [call EXCEPT ![c] = Leave(c)]
  /\ UNCHANGED <<head, free, urgent, vref, stopped, exec, histories>>

\* execution_queue_cancel with success.
Cancel(t) ==
  /\ left.cancel > 0
  /\ node[t.node].version = t.version /\ node[t.node].status = "UNEXECUTED"
  /\ node' = [node EXCEPT ![t.node].status = "EXECUTED"]
  /\ cancelled' = cancelled \cup {t}
  /\ left' = [left EXCEPT !.cancel = @ - 1]
  /\ UNCHANGED <<head, free, urgent, vref, stopped, call, exec, pushed, stops>>

-----------------------------------------------------------------------------
(* The executor.                                                           *)

\* The nodes from n to the end of the executor's list.
RECURSIVE Links(_)
Links(n) == IF n = NULL THEN <<>> ELSE <<n>> \o Links(node[n].next)

Members(s) == {s[k] : k \in DOMAIN s}

Fresh == [next |-> UNCONNECTED, version |-> 0, status |-> "UNEXECUTED",
          iterated |-> FALSE, high |-> FALSE, inplace |-> FALSE]

\* return_task_node of a set of nodes: a handle of them is outdated from now on.
Returned(S) ==
  [m \in Node |-> IF m \in S THEN [Fresh EXCEPT !.version = node[m].version + 1]
                  ELSE node[m]]

\* The head of the loop of _execute_tasks, and the start of _execute: a stop
\* task, or an iterator for the high-priority or for the normal tasks.
Top ==
  LET gone == IF node[exec.head].iterated THEN {exec.head} ELSE {}
      h == IF gone = {} THEN exec.head ELSE node[exec.head].next
      hi == urgent > 0
  IN /\ exec.pc = "top"
     /\ free' = free \cup gone
     /\ IF h = StopNode
        THEN /\ node' = [Returned(gone) EXCEPT ![h].iterated = TRUE,
                                               ![h].status = "EXECUTED"]
             /\ urgent' = IF hi THEN urgent - 1 ELSE urgent
             /\ stops' = stops + 1
             /\ exec' = [exec EXCEPT !.pc = "more", !.head = h]
        ELSE /\ node' = Returned(gone)
             /\ exec' = [exec EXCEPT !.pc = "iterate", !.head = h, !.cur = h, !.hi = hi]
             /\ UNCHANGED <<urgent, stops>>
     /\ UNCHANGED <<head, vref, stopped, call, pushed, cancelled, left>>

\* Where TaskIteratorBase::operator++ looks for the next task, and the nodes of
\* its priority it has not seen.
From == IF node[exec.cur].iterated THEN node[exec.cur].next ELSE exec.cur
Ahead == SelectSeq(Links(From), LAMBDA m : /\ m # StopNode /\ ~node[m].iterated
                                           /\ node[m].high = exec.hi)
ShouldBreak == ~exec.hi /\ urgent > 0

\* Mutant of NextTask: the cancelled tasks before it are not counted.
NextTaskOnly ==
  /\ exec.pc = "iterate" /\ ~ShouldBreak
  /\ \E k \in DOMAIN Ahead :
       /\ node[Ahead[k]].status = "UNEXECUTED"
       /\ \A j \in 1 .. k - 1 : node[Ahead[j]].status # "UNEXECUTED"
       /\ node' = [m \in Node |->
                     IF m = Ahead[k]
                     THEN [node[m] EXCEPT !.iterated = TRUE, !.status = "EXECUTING"]
                     ELSE IF \E j \in 1 .. k - 1 : m = Ahead[j]
                     THEN [node[m] EXCEPT !.iterated = TRUE] ELSE node[m]]
       /\ exec' = [exec EXCEPT !.pc = "run", !.cur = Ahead[k], !.n = @ + 1]
  /\ UNCHANGED <<head, free, urgent, vref, stopped, call, histories>>

\* operator++ that finds a task: the cancelled ones before it are passed.
NextTask ==
  /\ exec.pc = "iterate" /\ ~ShouldBreak
  /\ \E k \in DOMAIN Ahead :
       /\ node[Ahead[k]].status = "UNEXECUTED"
       /\ \A j \in 1 .. k - 1 : node[Ahead[j]].status # "UNEXECUTED"
       /\ node' = [m \in Node |->
                     IF m = Ahead[k]
                     THEN [node[m] EXCEPT !.iterated = TRUE, !.status = "EXECUTING"]
                     ELSE IF \E j \in 1 .. k - 1 : m = Ahead[j]
                     THEN [node[m] EXCEPT !.iterated = TRUE] ELSE node[m]]
       /\ exec' = [exec EXCEPT !.pc = "run", !.cur = Ahead[k], !.n = @ + k]
  /\ UNCHANGED <<head, free, urgent, vref, stopped, call, histories>>

\* The user's function is done with the task.
Done ==
  /\ exec.pc = "run"
  /\ exec' = [exec EXCEPT !.pc = "iterate"]
  /\ UNCHANGED <<head, node, free, urgent, vref, stopped, call, histories>>

\* operator++ that finds none or breaks for a high-priority task, and the end of
\* _execute: what was iterated is executed.
NoTask ==
  LET seen == IF ShouldBreak THEN {} ELSE Members(Ahead)
      passed == Members(Links(exec.head))
                  \ (IF ShouldBreak THEN Members(Links(From)) ELSE {StopNode})
      n == exec.n + Cardinality(seen)
  IN /\ exec.pc = "iterate"
     /\ \A m \in seen : node[m].status # "UNEXECUTED"
     /\ node' = [m \in Node |->
                   IF m \in passed /\ node[m].high = exec.hi
                      /\ (node[m].iterated \/ m \in seen)
                   THEN [node[m] EXCEPT !.iterated = TRUE, !.status = "EXECUTED"]
                   ELSE node[m]]
     /\ urgent' = IF exec.hi THEN urgent - n ELSE urgent
     /\ exec' = [exec EXCEPT !.pc = "more", !.cur = NULL, !.hi = FALSE, !.n = 0]
     /\ UNCHANGED <<head, free, vref, stopped, call, histories>>

\* A caller that executed in place returns.
Handover == call' = IF exec.by = NULL THEN call
                    ELSE [call EXCEPT ![exec.by] = Leave(exec.by)]

\* The end of the loop: iterated nodes at the front go back to the pool, and
\* _more_tasks compares _head with the last node.  Nothing new: the executor
\* goes on if a task was left, or ends.  Something new: it is fetched.
More ==
  LET list == Links(exec.head)
      ahead == {k \in DOMAIN list : k = Len(list) \/ ~node[list[k]].iterated}
      k == IF exec.by # NULL THEN 1 ELSE CHOOSE x \in ahead : \A y \in ahead : x <= y
      gone == {list[j] : j \in 1 .. k - 1}
      tail == IF exec.tail = NULL THEN list[Len(list)] ELSE exec.tail
      on == [exec EXCEPT !.head = list[k], !.tail = tail]
  IN /\ exec.pc = "more"
     /\ \/ /\ head = tail /\ ~node[list[k]].iterated
           /\ exec' = [on EXCEPT !.pc = "top", !.by = NULL]
           /\ Handover
           /\ node' = Returned(gone) /\ free' = free \cup gone
           /\ UNCHANGED head
        \/ /\ head = tail /\ node[list[k]].iterated
           /\ head' = NULL
           /\ exec' = Idle
           /\ Handover
           /\ node' = Returned(gone \cup {list[k]})
           /\ free' = free \cup gone \cup ({list[k]} \ {StopNode})
        \/ /\ head # tail
           /\ exec' = [on EXCEPT !.pc = "reverse", !.new = head]
           /\ node' = Returned(gone) /\ free' = free \cup gone
           /\ UNCHANGED <<head, call>>
     /\ UNCHANGED <<urgent, vref, stopped, histories>>

\* The nodes from n back to the last one the executor has, newest first; the
\* list ends before an UNCONNECTED node.
RECURSIVE Added(_)
Added(n) == IF n = exec.tail THEN <<>>
            ELSE IF node[n].next = UNCONNECTED THEN <<n>>
            ELSE <<n>> \o Added(node[n].next)

\* Mutant of Reverse: the new nodes are linked as they are, newest first.
ReverseNot ==
  LET new == Added(exec.new)
      z == Len(new)
  IN /\ exec.pc = "reverse"
     /\ node[new[z]].next = exec.tail
     /\ node' = [m \in Node |->
          IF m = exec.tail THEN [node[m] EXCEPT !.next = new[1]]
          ELSE IF m = new[z] THEN [node[m] EXCEPT !.next = NULL]
          ELSE node[m]]
     /\ exec' = [exec EXCEPT !.pc = "top", !.by = NULL, !.tail = new[z], !.new = NULL]
     /\ Handover
     /\ UNCHANGED <<head, free, urgent, vref, stopped, histories>>

\* _more_tasks once every new node is connected: it spins until then.
Reverse ==
  LET new == Added(exec.new)
      z == Len(new)
  IN /\ exec.pc = "reverse"
     /\ node[new[z]].next = exec.tail
     /\ node' = [m \in Node |->
          IF m = exec.tail THEN [node[m] EXCEPT !.next = new[z]]
          ELSE IF m = new[1] THEN [node[m] EXCEPT !.next = NULL]
          ELSE IF \E k \in 2 .. z : m = new[k]
          THEN [node[m] EXCEPT !.next = new[(CHOOSE k \in 2 .. z : m = new[k]) - 1]]
          ELSE node[m]]
     /\ exec' = [exec EXCEPT !.pc = "top", !.by = NULL, !.tail = exec.new, !.new = NULL]
     /\ Handover
     /\ UNCHANGED <<head, free, urgent, vref, stopped, histories>>

-----------------------------------------------------------------------------
\* create() has returned the id, and the callers hold references or none.
Init ==
  /\ head = NULL
  /\ node = [m \in Node |-> Fresh]
  /\ free = Pool
  /\ urgent = 0
  /\ stopped = FALSE
  /\ call = [c \in Caller |-> NotIn]
  /\ exec = Idle
  /\ pushed = <<>>
  /\ cancelled = {}
  /\ stops = 0
  /\ left \in Budgets
  /\ vref = <<0, IF left.held THEN 1 + Cardinality(Caller) ELSE 1>>

Call(c) ==
  \/ Stop(c) \/ Mark(c) \/ Release(c) \/ Recycle(c)
  \/ \E opt \in Options : Execute(c, opt)
  \/ Count(c) \/ Swap(c) \/ Link(c)

Executor == Top \/ NextTask \/ Done \/ NoTask \/ More \/ Reverse

Next ==
  \/ \E c \in Caller :
       Call(c) \/ Address(c, "execute") \/ Address(c, "stop") \/ Hold(c)
  \/ \E t \in Members(pushed) : Cancel(t)
  \/ Executor

\* A thread that has begun goes on, and a started bthread runs.
Fairness == WF_vars(Executor) /\ \A c \in Caller : WF_vars(Call(c))

Spec == Init /\ [][Next]_vars /\ Fairness

-----------------------------------------------------------------------------
\* The tasks that were pushed and neither run, nor cancelled.
Waiting == SelectSeq(pushed, LAMBDA t : /\ node[t.node].version = t.version
                                        /\ node[t.node].status = "UNEXECUTED")

Promise == INSTANCE TaskQueue WITH
             NoTask <- NULL, waiting <- Waiting,
             running <- IF exec.pc = "run" THEN Task(exec.cur) ELSE NULL

\* The list, its reversals, the iterators and the references together do what
\* execution_queue.h promises: every accepted task once, one at a time, in FIFO
\* order of its priority, and the stop task once and last.
ImplementsTaskQueue == Promise!QSpec

\* _high_priority_tasks does not drift: it counts the high-priority tasks whose
\* callers have announced them and that no iterator has seen, and those the
\* current iterator will subtract.  A count too high would keep normal tasks
\* from running for ever, one too low would let them run first.
HighTasksCounted ==
  urgent = Cardinality({c \in Caller : /\ call[c].pc = "swap" /\ call[c].n # NULL
                                       /\ node[call[c].n].high})
           + Cardinality({t \in Members(pushed) :
                            /\ t.high /\ node[t.node].version = t.version
                            /\ ~node[t.node].iterated})
           + (IF exec.hi THEN exec.n ELSE 0)

\* What was accepted runs or is cancelled, and a stopped queue gets to its stop
\* task, however the callers and the executor are scheduled.
Drains == /\ Waiting # <<>> ~> Waiting = <<>>
          /\ stopped ~> stops = 1
=============================================================================
