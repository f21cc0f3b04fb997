------------------------------ MODULE TaskQueue ------------------------------
(***************************************************************************)
(* What execution_queue.h promises to those who execute tasks: one task    *)
(* runs at a time; each task that was accepted runs once, in FIFO order    *)
(* among those of its priority, unless it was cancelled before; and once   *)
(* nothing is left of a stopped queue, |execute| is called once with       *)
(* is_queue_stopped().                                                     *)
(***************************************************************************)
EXTENDS Naturals, Sequences

CONSTANT NoTask

VARIABLES waiting,    \* accepted tasks, with their priority, in order
          running,    \* the task that is being executed
          cancelled,  \* tasks whose cancellation succeeded
          stops       \* calls with is_queue_stopped()

qvars == <<waiting, running, cancelled, stops>>

Without(k) == SubSeq(waiting, 1, k - 1) \o SubSeq(waiting, k + 1, Len(waiting))

QInit == waiting = <<>> /\ running = NoTask /\ cancelled = {} /\ stops = 0

\* Execute accepts a task.
Accept(t) ==
  /\ stops = 0
  /\ t \notin cancelled
  /\ waiting' = Append(waiting, t)
  /\ UNCHANGED <<running, cancelled, stops>>

\* The first task of its priority starts.
Start(k) ==
  /\ running = NoTask
  /\ \A j \in 1 .. k - 1 : waiting[j].high # waiting[k].high
  /\ running' = waiting[k]
  /\ waiting' = Without(k)
  /\ UNCHANGED <<cancelled, stops>>

Finish ==
  /\ running # NoTask
  /\ running' = NoTask
  /\ UNCHANGED <<waiting, cancelled, stops>>

Withdraw(k) ==
  /\ cancelled' = cancelled \cup {waiting[k]}
  /\ waiting' = Without(k)
  /\ UNCHANGED <<running, stops>>

Over ==
  /\ waiting = <<>> /\ running = NoTask /\ stops = 0
  /\ stops' = 1
  /\ UNCHANGED <<waiting, running, cancelled>>

\* The task a step accepts is the last one that waits after it.
QNext ==
  \/ waiting' # <<>> /\ Accept(waiting'[Len(waiting')])
  \/ \E k \in DOMAIN waiting : Start(k) \/ Withdraw(k)
  \/ Finish
  \/ Over

QSpec == QInit /\ [][QNext]_qvars
=============================================================================
