-------------------------- MODULE MCExecutionQueue --------------------------
EXTENDS ExecutionQueue

\* Three tasks: the least free node is taken, so a node is used again while the
\* handle of its first task may still be cancelled.  Or a stop among calls of
\* execute.
MCBudgets == {[execute |-> 3, stop |-> 0, cancel |-> 1, held |-> TRUE],
              [execute |-> 2, stop |-> 1, cancel |-> 1, held |-> FALSE]}

\* TASK_OPTIONS_NORMAL, TASK_OPTIONS_URGENT and TASK_OPTIONS_INPLACE.
MCOptions == {[high |-> FALSE, inplace |-> FALSE],
              [high |-> TRUE, inplace |-> FALSE],
              [high |-> FALSE, inplace |-> TRUE]}
=============================================================================
