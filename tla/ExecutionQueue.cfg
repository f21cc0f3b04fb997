CONSTANTS
  Caller = {c1, c2}
  Pool = {1, 2, 3}
  StopNode = 0
  NULL = NULL
  UNCONNECTED = UNCONNECTED
  Budgets <- MCBudgets
  Options <- MCOptions
SPECIFICATION Spec
INVARIANTS HighTasksCounted
PROPERTIES ImplementsTaskQueue Drains
CHECK_DEADLOCK FALSE
