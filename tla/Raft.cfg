CONSTANTS
  s1 = s1
  s2 = s2
  s3 = s3
  Server = {s1, s2, s3}
  Nobody = Nobody
  Budgets <- MCBudgets
  MaxQueue = 1
  MaxWindows = 1
SYMMETRY Symmetry
SPECIFICATION MCSpec
INVARIANTS ElectionSafety CommittedStored FreshVotesKeepUniqueness
CHECK_DEADLOCK FALSE
