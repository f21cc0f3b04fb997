CONSTANTS
  n1 = n1
  n2 = n2
  t1 = t1
  Node = {n1, n2}
  NoNode = NoNode
  Table = {t1}
  PartitionNum = 1
  Hash <- HashOne
  Self = n1
  Dup = 2
  MaxEpoch = 3
  MaxVersion = 2
  MaxChanges = 4
  MaxQueue = 1
  MaxRestarts = 0
SPECIFICATION MCSpec
INVARIANTS NodeFenced CurrentIsComplete
