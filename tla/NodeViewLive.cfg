CONSTANTS
  n1 = n1
  n2 = n2
  t1 = t1
  Node = {n1, n2}
  NoNode = NoNode
  Table = {t1}
  PartitionNum = 1
  Hash <- HashOne
  Self = n1
  Dup = 2
  MaxEpoch = 2
  MaxVersion = 1
  MaxQueue = 1
  MaxRestarts = 1
SPECIFICATION LiveSpec

PROPERTY Converges
