CONSTANTS
  n1 = n1
  n2 = n2
  s1 = s1
  s2 = s2
  t1 = t1
  Node = {n1, n2}
  NoNode = NoNode
  Table = {t1}
  PartitionNum = 1
  Hash <- HashOne
  Server = {s1, s2}
  NoLeader = NoLeader
  Dup = 1
  Insert <- InsertFirst
  MaxLog = 3
  MaxCrashes = 1
SPECIFICATION Spec
INVARIANT AgreeOnNumbers
SYMMETRY Symmetry
CHECK_DEADLOCK FALSE
