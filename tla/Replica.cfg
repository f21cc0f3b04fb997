CONSTANTS
  n1 = n1
  n2 = n2
  n3 = n3
  o1 = o1
  o2 = o2
  o3 = o3
  t1 = t1
  Node = {n1, n2}
  NoNode = NoNode
  Table = {t1}
  PartitionNum = 1
  Hash <- HashOne
  Op = {o1, o2}
  NoOp = NoOp
  Dup = 2
  MaxEpoch = 4
SPECIFICATION Spec
INVARIANT GetsAnswered
SYMMETRY Symmetry
CHECK_DEADLOCK FALSE
