CONSTANTS
  n1 = n1
  n2 = n2
  n3 = n3
  t1 = t1
  t2 = t2
  Node = {n1, n2, n3}
  NoNode = NoNode
  Table = {t1, t2}
  PartitionNum = 1
  Hash <- HashTwo
  Dups = {2, 3}
  MaxEpoch = 6
  MaxVersion = 2
SPECIFICATION MCSpec
INVARIANTS TypeOK CleanRestored NodeTableCovers SnapshotFresh RouteFenced
PROPERTIES RefusedUnchanged VersionTellsChange
SYMMETRY NodeSymmetry
