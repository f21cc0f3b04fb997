CONSTANTS
  PartitionNum = 3
  MaxKeys = 3
  MaxSize = 3
  MaxErased = 2
SPECIFICATION Spec
INVARIANTS PageExact ScanForward
