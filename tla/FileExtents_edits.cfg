SPECIFICATION Spec
CONSTANTS
  BlockSize = 2
  Partitions = {ip, dp}
  MaxSize = 3
  MaxWrites = 3
  MaxPending = 2
  MaxOthers = 2
SYMMETRY PartitionSymmetry
INVARIANTS FInv ReadsBack
CHECK_DEADLOCK FALSE
