SPECIFICATION FairSpec
CONSTANTS
  Files = {f1}
  Users = {u1, u2}
  BlockSize = 2
  InitialCapacity = 1
  MaxCapacity = 2
  Ranges <- SomeRanges
  Lengths = {3}
  MaxOps = 3
  MaxFilesize = 5
  Faults = {"less"}
  Unlinks = TRUE
INVARIANTS ReadsBack QueueCounts PoolExact DurableAtUnmount
CHECK_DEADLOCK FALSE
PROPERTY EveryWriteReturns
