SPECIFICATION Spec
CONSTANTS
  Files = {f1}
  Users = {u1, u2}
  BlockSize = 2
  InitialCapacity = 1
  MaxCapacity = 2
  Ranges <- SomeRanges
  Lengths = {3}
  MaxOps = 2
  MaxFilesize = 5
  Faults = {"error"}
  Unlinks = FALSE
INVARIANT ErrorPropagated
CHECK_DEADLOCK FALSE
