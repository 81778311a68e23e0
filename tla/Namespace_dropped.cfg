SPECIFICATION Spec
CONSTANTS
  Names = {1, 2}
  MaxUid = 4
  MaxHandles = 3
  Volumes <- SomeVolumes
INVARIANT
  IncrementReplays
CHECK_DEADLOCK FALSE
