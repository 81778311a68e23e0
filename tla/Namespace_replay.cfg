SPECIFICATION Spec
CONSTANTS
  Names = {1, 2}
  MaxUid = 4
  MaxHandles = 3
  Volumes <- SomeVolumes
INVARIANTS
  ReplayExact
  JournalSound
  HandlesCover
PROPERTY
  WormKept
CHECK_DEADLOCK FALSE
