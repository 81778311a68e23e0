SPECIFICATION Spec
CONSTANTS
    Volumes <- Placed
    MaxChanges = 2
CHECK_DEADLOCK FALSE
INVARIANTS
    LiveDataIntact
