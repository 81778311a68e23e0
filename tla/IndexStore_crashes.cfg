SPECIFICATION Spec
CONSTANTS
    Volumes <- Crashing
    MaxChanges = 2
CHECK_DEADLOCK FALSE
INVARIANTS
    DurableOnTape
    AlwaysCheckable
    LiveDataIntact
    FastMountSound
    UnmountedMounts
