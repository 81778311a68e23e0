SPECIFICATION Spec
CONSTANTS
    Volumes <- Policies
    MaxChanges = 2
CHECK_DEADLOCK FALSE
INVARIANTS
    DurableOnTape
    PointersAgree
    AcceptsOwnTape
    FullIndexInTime
PROPERTIES
    GenerationKept
