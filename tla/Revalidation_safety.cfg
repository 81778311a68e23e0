CONSTANTS
  T1 = T1
  T2 = T2
  T3 = T3
  NoThread = NoThread
  Threads = {T1, T2, T3}
  Loads <- SafetyLoads
  MaxFaults = 2
SPECIFICATION Spec
SYMMETRY Symmetry
INVARIANTS RInv SuspectMediumUntouched RevalidationAlone FenceHasOwner SyncNeverFenced CleanAtRest
PROPERTY ImplementsDriveAccess
