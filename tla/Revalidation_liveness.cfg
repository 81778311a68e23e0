CONSTANTS
  T1 = T1
  T2 = T2
  NoThread = NoThread
  Threads = {T1, T2}
  Loads <- LivenessLoads
  MaxFaults = 2
SPECIFICATION FairSpec
PROPERTY EveryRequestReturns
