SPECIFICATION FairSpec
CONSTANTS
  t1 = t1
  t2 = t2
  r1 = r1
  r2 = r2
  s1 = s1
  s2 = s2
  d1 = d1
  None = None
  Program <- MCThreads
  Runners <- MCRunners
  DeviceOf <- MCOneDevice
  Services <- MCService
  TasksMayCall = TRUE
  MaxStarts = 2
  MaxCalls = 3
  MaxTasks = 1
INVARIANTS
  RegistryInv
PROPERTIES
  ShutdownOutlasts
  
CHECK_DEADLOCK FALSE
