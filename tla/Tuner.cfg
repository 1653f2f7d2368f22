SPECIFICATION FairSpec
CONSTANTS
  Envs = {"default", "other"}
  Default = "default"
  Keys = {"k"}
  Lists = {"l1", "l2"}
  StoreKeys <- MCStoreKeys
  Values = {1}
  ForeignValues = {0, 2}
  Corrupt = 0
  Absent = Absent
  Threads = {"t1", "t2"}
  MaxSwitch = 1
  MaxForeign = 1
  MaxRestart = 1
INVARIANTS
  TunerInv
  FreshIsActive
  TunesBounded
PROPERTIES
  
  KeySettles
CHECK_DEADLOCK FALSE
