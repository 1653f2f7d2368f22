SPECIFICATION ManagerSpec
CONSTANTS
  h1 = h1
  h2 = h2
  None = None
  Tombstone = Tombstone
  NoRequest = NoRequest
  Handles <- MCHandles
  Sizes = {1, 2}
  Alignment = 2
  ReclaimAt = 0
  MaxSlices = 2
  MaxWindows = 1
  MaxDevice = 2
INVARIANTS
  ManagerInv
PROPERTIES
  OwnedStays
  UpdateHonoured
  FreedGoesBack
SYMMETRY Symmetric
CHECK_DEADLOCK FALSE
