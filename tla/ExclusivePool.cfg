SPECIFICATION Spec
CONSTANTS
  h1 = h1
  h2 = h2
  h3 = h3
  None = None
  Handles <- MCHandles
  Sizes = {1, 3}
  Alignment = 2
  MaxAllocSize = 4
  AllocAfterFree = 3
  DeallocPeriod = 6
  PageWrap = 4
  MaxPages = 3
INVARIANTS
  PoolInv
  UnusedReleased
SYMMETRY Symmetric
CHECK_DEADLOCK FALSE
