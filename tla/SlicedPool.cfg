SPECIFICATION Spec
CONSTANTS
  h1 = h1
  h2 = h2
  h3 = h3
  None = None
  Handles <- MCHandles
  Sizes <- MCSizes
  Alignment = 2
  PageSize = 6
  MaxSliceSize = 4
  MaxPages = 2
  Ids = {1, 2, 3}
INVARIANTS
  PoolInv
  CoalesceMergesRuns
PROPERTIES
  AllocationsStay
  GuardedPagesKept
SYMMETRY Symmetric
CHECK_DEADLOCK FALSE
