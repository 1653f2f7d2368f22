SPECIFICATION Spec
CONSTANTS
  h1 = h1
  h2 = h2
  h3 = h3
  None = None
  Handles <- MCHandles
  SizesOf <- MCSizesOf
  SlotCount = 2
  MinPage = 2
  MaxPage = 6
  Slack = 1
  Capacity = 12
  MaxGuarded = 1
  MaxBound = 1
  MaxPending = 1
  PageIds = {1, 2}
INVARIANTS
  ArenaInv
  ContentsKept
PROPERTIES
  
  WholePagesMove
SYMMETRY Symmetric
