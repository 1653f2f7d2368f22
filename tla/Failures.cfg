SPECIFICATION Spec
CONSTANTS
  m1 = m1
  m2 = m2
  m3 = m3
  Memory <- MCPair
  Bytes <- MCBytes
  Ranges <- MCHalves
  MaxBindings = 2
  MaxMint = 2
  MaxSkipped = 1
  MaxTotal = 2
INVARIANTS
  GraphKept
  ReportsReachRoot
  ReadsMatchLastWriter
  BodyRunsClaimed
  
SYMMETRY Symmetric
CHECK_DEADLOCK FALSE
