SPECIFICATION FairSpec
CONSTANTS
  StreamIds <- MCTwoStreams
  MaxStreams = 2
  Buffers <- MCBuffers
  Home <- MCHome
  Dedicated <- MCNone
  GcCapacity = 1
  MaxCommands = 4
INVARIANTS
  StreamsInv
  CreatedDataSeen
PROPERTY
  MemoryReturns
CHECK_DEADLOCK FALSE
