SPECIFICATION Spec
CONSTANTS
  StreamIds <- MCTwoStreams
  MaxStreams = 2
  Buffers <- MCBuffers
  Home <- MCHome
  Dedicated <- MCNone
  GcCapacity = 1
  MaxCommands = 4
INVARIANT
  ResolvedIsSynced
CHECK_DEADLOCK FALSE
