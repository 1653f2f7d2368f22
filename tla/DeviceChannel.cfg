SPECIFICATION FairSpec
CONSTANTS
  Clients = {c1, c2}
  Server = server
  Noop = noop
  Empty = empty
  MaxTask = 2
  IndexSpan = 8
  Wrapping = FALSE
  SpinBudget = 1
  MaxIssue = 1
  MaxFlush = 1
INVARIANTS
  ChannelInv
  SlotsSafe
PROPERTIES
  ImplementsTaskChannel
  CallReturns
  FlushedTasksRun
  ShutdownCompletes
