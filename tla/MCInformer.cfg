SPECIFICATION FairSpec
CONSTANTS
  h1 = h1
  h2 = h2
  Keys = {a}
  Handlers = {h1, h2}
  Priority <- MCPriority
  Filtered = {h2}
  MaxChanges = 2
  Leftover = Leftover
  None = None
INVARIANTS TypeOK ConvergedWhenIdle RemovedIsQuiet
PROPERTIES AddAndRemoveEnd EventuallyConverged
CHECK_DEADLOCK FALSE
