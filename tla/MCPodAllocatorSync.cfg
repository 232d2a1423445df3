SPECIFICATION Spec
CONSTANTS
  Names = {a, b}
  Networks <- Layer2
  NumSubnets = 1
  MaxIPs = 3
  Excluded <- OneExcluded
  MaxIDs = 3
  MaxTries = 2
  MaxPods = 1
  MaxChanges = 3
  MaxFailures = 0
  MaxRestarts = 1
  None = None
INVARIANT UniqueIPsAfterSync
CHECK_DEADLOCK FALSE
