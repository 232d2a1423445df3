SPECIFICATION Spec
CONSTANTS
  Names = {a, b}
  Networks <- Layer2
  NumSubnets = 1
  MaxIPs = 4
  Excluded <- OneExcluded
  MaxIDs = 3
  MaxTries = 2
  MaxPods = 1
  MaxChanges = 4
  MaxFailures = 0
  MaxRestarts = 0
  None = None
INVARIANT UniqueTunnelIDs
CHECK_DEADLOCK FALSE
