SPECIFICATION FairSpec
CONSTANTS
  Names = {a, b}
  Networks <- AllNetworks
  NumSubnets = 2
  MaxIPs = 3
  Excluded <- OneExcluded
  MaxIDs = 3
  MaxTries = 2
  MaxPods = 2
  MaxChanges = 3
  MaxFailures = 1
  MaxRestarts = 1
  None = None
INVARIANTS TypeOK UniqueIPs IDsOfNames NoIPLeak
PROPERTY EventuallyAnnotated
CHECK_DEADLOCK FALSE
