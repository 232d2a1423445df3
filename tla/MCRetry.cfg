SPECIFICATION FairSpec
CONSTANTS
  Keys = {a}
  ResourceTypes <- AllTypes
  MaxFailedAttempts = 2
  MaxChanges = 3
  MaxObjects = 2
  MaxRequests = 1
  None = None
INVARIANTS TypeOK ReconciledWhenSettled ReleasedWhenGone CompletedPodReleased
PROPERTY EventuallySettled
CHECK_DEADLOCK FALSE
