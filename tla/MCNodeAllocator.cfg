SPECIFICATION FairSpec
CONSTANTS
  n1 = n1
  n2 = n2
  blue = blue
  red = red
  flat = flat
  zone = zone
  hybrid = hybrid
  a4 = a4
  b4 = b4
  a6 = a6
  r4 = r4
  r6 = r6
  h4 = h4
  none = none
  Nodes = {n1, n2}
  Nets = {blue, red, flat}
  Default = blue
  Zone = zone
  Hybrid = hybrid
  Ranges = {a4, b4, a6, r4, r6, h4}
  IPv4 = {a4, b4, r4, h4}
  Size <- Sizes
  V4Ranges <- V4Of
  V6Ranges <- V6Of
  MaxID = 5
  Scenarios <- AllScenarios
  Attempts = 2
  MaxFailedAttempts = 2
  MaxVersions = 4
  None = none
CHECK_DEADLOCK FALSE
INVARIANTS TypeOK AllocatorsExact AnnotationsAgree NothingLeaked
PROPERTY EventuallySettled
