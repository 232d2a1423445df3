SPECIFICATION Spec
CONSTANTS
  n1 = n1
  n2 = n2
  e1 = e1
  e2 = e2
  i1 = i1
  i2 = i2
  x2 = x2
  loop = loop
  none = none
  Nodes = {n1, n2}
  EIPs = {e1, e2}
  IPs = {i1, i2}
  Primary = {i1}
  Addrs = {x2, i1}
  Covers <- NetworkOf
  Scenarios <- GoneNode
  Loop = loop
  None = none
CHECK_DEADLOCK FALSE
INVARIANT NotOnGoneNodes
