SPECIFICATION FairSpec
INVARIANTS NoTargetLeft
PROPERTIES TargetsFollowPods
CONSTANTS
  Pod = {p1, p2}
  Call = {k1, k2, k3}
  None = None
  MaxFaults = 3
  p1 = p1
  p2 = p2
  k1 = k1
  k2 = k2
  k3 = k3
CHECK_DEADLOCK FALSE
