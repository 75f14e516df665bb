SPECIFICATION Spec
INVARIANTS TypeOK SameVersionSameObject UniqueVolumeIds MarkedIffHeld
PROPERTIES FreesMarkedDevice ImplementsAllocation
CONSTANTS
  n1 = n1
  n2 = n2
  d1 = d1
  d2 = d2
  d3 = d3
  v1 = v1
  v2 = v2
  v3 = v3
  NoName = NoName
  Absent = Absent
  AnyNode = AnyNode
  NoDevice = NoDevice
  Idle = Idle
  NoCall = NoCall
  Gone = Gone
  Size = {1, 2}
  Device = {d1, d2}
  Node = {n1, n2}
  NodeOf <- TwoNodes
  Controller = {c1, c2}
  Daemon = {n1}
  Volume = {v1, v2}
  Request <- AskMixed
  Call = {k1, k2}
  InitialDisk <- Mixed
  Discovered = {d1, d2}
  Changes <- D1Reuse
  MaxLag = 1
  MaxFaults = 0
  MaxChanges = 1
  MaxSkips = 0
CHECK_DEADLOCK TRUE
