SPECIFICATION Spec
INVARIANT UniqueVolumeIds
CONSTANTS
  n1 = n1
  n2 = n2
  d1 = d1
  d2 = d2
  d3 = d3
  v1 = v1
  v2 = v2
  v3 = v3
  NoName = NoName
  Absent = Absent
  AnyNode = AnyNode
  NoDevice = NoDevice
  Idle = Idle
  NoCall = NoCall
  Gone = Gone
  Size = {1, 2}
  Device = {d1}
  Node = {n1}
  NodeOf <- OneNode
  Controller = {c1}
  Daemon = {}
  Volume = {v1, v2, v3}
  Request <- AskSmall
  Call = {k1, k2}
  InitialDisk <- AllSmall
  Discovered = {d1}
  Changes <- NoChanges
  MaxLag = 2
  MaxFaults = 1
  MaxChanges = 0
  MaxSkips = 0
CHECK_DEADLOCK FALSE
