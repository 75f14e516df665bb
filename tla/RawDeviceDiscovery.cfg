SPECIFICATION FairSpec
INVARIANT IInv
PROPERTIES GrantsFreeDevice FreesMarkedDevice OnlyCallsMoveMarks NewDiskRecorded RemovedDiskForgotten EveryClaimBinds EveryReleaseFrees
CONSTANTS
  n1 = n1
  n2 = n2
  d1 = d1
  d2 = d2
  d3 = d3
  v1 = v1
  v2 = v2
  v3 = v3
  NoName = NoName
  Absent = Absent
  AnyNode = AnyNode
  NoDevice = NoDevice
  Idle = Idle
  NoCall = NoCall
  Gone = Gone
  Size = {1, 2}
  Device = {d1}
  Node = {n1}
  NodeOf <- OneNode
  Controller = {c1}
  Daemon = {n1}
  Volume = {v1}
  Request <- AskSmall
  Call = {k1, k2}
  InitialDisk <- AllSmall
  Discovered = {}
  Changes <- D1Changes
  MaxLag = 1
  MaxFaults = 1
  MaxChanges = 1
  MaxSkips = 1
CHECK_DEADLOCK TRUE
