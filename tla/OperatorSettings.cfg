SPECIFICATION FairSpec
INVARIANTS TypeOK RestMeansApplied
PROPERTIES DriversFollow NodesFollow
CONSTANTS
  n1 = n1
  n2 = n2
  Node = {n1, n2}
  Version = {1, 2}
  Default = 1
  Off = Off
  Invalid = Invalid
  NoSettings = NoSettings
  Absent = Absent
  InitialSettings <- Fresh
  Together <- OneByOne
  FaultKinds = {"call", "restart"}
  Patient = TRUE
  MaxFaults = 3
  MaxEdits = 3
CHECK_DEADLOCK FALSE
