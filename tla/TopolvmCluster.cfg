SPECIFICATION FairSpec
INVARIANTS ReadyNodesHaveClass
PROPERTIES ReportsKept PhasesFollow DeletionFinishes
CONSTANTS
  Node = {n1, n2}
  Checker = {k1, k2}
  NoCluster = NoCluster
  None = None
  MaxClusters = 2
  MaxEvents = 3
  n1 = n1
  n2 = n2
  k1 = k1
  k2 = k2
CHECK_DEADLOCK FALSE
