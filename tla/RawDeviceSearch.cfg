SPECIFICATION Spec
INVARIANTS SearchInv PlacesOnLargest ChoosesBestFit GrantCoversRequest GrantsUpToMaximum
CONSTANTS
  n1 = n1
  n2 = n2
  NoNode = NoNode
  Node = {n1, n2}
  GiB = 2
  MaxBytes = 15
  Lists <- AllLists
  Amounts <- SomeAmounts
CHECK_DEADLOCK FALSE
