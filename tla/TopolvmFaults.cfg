SPECIFICATION Spec
INVARIANTS TypeOK
PROPERTIES ImplementsGroups UsedClassStaysServed
CONSTANTS
  Disk = {d1, d2, d3}
  Vg = {ga, gb}
  Raw = Raw
  Label = Label
  Missing = Missing
  FaultKinds = {"command", "udev", "disk", "pod", "wait", "operator", "daemon", "write"}
  MaxFaults = 1
  MaxVolumes = 1
  NoMap = NoMap
  None = None
  Nameless = Nameless
  NoClass = NoClass
  AllDevices = FALSE
  Launcher = {l1, h}
  BackoffLimit = 1
  Wishes <- OldGroup
  UseAllNodes = FALSE
  Handler = h
  Foreign <- ForeignB
  Patient = TRUE
  CleanUp = TRUE
  MayDelete = TRUE
  Returns = {}
  MaxEdits = 1
  d1 = d1
  d2 = d2
  d3 = d3
  ga = ga
  gb = gb
