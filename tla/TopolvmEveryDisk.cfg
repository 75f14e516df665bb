SPECIFICATION Spec
PROPERTIES NamedDisksStay
CONSTANTS
  Disk = {d1, d2}
  Vg = {ga, gb}
  Raw = Raw
  Label = Label
  Missing = Missing
  FaultKinds = {}
  MaxFaults = 0
  MaxVolumes = 0
  NoMap = NoMap
  None = None
  Nameless = Nameless
  NoClass = NoClass
  AllDevices = TRUE
  Launcher = {l1, h}
  BackoffLimit = 1
  Wishes <- EveryDisk
  UseAllNodes = TRUE
  Handler = h
  Foreign <- AllRaw
  Patient = TRUE
  CleanUp = TRUE
  MayDelete = FALSE
  Returns = {}
  MaxEdits = 0
  d1 = d1
  d2 = d2
  d3 = d3
  ga = ga
  gb = gb
