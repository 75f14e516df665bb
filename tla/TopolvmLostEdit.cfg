SPECIFICATION FairSpec
PROPERTIES SpecApplied
CONSTANTS
  Disk = {d1, d2}
  Vg = {ga, gb}
  Raw = Raw
  Label = Label
  Missing = Missing
  FaultKinds = {}
  MaxFaults = 0
  MaxVolumes = 0
  NoMap = NoMap
  None = None
  Nameless = Nameless
  NoClass = NoClass
  AllDevices = FALSE
  Launcher = {l1, h}
  BackoffLimit = 1
  Wishes <- OneClass
  UseAllNodes = FALSE
  Handler = h
  Foreign <- AllRaw
  Patient = FALSE
  CleanUp = TRUE
  MayDelete = FALSE
  Returns = {}
  MaxEdits = 1
  d1 = d1
  d2 = d2
  d3 = d3
  ga = ga
  gb = gb
