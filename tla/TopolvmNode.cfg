SPECIFICATION FairSpec
INVARIANTS NothingLeft
PROPERTIES ServesRecorded RecordsKept SpecApplied LvmdFollows StatusReported DevicesPublished ReadyIfComplete
CONSTANTS
  Disk = {d1, d2}
  Vg = {ga, gb}
  Raw = Raw
  Label = Label
  Missing = Missing
  FaultKinds = {}
  MaxFaults = 0
  MaxVolumes = 0
  NoMap = NoMap
  None = None
  Nameless = Nameless
  NoClass = NoClass
  AllDevices = FALSE
  Launcher = {l1, h}
  BackoffLimit = 1
  Wishes <- Rename
  UseAllNodes = TRUE
  Handler = h
  Foreign <- AllRaw
  Patient = TRUE
  CleanUp = TRUE
  MayDelete = TRUE
  Returns <- OtherName
  MaxEdits = 1
  d1 = d1
  d2 = d2
  d3 = d3
  ga = ga
  gb = gb
