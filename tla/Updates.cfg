SPECIFICATION FairUpdateSpec
CONSTANTS
  Specs <- Installed
  Edits <- AnyEdits
  Kube = "generic"
  MinioExtraIngress = FALSE
  MaxFaults = 1
  MaxCrashes = 0
  MaxInstalls = 1
  MaxEdits = 2
INVARIANTS
  GrownComplete
PROPERTIES
  
  UpdateKeepsWanted
CHECK_DEADLOCK FALSE
