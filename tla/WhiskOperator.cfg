SPECIFICATION Spec
CONSTANTS
  Specs <- Mixed
  Kube = "generic"
  MinioExtraIngress = TRUE
  MaxFaults = 2
  MaxCrashes = 1
  MaxInstalls = 2
INVARIANTS
  StatusTruthful
  HandledComplete
  DestroyedClean
CHECK_DEADLOCK FALSE
