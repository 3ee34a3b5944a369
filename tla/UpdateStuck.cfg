SPECIFICATION FairUpdateSpec
CONSTANTS
  Specs <- RedisSpecs
  Edits <- RedisEdits
  Kube = "generic"
  MinioExtraIngress = FALSE
  MaxFaults = 0
  MaxCrashes = 0
  MaxInstalls = 1
  MaxEdits = 1
PROPERTIES
  UpdateCompletes

CHECK_DEADLOCK FALSE
