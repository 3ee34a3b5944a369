SPECIFICATION FairSpec
CONSTANTS
  Specs <- Retried
  Kube = "generic"
  MinioExtraIngress = FALSE
  MaxFaults = 1
  MaxCrashes = 2
  MaxInstalls = 1
PROPERTIES
  CreateCompletes
  
  RedisRestored
CHECK_DEADLOCK FALSE
