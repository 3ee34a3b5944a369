SPECIFICATION FairSpec
CONSTANTS
  BackoffLimit <- Limit
  MaxFaults = 3
  MaxInstalls = 2
INVARIANTS
  CompleteInitialised
PROPERTIES
  InitHappens
  FirstJobCompletes
CHECK_DEADLOCK FALSE
