SPECIFICATION FairSpec
CONSTANTS
  Wants <- StorageAndRedis
  Provides <- All
  MaxFaults = 2
  MaxStarts = 1
  MaxUsers = 2
CHECK_DEADLOCK FALSE
 
INVARIANT DeletedClean
PROPERTY UserHandled
