SPECIFICATION FairExecSpec
CONSTANTS
  Cycle = 6
  Schedule <- First
  Cron <- Twice
  MinDelay = 1
  MaxDelay = 2
  MaxRun = 2
  Horizon = 18
  MaxFailed = 1
CHECK_DEADLOCK FALSE
INVARIANT ServedOnce
PROPERTY AutoexecOnce
