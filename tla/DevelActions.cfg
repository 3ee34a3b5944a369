SPECIFICATION Spec
CONSTANTS
  c1 = c1  c2 = c2  ann = ann  bob = bob  ka = ka  kb = kb  o1 = o1  o2 = o2
  NoKey = NoKey  NoUser = NoUser  Nothing = Nothing
  Calls <- MCCalls
  Requests <- MCRequests
  Users <- MCUsers
  Keys <- MCKeys
  Subjects <- MCSubjects
  Env <- MCEnv
  Leaving <- MCLeaving
  Owned <- MCOwned
  Places <- MCPlaces
  Stored <- MCStored
  MaxFaults = 2
INVARIANTS
  SuccessTruthful
  
PROPERTIES
  MoveConserves
CHECK_DEADLOCK FALSE
