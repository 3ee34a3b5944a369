SPECIFICATION Spec
CONSTANTS
  Renamed <- Deployments
  Cuts <- FirstOnly
  Unread <- SecondSpelling
  Instances <- TheInstances
INVARIANTS
  TypeOK
  
  KeysGiven
  RuntimesCurrent
  JobAccounted
  LoginComplete
PROPERTIES
  HandlersEnd
CHECK_DEADLOCK FALSE
