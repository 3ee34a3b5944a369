SPECIFICATION Spec
CONSTANTS
  Users <- TwoUsers
  Wants <- TheirWants
  Pods <- TwoPods
  Listed <- ByName
  MaxUsers = 3
  MaxTroubles = 1

  
  
PROPERTIES
  HandlersEnd
CHECK_DEADLOCK FALSE
