SPECIFICATION Spec
CONSTANTS
  Inside = {}
  Users <- AllUsers
  UserApihost <- TheirApihost
  Confs <- TheConfs
  Addrs <- TheAddrs
  MaxTroubles = 1
  MaxInstalls = 1
INVARIANTS
  TypeOK
  Unambiguous
  
  NotesTrue
  
PROPERTIES
  RemovalEnds
  OwnOnly
CHECK_DEADLOCK FALSE
