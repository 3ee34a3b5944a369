SPECIFICATION Spec
CONSTANTS
  s1 = s1  s2 = s2  l1 = l1  n1 = n1  n2 = n2  k1 = k1  k2 = k2
  calls = calls  fires = fires  c1 = c1  c2 = c2  c3 = c3
  Absent = Absent
  Unset = Unset
  Docs <- MCDocs
  LimitDocs <- MCLimit
  Names <- MCNames
  Keys <- MCKeys
  Limits <- MCLimits
  Values <- MCValues
  Commands <- MCCommands
  Clients <- MCClients
  InitialStores <- MCStores
  MaxFaults = 1
SYMMETRY Symmetric
PROPERTIES
  KeysGiven
  LimitsKept
  AtomicSpec
CHECK_DEADLOCK FALSE
