SPECIFICATION FairSpec
CONSTANTS
  Instances = {i1}
  Users = {u1}
  Sockets = {s1, s2}
  NoUser = NoUser
  TTL = 2
  Production = TRUE
  Faults = TRUE
INVARIANTS
  TypeOK
  MapsAgree
  TransitionsBalance
  SerialJobsSettle
PROPERTIES
  StaleKeyExpires
