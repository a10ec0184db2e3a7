SPECIFICATION FairSpec
CONSTANTS
  Users = {u1}
  Requests = {r1, r2}
  NoToken = NoToken
  AccessLife = 1
  RefreshLife = 2
  SessionTTL = 1
  Fallback = TRUE
  MaxTime = 0
  MaxClaims = 1
INVARIANTS
  ClaimsAreCurrent
PROPERTIES
  EveryRequestEnds
