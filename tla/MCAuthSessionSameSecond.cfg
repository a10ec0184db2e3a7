SPECIFICATION Spec
CONSTANTS
  Users = {u1}
  Requests = {r1, r2}
  NoToken = NoToken
  AccessLife = 2
  RefreshLife = 2
  SessionTTL = 2
  Fallback = FALSE
  MaxTime = 2
  MaxClaims = 0
SYMMETRY RequestSymmetry
INVARIANT RefreshedSessionLives
