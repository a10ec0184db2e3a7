SPECIFICATION FairSpec
CONSTANTS
  Requests = {r1, r2}
  Purposes = {"login", "password_reset"}
  Channels = {"email"}
  Traffic = {"send", "verify"}
  OtpTTL = 1
  ResetTTL = 1
  BlockTTL = 1
  WindowTTL = 1
  MaxResend = 1
  MaxInvalid = 2
  MaxLogin = 1
  Production = TRUE
  Fallback = FALSE
  Faults = FALSE
  MaxSends = 2
  MaxAttempts = 2
CONSTRAINT LoginCodes
INVARIANTS
  LimitEnforced
  BlockStopsRequests
PROPERTIES
  CountersExpire
