SPECIFICATION Spec
CONSTANTS
  Requests = {r1, r2}
  Purposes = {"login", "password_reset"}
  Channels = {"email"}
  Traffic = {"send", "verify", "login", "password"}
  OtpTTL = 1
  ResetTTL = 1
  BlockTTL = 1
  WindowTTL = 1
  MaxResend = 1
  MaxInvalid = 1
  MaxLogin = 1
  Production = FALSE
  Fallback = FALSE
  Faults = TRUE
  MaxSends = 2
  MaxAttempts = 1
SYMMETRY RequestSymmetry
INVARIANTS
  TypeOK
  SpentCodesGone
  ResetTakesResetCode
