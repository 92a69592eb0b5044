SPECIFICATION Spec
CONSTANTS
  Sessions = {s1, s2}
  Requests = {r1, r2}
  Tenants = {t1, t2}
  Mixes <- Races
  Faults = TRUE
  MaxPasswords = 2
  MaxTokens = 2
  MaxFailedLogins = 2
  MaxUnlocks = 1
  MaxSecrets = 2
SYMMETRY Symmetry
INVARIANTS TypeOK NoSessionOutlives LockBoundsFailures
PROPERTIES OneContextUnless VerifiedUnless
CHECK_DEADLOCK FALSE
