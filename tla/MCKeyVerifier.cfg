SPECIFICATION Spec
CONSTANTS
  k1 = k1
  k2 = k2
  k3 = k3
  Checks <- MCChecks
  Tokens <- MCTokens
  StaticToken = "static"
  Lifetime <- MCLifetime
  TTL = 2
  MaxClock = 5
SYMMETRY Symmetry
CHECK_DEADLOCK FALSE
INVARIANTS
  RevocationTakesEffect
  ExpiryTakesEffect
  RefusalHasAReason
