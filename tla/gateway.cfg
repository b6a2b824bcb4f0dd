CONSTANTS
  p1 = p1  p2 = p2  p3 = p3  r1 = r1  r2 = r2  r3 = r3
  Providers = {p1, p2, p3}
  Requests = {r1, r2}
  Rank <- InOrder
  Supports <- Everyone
  FailureThreshold = 2
  SuccessThreshold = 2
  MaxFallbackAttempts = 2
SPECIFICATION FairSpec
INVARIANTS TypeOK AttemptsHonoured BreakerCoherent
PROPERTIES RequestEnds
CHECK_DEADLOCK FALSE
