CONSTANTS
  w1 = w1  w2 = w2  t1 = t1  t2 = t2  tenant = tenant
  Workers = {w1, w2}
  NoWorker = NoWorker
  Tasks = {t1}
  NoTask = NoTask
  Tenants <- OneTenant
  TenantOf <- AllToOne
  MaxActive <- QuotaOfOne
  ConcurrencyLimit = 1
  MaxToken = 2
  MaxIncarnation = 1
SPECIFICATION Spec
INVARIANTS TypeOK OpenAttemptIsLeased RunningTaskIsRecoverable ClaimsAreSpent
PROPERTIES HealthyClaimGate TerminalTaskStays
SYMMETRY Symmetry
CHECK_DEADLOCK FALSE
