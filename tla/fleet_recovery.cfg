CONSTANTS
  w1 = w1  w2 = w2  t1 = t1  t2 = t2  tenant = tenant
  Workers = {w1}
  NoWorker = NoWorker
  Tasks = {t1}
  NoTask = NoTask
  Tenants <- OneTenant
  TenantOf <- AllToOne
  MaxActive <- QuotaOfOne
  ConcurrencyLimit = 2
  MaxToken = 2
  MaxIncarnation = 2
SPECIFICATION FairSpec
PROPERTIES OrphanIsRecovered LedgerRefined
CHECK_DEADLOCK FALSE
