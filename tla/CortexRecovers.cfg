SPECIFICATION FairSpec
CONSTANTS
  t1 = t1
  t2 = t2
  s1 = s1
  w1 = w1
  Tenants = {t1, t2}
  Scopes = {s1}
  Scanned = {s1}
  Workers = {w1}
  Drift = TRUE
  MaxThreads = 2
  MaxWrites = 1
  MaxLoose = 1
  Filed <- MCFiled
  MaxFailures = 1
  NoTenant = NoTenant
  NoTask = NoTask
INVARIANTS
  QueuedForItsTenant
PROPERTIES
  MissingDigestAppears
CHECK_DEADLOCK FALSE
