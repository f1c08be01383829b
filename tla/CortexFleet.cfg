SPECIFICATION FairSpec
CONSTANTS
  t1 = t1
  s1 = s1
  w1 = w1
  w2 = w2
  Tenants = {t1}
  Scopes = {s1}
  Scanned = {s1}
  Workers = {w1, w2}
  Drift = FALSE
  MaxThreads = 1
  MaxWrites = 2
  MaxLoose = 1
  Filed = {}
  MaxFailures = 0
  NoTenant = NoTenant
  NoTask = NoTask
INVARIANTS
  NothingForgotten
PROPERTIES
  DigestsCatchUp
CHECK_DEADLOCK FALSE
