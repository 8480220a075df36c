SPECIFICATION Spec
CONSTANTS
  t1 = t1
  t2 = t2
  u1 = u1
  s1 = s1
  s2 = s2
  h1 = h1
  Files <- MCFiles
  SourceOf <- MCSourceOf
  ItemOf <- MCItemOf
  PathOf <- MCPathOf
  BatchSize = 1
  Syncers = {s1}
  Handlers = {h1}
  UpsertMayFail = TRUE
  MaxSyncs = 3
  MaxChanges = 2
  MaxFailures = 1
  MaxCrashes = 0
INVARIANT URLServesPath
CHECK_DEADLOCK FALSE
