SPECIFICATION FairSpec
CONSTANTS
  t1 = t1
  t2 = t2
  u1 = u1
  s1 = s1
  s2 = s2
  h1 = h1
  Files <- MCFiles
  SourceOf <- MCSourceOf
  ItemOf <- MCItemOf
  PathOf <- MCPathOf
  BatchSize = 1
  Syncers = {s1, s2}
  Handlers = {}
  UpsertMayFail = FALSE
  MaxSyncs = 2
  MaxChanges = 2
  MaxFailures = 1
  MaxCrashes = 1
INVARIANT TypeOK
INVARIANT OneSyncAtATime
INVARIANT CleanSyncMirrors
INVARIANT RemovalsGenuine
PROPERTY StableRowsKept
PROPERTY MirrorsListings
PROPERTY SyncsEnd
CHECK_DEADLOCK FALSE
