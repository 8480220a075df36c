SPECIFICATION PSpec
CONSTANTS
  p1 = p1
  p2 = p2
  y1 = y1
  y2 = y2
  PageSize = 2
  Cap = 2
  RetryAttempts = 1
  AtFirst = 4
  MaxAdds = 2
  MaxRemovals = 2
  MaxPageFailures = 2
  Requests = {"r1", "r2"}
  Levels = {"debug", "info"}
  Default = "info"
  MaxFailures = 1
  MaxCrashes = 1
  Writers = {"w1", "w2"}
  Messages = {"a", "b", "c"}
  Capacity = 3
  Items = {"i1", "i2"}
  Paths <- ShowPaths
  Sizes = {1, 2, 3}
  Rank <- ShowRank
  Rest <- ShowRest
  Alike <- ShowAlike
  AlikeStart = {}
  Mounts = {"big", "movies"}
  Filter <- ShowFilter
  HasAll = 3
  Clients = {"c1"}
  MaxSize = 2
  Holders = {"primary", "alternative"}
  MaxSyncs = 1
INVARIANT TypesOK
INVARIANT ListingErrsByChanges
INVARIANT LevelPersisted
INVARIANT LinesExact
INVARIANT TreeExact
INVARIANT ListedIsServed
INVARIANT ViewsAgree
INVARIANT RightSizeServesExactly
INVARIANT SlotSpacing
INVARIANT StartSpacing
CHECK_DEADLOCK FALSE
