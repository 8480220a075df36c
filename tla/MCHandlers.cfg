SPECIFICATION PSpec
CONSTANTS
  h1 = h1
  h2 = h2
  f1 = f1
  Handlers = {h1, h2}
  Files = {f1}
  Alternatives = {f1}
  MaxConns = 1
  RepairRetries = 1
  AutoRepair = TRUE
  CacheURLs = TRUE
  c1 = c1
  c2 = c2
  k1 = k1
  i1 = i1
  Callers = {c1, c2}
  Keys = {k1}
  Items = {i1}
  Ids = {1}
  ItemOf <- OneKey
  IdOf <- OneId
  Moods = {"ok", "transient"}
  MaxRetries = 0
  NegativeTTL = 1
  NegativeMax = 1
  Threshold = 2
  FailWindow = 2
  StaleBase = 1
  StaleCap = 1
  ProbeLock = 2
  IntBits = 3
  BreakerMax = 1
INVARIANT TypeOK
INVARIANT SlotsConserved
INVARIANT OnlyMedia
PROPERTY OneStatus
PROPERTY LeaversEnd
PROPERTY SlotsServed
PROPERTY PollersRecover
CHECK_DEADLOCK FALSE
