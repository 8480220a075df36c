SPECIFICATION CSpec
CONSTANTS
  c1 = c1
  k1 = k1
  i1 = i1
  Callers = {c1}
  Keys = {k1}
  Items = {i1}
  Ids = {1}
  ItemOf <- OneKey
  IdOf <- OneId
  Moods = {"ok", "database_error"}
  MaxRetries = 0
  NegativeTTL = 1
  NegativeMax = 1
  Threshold = 2
  FailWindow = 2
  StaleBase = 1
  StaleCap = 2
  ProbeLock = 1
  IntBits = 3
  BreakerMax = 1
  HealthWindow = 2
  MinSamples = 3
  Room = 3
INVARIANT HealthExact
PROPERTY LongOutageNeverEscalates
CHECK_DEADLOCK FALSE
