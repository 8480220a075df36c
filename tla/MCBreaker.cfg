SPECIFICATION Spec
CONSTANTS
  c1 = c1
  c2 = c2
  k1 = k1
  k2 = k2
  i1 = i1
  i2 = i2
  Callers = {c1, c2}
  Keys = {k1, k2}
  Items = {i1, i2}
  Ids = {1}
  ItemOf <- TwoItems
  IdOf <- SharedId
  Moods = {"ok", "database_error"}
  MaxRetries = 1
  NegativeTTL = 1
  NegativeMax = 1
  Threshold = 2
  FailWindow = 3
  StaleBase = 2
  StaleCap = 3
  ProbeLock = 2
  IntBits = 4
  BreakerMax = 1
SYMMETRY AnyCaller
INVARIANT TypeOK
PROPERTY ProbesSpaced
PROPERTY QuarantineEarned
CHECK_DEADLOCK FALSE
