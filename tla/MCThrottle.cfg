SPECIFICATION FairSpec
CONSTANTS
  r1 = r1
  r2 = r2
  r3 = r3
  Requests <- SmallRequests
  QueueOf <- SmallQueueOf
  MaxCalls <- SmallCalls
  Responses = {"ok", "429"}
  Rate = 2
  BufferSize = 1
  Window = 2
  IdleTime = 0
INVARIANT TypeOK
INVARIANT ExecutedInOrder
INVARIANT StatsWindowExact
INVARIANT Stats429Exact
PROPERTY EveryRequestAnswered
CHECK_DEADLOCK FALSE
