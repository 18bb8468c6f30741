SPECIFICATION BothSpec
CONSTANTS
  None = None
  Null = Null
  source = source
  Items = {i1}
  Targets = {source}
  KindOf <- MCKindOf
  NoRetry = {}
  Workers = {w1, w2}
  Serves <- MCServesAll
  MaxAttempts = 2
  LeaseLength = 1
  MaxWait = 1
  ClaimLimit = 1
  ReapLimit = 1
  MaxBoard = 2
  Requests = {r1, r2}
  Interviews = {i1}
  PrepKeys = {k1}
  CalendarItems = {x1, x2, x3}
  PoolSize = 3
  MaxPrepVersion = 2
INVARIANTS
  BothTypeOK
  SucceededMeansPersisted
  OneWriterPerSource
  ItemsMadeOnce
PROPERTIES
  StoredNeverRegresses
  EveryItemSettles
  PreparingEnds
CHECK_DEADLOCK FALSE
