SPECIFICATION Spec
CONSTANTS
  None = None
  repo = repo
  source = source
  calendar = calendar
  sweep = sweep
  Items = {i1, i2, i3}
  Targets = {repo}
  KindOf <- MCKindOfRepo
  NoRetry = {}
  Workers = {w1}
  Serves <- MCServesAll
  MaxAttempts = 2
  LeaseLength = 1
  MaxWait = 1
  ClaimLimit = 2
  ReapLimit = 2
SYMMETRY MCSymmetry
CONSTRAINT RepoBounds
INVARIANTS
  TypeOK
  AttemptsMatchLease
  OneActivePerTarget
  OneOpenRequestPerTarget
  OpenRequestsHaveWork
PROPERTIES
  HistoryIsFinal
  TokensOnlyGrow
