SPECIFICATION CSpec
CONSTANTS
  None = None
  source = source
  Items = {i1}
  Targets = {source}
  KindOf <- MCKindOf
  NoRetry = {}
  Workers = {w1, w2}
  Serves <- MCServesAll
  MaxAttempts = 2
  LeaseLength = 1
  MaxWait = 1
  ClaimLimit = 1
  ReapLimit = 1
  MaxBoard = 2
INVARIANTS
  OrphanRunsAreReaped
