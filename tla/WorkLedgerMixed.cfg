SPECIFICATION Spec
CONSTANTS
  None = None
  repo = repo
  source = source
  calendar = calendar
  sweep = sweep
  Items = {i1, i2}
  Targets = {source, calendar, sweep}
  KindOf <- MCKindOfMixed
  NoRetry = {source}
  Workers = {w1, w2}
  Serves <- MCServesAll
  MaxAttempts = 2
  LeaseLength = 1
  MaxWait = 1
  ClaimLimit = 2
  ReapLimit = 2
SYMMETRY MCSymmetry
INVARIANTS
  ClaimableHasBudget
  LettersMatchStatus
PROPERTIES
  ImplementsExclusiveWork
