SPECIFICATION FairSpec
CONSTANTS
  NumUsers = 1
  Events <- MCTwice
  Scans = {}
  Owner <- MCTwiceOwner
  Audience <- MCTwiceAudience
  BatchSize = 2
  MaxAttempts = 2
  MaxLosses = 0
PROPERTIES
  SecondEventReconciled
CHECK_DEADLOCK FALSE
