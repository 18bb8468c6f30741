SPECIFICATION FairSpec
CONSTANTS
  NumUsers = 3
  Events <- MCLarge
  Scans = {}
  Owner <- MCLargeOwner
  Audience <- MCLargeAudience
  BatchSize = 2
  MaxAttempts = 3
  MaxLosses = 0
PROPERTIES
  EventReachesAudience
CHECK_DEADLOCK FALSE
