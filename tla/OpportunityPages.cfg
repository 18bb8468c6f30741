SPECIFICATION ListingSpec
CONSTANTS
  Null = Null
  Requests = {r1}
  Listings = {1, 2, 3}
  Milli = 2
  PageLimit = 1
  LastMoment = 3
INVARIANTS
  PagesReachEverything
CHECK_DEADLOCK FALSE
