SPECIFICATION Spec
CONSTANTS
  Null = Null
  Gone = Gone
  r1 = r1
  r2 = r2
  id1 = id1
  id2 = id2
  id3 = id3
  row1 = row1
  row2 = row2
  key1 = key1
  key2 = key2
  found1 = found1
  found2 = found2
  found3 = found3
  scan1 = scan1
  scan2 = scan2
  text1 = text1
  text2 = text2
  seeker = seeker
  opening = opening
  Requests = {r1, r2}
  Applications = {row1, row2}
  Targets = {opening}
  ClientKeys = {once}
  Dates = {d1}
  Documents = {pdf}
  Versions = {v1}
  Evidence = {id1, id2}
  Opportunities = {opening}
  Matches = {row1, row2}
  Applicants = {seeker}
  TargetOf <- MCTargetOf
  Grants = {g1}
  Pages = {scan1}
  Deletions = {q1}
  PrivateBeta = TRUE
  Authorizations = {s1}
  GoogleAccounts = {work, home}
  Postings = {id1, id2, id3}
  Drafts = {row1, row2}
  SendKeys = {key1, key2}
  Contacts = {recruiter}
  Emails = {old, new}
  MaxDraftVersion = 2
  Candidates = {found1, found2, found3}
  Scans = {scan1, scan2}
  Contents = {text1, text2}
  ChoiceKeys = {key1, key2}
  ScanOf <- MCScanOf
  ContentOf <- MCContentOf
  Fingerprints = {text1, text2}
  MaxChanges = 4
  Selections = {{}, {swe}, {data}}
  Facts <- MCFacts
  Wishes <- MCWishes
  Watches = {id1, id2}
  Watchable = {opening, seeker}
  Letters = {a1}
  Minute = 2
  Day = 12
  Nine = 4
  Ten = 6
  Zones <- MCZones
  Instants <- MCInstants
  Items = {row1}
  Calls = {r1, r2}
  Timings <- MCTimings
  Typed <- MCTyped
  Listings = {1, 2, 3}
  Milli = 2
  PageLimit = 1
  LastMoment = 3
CONSTRAINT RecordBounds
INVARIANTS
  RecordsTypeOK
  ProjectionRecorded
  NothingOutlivesItsDocument
  CallbackOnce
  NothingOfADeletedUser
  OneSendPerApproval
  SelectedOnce
  PostingsAreListed
  NoMixedPreferences
  LocalTimesConverted
  UntouchedFormKeepsTimes
  SteadyRowsComeOnce
PROPERTIES
  DistinctStayApart
  DismissedStaysAway
  LearningNeverDemotes
CHECK_DEADLOCK FALSE
