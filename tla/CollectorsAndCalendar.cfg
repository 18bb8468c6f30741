SPECIFICATION AllSpec
CONSTANTS
  Null = Null
  id1 = id1
  id2 = id2
  row1 = row1
  row2 = row2
  page1 = page1
  page2 = page2
  Requests = {r1, r2}
  NumUsers = 3
  Events <- MCEvents
  Scans <- MCScans
  Owner <- MCOwner
  Audience <- MCAudience
  BatchSize = 2
  MaxAttempts = 2
  MaxLosses = 1
  Companies = {c1}
  Files = {id1, id2}
  Folders = {{}, {id1}}
  Workers = {w1, w2}
  MaxHead = 2
  MaxFiles = 2
  Queries = {row1, row2}
  FoundPages = {page1}
  LastDay = 2
  MonthOf <- MCMonthOf
  DailyLimit = 1
  MonthlyLimit = 1
  MaxSearchAttempts = 2
  Profiles = {row1, row2}
  Names = {ann}
  Subjects = {mit}
  SourcePages = {page1, page2}
  Observed <- MCObserved
  Reported <- MCReported
  SourceDates = {fair}
  Plans = {apply}
  Entries = {n1}
  Days = {d1, d2}
  MaxCompletions = 2
CONSTRAINT SyncBounds
INVARIANTS
  TablesTypeOK
  ExpansionComplete
  ChildrenHaveWork
  SucceededIsEvaluated
  NothingSkipped
  BudgetKept
  FocusMatchesEvidence
PROPERTIES
  DeletedStaysDeleted
CHECK_DEADLOCK FALSE
