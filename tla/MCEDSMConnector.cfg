CONSTANTS
  Requests = {r1, r2}
  Names = {sol, achenar}
  maxConnections = 0
  Expiry = 2
  FetchTimeout = 1
  MaxTime = 3
  None = None
SPECIFICATION FairSpec
INVARIANTS
  TypeOK
  SlotsAreCounted
  CacheIsRecent
  RepliesAreRecent
PROPERTIES
  RequestsAreAnswered
CHECK_DEADLOCK FALSE
