CONSTANTS
  Requests = {r1, r2}
  Names = {sol, achenar}
  maxConnections = 0
  Expiry = 2
  FetchTimeout = 1
  MaxTime = 4
  None = None
SPECIFICATION Spec
INVARIANTS
  SlotsAreRespected
CHECK_DEADLOCK FALSE
