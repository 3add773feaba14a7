CONSTANTS
  p1 = p1
  p2 = p2
  r1 = r1
  r2 = r2
  s1 = s1
  None = None
  Unset = Unset
  Off = Off
  Executions = {p1, p2}
  Runs = {r1}
  Sessions = {s1}
  HomeOf <- OneHome
  MaxActiveRuns = 1
  Streaming = TRUE
  LateSnapshot = FALSE
  MaxRevision = 1
  MaxFailures = 0
  Parts = {"streams"}
SPECIFICATION AllSpec
INVARIANTS
  CancelledRunsStayOutOfHistory
CHECK_DEADLOCK FALSE
