CONSTANTS
  p1 = p1
  p2 = p2
  r1 = r1
  r2 = r2
  s1 = s1
  None = None
  Unset = Unset
  Off = Off
  Executions = {p1, p2}
  Runs = {r1, r2}
  Sessions = {s1}
  HomeOf <- OneHome
  MaxActiveRuns = 1
  Streaming = TRUE
  LateSnapshot = TRUE
  MaxRevision = 2
  MaxFailures = 1
  Parts = {"background", "streams", "team"}
SPECIFICATION AllSpec
SYMMETRY Symmetry
INVARIANTS
  WorkIsAdmittedAndFindable
  StoreTellsOneStory
  TeamsKeepTheirLimits
CHECK_DEADLOCK FALSE
