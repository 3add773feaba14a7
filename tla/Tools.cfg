CONSTANTS
  q1 = q1
  q2 = q2
  k1 = k1
  k2 = k2
  Nobody = Nobody
  Docker = TRUE
  HoldsPipe = TRUE
  Limit = 4
  MaxWritten = 4
  Chunks <- WrittenChunks
  Parts = {"command", "mcp", "search", "index", "docker", "lone"}
SPECIFICATION AllSpec
INVARIANTS
  RemoteCallsKeepTheirTerms
  FoundToolsCanBeCalled
  
PROPERTIES
  AnswersTellTheCause
CHECK_DEADLOCK FALSE
