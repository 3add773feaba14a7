CONSTANTS
  p1 = p1
  p2 = p2
  Owners = {p1, p2}
  NoOwner = NoOwner
  Agents = {"a", "b", "c"}
  Program <- ForkProgram
  Compensated = {"a", "b", "p"}
  StepLimit = 5
  MaxChildren = 2
  MaxFailures = 1
  MaxCrashes = 1
  Outcomes = {"completed", "failed"}
  Parts = {"fork", "chain", "pauses"}
SPECIFICATION AllSpec
SYMMETRY Symmetry
INVARIANTS
  WorkIsDoneOnce
  FailureIsCompensated
  CancellationReachesRecordedChildren
  PausedWorkIsOfOnePiece
PROPERTIES
  KeepsTheLedger
CHECK_DEADLOCK FALSE
