CONSTANTS
  p1 = p1
  p2 = p2
  Owners = {p1, p2}
  NoOwner = NoOwner
  Agents = {"a", "b", "c"}
  Program <- UnwoundProgram
  Compensated = {"b", "p"}
  StepLimit = 5
  MaxChildren = 1
  MaxFailures = 0
  MaxCrashes = 0
  Outcomes = {"completed", "failed"}
  Parts = {"fork"}
SPECIFICATION AllSpec
INVARIANTS
  FailureIsCompensated
CHECK_DEADLOCK FALSE
