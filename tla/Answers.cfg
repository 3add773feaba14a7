CONSTANTS
  t1 = t1
  t2 = t2
  noCost = noCost
  Runs = {r1, r2, r3, r4}
  Flushers = {f1, f2}
  Concurrency = 2
  MaxQueued = 1
  MaxFailures = 1
  MaxEnds = 4
  Parts = {"export", "framing", "deepseek", "openai", "stream", "context", "continuation", "digest", "compactor", "spans", "coordinator", "evaluation", "chain"}
SYMMETRY ExportSymmetry
SPECIFICATION AllSpec
INVARIANTS
  FailuresAreToldOnce
  AnswersAreWhole
  ContextsAreWhole
  TracesTellTheRun
  EvaluationsAgree
CHECK_DEADLOCK FALSE
