CONSTANTS
  a = a
  b = b
  Nobody = Nobody
  Workers = {p1, p2}
  Batch <- TwoCalls
  Keyed = {b}
  Gated = {}
  Policed = {}
  MaxAttempts <- AttemptsOfAll
  MaxDisruptions = 1
SPECIFICATION Spec
INVARIANTS
  UnkeyedToolsAskFirst
CHECK_DEADLOCK FALSE
