\* A gated call without a key and a policed one with a key: crashes, lost
\* leases and lost answers between approval, record and effect.
CONSTANTS
  a = a
  b = b
  Workers = {p1, p2, p3}
  Nobody = Nobody
  Batch <- TwoCalls
  Keyed = {b}
  Gated = {a}
  Policed = {b}
  MaxAttempts <- AttemptsOfKeyed
  MaxDisruptions = 3
SPECIFICATION Spec
SYMMETRY WorkerSymmetry
INVARIANTS
  NoEffectBeforeApproval
  EffectsAreOnRecord
  OneBeginningPerDecision
CHECK_DEADLOCK FALSE
