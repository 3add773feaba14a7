\* One run, three attempts: renewals, expiry, takeover, fencing.
\* Two runs of one session: stale starts, compaction, purge, refinement.
CONSTANTS
  Runs = {r1, r2}
  Sessions = {s1}
  Owners = {o1, o2, o3}
  NoRun = NoRun
  NoSession = NoSession
  NoOwner = NoOwner
  LeaseTerm = 1
  MaxNow = 3
  MaxPosition = 2
  MaxEvents = 2
SPECIFICATION SmallSpec
SYMMETRY Symmetry
INVARIANTS
  CheckpointIffActive
  EventsIncrease
  OneBelieverPerRun
  OneActiveRunPerSession
  HistoryIsTheCompletedRuns
PROPERTIES
  TerminalIsFinal
  TakeoversAreNotOvertaken
  ReservesSessions
CHECK_DEADLOCK FALSE
