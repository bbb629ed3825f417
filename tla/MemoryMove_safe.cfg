SPECIFICATION Spec
CONSTANTS
  MaxMoves = 2
  MaxPods = 3
  MaxAsks = 2
  MaxLost = 1
  MaxCrashes = 1
  Happens = {"evicted", "jobFails", "jobLost", "oldAgent"}
INVARIANTS MemoryHome CopyOfDrained NoWriterUnderJob
PROPERTY ServesLatest AcceptedLinkStays
