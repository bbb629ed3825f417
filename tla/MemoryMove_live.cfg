SPECIFICATION FairSpec
CONSTANTS
  MaxMoves = 1
  MaxPods = 2
  MaxAsks = 1
  MaxLost = 2
  MaxCrashes = 1
  Happens = {"agentFails", "killed", "oldAgent", "evicted", "hand", "jobFails", "jobLost", "jobLag", "sourceDeleted", "suspended"}
INVARIANT LinkNamesVerifiedCopy
PROPERTY JobRunsOnce
PROPERTY MoveSettles
