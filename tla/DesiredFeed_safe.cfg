SPECIFICATION FairSpec
CONSTANTS
  a1 = a1
  a2 = a2
  Agents = {a1, a2}
  MaxRevision = 2
  MaxTurns = 1
  MaxEvents = 1
  AgentLimits = {1, 2}
  CacheLag = TRUE
  Malformed <- OneMalformed
INVARIANT TypeOK
INVARIANT CursorCoversAnswer
INVARIANT ReportTruthful
PROPERTY RevisionNeverBack
PROPERTY RevisionReached
CHECK_DEADLOCK FALSE
