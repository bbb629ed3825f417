SPECIFICATION FairSpec
CONSTANTS
  a1 = a1
  a2 = a2
  Agents = {a1}
  MaxRevision = 1
  MaxTurns = 2
  MaxEvents = 1
  AgentLimits = {1}
  CacheLag = FALSE
  Malformed <- NoneMalformed
PROPERTY StopCleared
CHECK_DEADLOCK FALSE
