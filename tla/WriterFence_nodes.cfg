SPECIFICATION Spec
CONSTANTS
  Writers <- MCOneWriter
  AgentContainer = "agent"
  AdapterBuilt = TRUE
  MaxPods = 2
  MaxClaims = 1
  MaxCrashes = 1
  Happens = {"nodeLoss", "nodeGone", "outOfService", "agentDeleted"}
INVARIANTS TypeOK SingleWriter EvidenceTruthful SuccessorFollowsEvidence DrainRecordTruthful
PROPERTY ReleasedOnOwnEvidence
CHECK_DEADLOCK FALSE
