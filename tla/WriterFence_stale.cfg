SPECIFICATION Spec
CONSTANTS
  Writers <- MCOneWriter
  AgentContainer = "agent"
  AdapterBuilt = TRUE
  MaxPods = 2
  MaxClaims = 2
  MaxCrashes = 0
  Happens = {"claimReplaced", "hand", "late", "vanished", "suspended"}
INVARIANTS EvidenceNamesVolume NeverCreatedTruthful
