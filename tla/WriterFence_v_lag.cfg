SPECIFICATION Spec
CONSTANTS
  Writers <- MCOneWriter
  AgentContainer = "agent"
  AdapterBuilt = TRUE
  MaxPods = 3
  MaxClaims = 1
  MaxCrashes = 0
  Happens = {"lag"}
INVARIANT SingleWriter
