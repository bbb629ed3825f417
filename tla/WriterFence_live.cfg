SPECIFICATION FairSpec
CONSTANTS
  Writers <- MCOneWriter
  AgentContainer = "agent"
  AdapterBuilt = TRUE
  MaxPods = 2
  MaxClaims = 1
  MaxCrashes = 1
  Happens = {"lag"}
PROPERTY DrainedPodLeaves
