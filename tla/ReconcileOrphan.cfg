SPECIFICATION Spec
CONSTANTS
  Specs <- OneSpec
  Tracked = {"Rollout"}
  NoClaim = NoClaim
  Gone = Gone
  Edited = Edited
  Phases = {"Healthy"}
  NsLag = TRUE
  MaxGen = 1
  MaxClaims = 1
  MaxTampers = 0
  MaxFaults = 0
  MaxRestarts = 0
  MaxTroubles = 0
  MaxLag = 2
INVARIANTS FinalizerGuardsNamespace
CHECK_DEADLOCK FALSE
