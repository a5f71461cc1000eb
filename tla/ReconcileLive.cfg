SPECIFICATION FairSpec
CONSTANTS
  Specs <- FixableSpecs
  Tracked = {"Rollout"}
  NoClaim = NoClaim
  Gone = Gone
  Edited = Edited
  Phases = {"Degraded"}
  NsLag = FALSE
  MaxGen = 2
  MaxClaims = 2
  MaxTampers = 1
  MaxFaults = 1
  MaxRestarts = 1
  MaxTroubles = 1
  MaxLag = 1
INVARIANTS FinalizerGuardsNamespace
PROPERTIES ImplementsLifecycle DeletionCompletes EventuallyConverges
CHECK_DEADLOCK FALSE
