SPECIFICATION Spec
CONSTANTS
  Specs <- TwoImages
  Tracked = {"Role", "AnalysisTemplate", "Rollout"}
  NoClaim = NoClaim
  Gone = Gone
  Edited = Edited
  Phases = {"Healthy"}
  NsLag = FALSE
  MaxGen = 2
  MaxClaims = 1
  MaxTampers = 1
  MaxFaults = 1
  MaxRestarts = 1
  MaxTroubles = 1
  MaxLag = 2
INVARIANTS TypeOK NoFalseDrift TemplateBeforeRollout ReadyMeansRunning
PROPERTIES ObservedGenerationSound
CHECK_DEADLOCK FALSE
