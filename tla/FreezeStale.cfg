SPECIFICATION FairSpec
CONSTANTS
  Images = {i1}
  Reasons = {r1}
  Absent = Absent
  Blank = Blank
  Users = {}
  Objective = 9900
  Samples <- AllSamples
  StaleReads = TRUE
  MaxLag = 2
INVARIANTS SettledReadingsDecide
PROPERTIES ExhaustionFreezes RecoveryUnfreezes
CHECK_DEADLOCK FALSE
