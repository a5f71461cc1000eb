SPECIFICATION Spec
CONSTANTS
  Images = {i1, i2}
  Reasons = {r1, r2}
  Absent = Absent
  Blank = Blank
  Users = {u1}
  Objective = 9900
  Samples <- FewSamples
  StaleReads = FALSE
  MaxLag = 1
INVARIANTS TypeOK FreezeTracksBudget
PROPERTIES LastDecisionStands ImplementsPolicy OverridesAreAudited
CHECK_DEADLOCK FALSE
SYMMETRY Interchangeable
