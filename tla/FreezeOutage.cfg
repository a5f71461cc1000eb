SPECIFICATION Spec
CONSTANTS
  Images = {i1}
  Reasons = {r1}
  Absent = Absent
  Blank = Blank
  Users = {}
  Objective = 9900
  Samples <- FewSamples
  StaleReads = TRUE
  MaxLag = 2
PROPERTIES LastDecisionStands
CHECK_DEADLOCK FALSE
