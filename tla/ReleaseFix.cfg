SPECIFICATION Spec
CONSTANTS
  Releases = {r1, broken}
  Broken = {broken}
  Initial = broken
  None = None
  Traffic = 10
  Budget = 5
  Intervals <- CutWindows
  MaxTime = 8
  MaxReleases = 1
  MaxTroubles = 0
  MaxLost = 0
PROPERTIES FixNotTrapped
CHECK_DEADLOCK FALSE
