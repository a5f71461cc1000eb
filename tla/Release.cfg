SPECIFICATION Spec
CONSTANTS
  Releases = {r1, r2, broken}
  Broken = {broken}
  Initial = r1
  None = None
  Traffic = 10
  Budget = 5
  Intervals <- CutWindows
  MaxTime = 14
  MaxReleases = 1
  MaxTroubles = 1
  MaxLost = 5
INVARIANTS TypeOK AnswersAreCounted NoSilentBurn AlertsClear
PROPERTIES BadReleaseStopped AbortHasCause
CHECK_DEADLOCK FALSE
