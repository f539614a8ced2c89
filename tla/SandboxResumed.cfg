SPECIFICATION Spec
CONSTANTS
  Starters = {s1}
  StartFails = FALSE
  MaxBoxes = 1
  MaxRuns = 2
INVARIANTS StrandedIsReported
CHECK_DEADLOCK FALSE
