SPECIFICATION Spec
CONSTANTS
  Starters = {s1, s2, s3}
  StartFails = TRUE
  MaxBoxes = 3
  MaxRuns = 2
INVARIANTS OwnedSandboxes OneDeletion StrandedIsKnown
CHECK_DEADLOCK FALSE
