SPECIFICATION Spec
CONSTANTS
  Findings = {f1, f2}
  MaxVersion = 2
  MaxRevision = 3
  MaxFaults = 2
  MaxCrashes = 1
SYMMETRY Symmetry
CONSTRAINT NothingUndone
INVARIANTS SuccessIsDurable CurrentProjections
PROPERTIES KeepsFindings
CHECK_DEADLOCK FALSE
