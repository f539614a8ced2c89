SPECIFICATION Spec
CONSTANTS
  Findings = {f1, f2}
  MaxVersion = 1
  MaxRevision = 3
  MaxFaults = 1
  MaxCrashes = 0
INVARIANTS NeverOlder
CHECK_DEADLOCK FALSE
