\* Two holds and two receipts fill their capacity; three attempts exceed it.
CONSTANTS
  MaxAttempt = 3
  MaxRevision = 6
  MaxPending = 2
  MaxQuote = 2
  Limits = {2, 4}
  MaxOpens = 2
  PriorCost = 1
  Reports = {r1}
SPECIFICATION Spec
INVARIANTS
  TypeOK ChargesAreCovered SpendWithinGrant SinglePost FloorCountsOnce
  LedgerKeepsReports
PROPERTIES
  HoldsSurvive KeepsPromise
\* A bounded instance runs out of attempts, revisions and processes.
CHECK_DEADLOCK FALSE
