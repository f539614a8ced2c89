SPECIFICATION Spec
CONSTANTS
  Agents = {a1}
  MaxRuns = 2
  MaxRequest = 3
  Quotes = {0, 1}
  Budgets = {3, 4}
  PriorCost = 1
  Allowance = 2
  Concurrency = 2
  SearchPrice = 1
  MaxCalls = 1
  SearchBudget = 1
INVARIANTS QuotesStayCounted NoGhostQuotes SpendWithinAllowance SearchesWithinCap
CHECK_DEADLOCK FALSE
