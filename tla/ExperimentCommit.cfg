SPECIFICATION Spec
CONSTANTS
  Names = {n1, n2}
  MaxHandles = 2
  Flaky = FALSE
  MaxSpend = 2
  MaxCost = 2
  Plan <- MCPlan
  Pasts <- MCPasts
PROPERTIES CommitViolationReal
CHECK_DEADLOCK FALSE
