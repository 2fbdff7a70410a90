SPECIFICATION FairSpec
CONSTANTS
  Names = {n1, n2}
  MaxHandles = 2
  Flaky = TRUE
  MaxSpend = 1
  MaxCost = 1
  Plan <- MCPlan
  Pasts <- MCPasts
INVARIANTS TypeOK CleanedUp CountedWithinBudget VerdictIsGrounded
PROPERTIES OthersUntouched JudgedByTheWorkspace OnlyEvidenceCounts Finishes
CHECK_DEADLOCK FALSE
