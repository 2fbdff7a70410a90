SPECIFICATION AttachedSpec
CONSTANTS
  Tools = {"bash", "odd"}
  KnownTools = {"bash"}
  Subjects = {"a", "b", "c"}
  RuleFiles <- OneFile
  MaxTurns = 1
  MaxCalls = 2
  Faults = {"log", "kill"}
INVARIANTS AgreesWithRun NeverAhead
CHECK_DEADLOCK FALSE
