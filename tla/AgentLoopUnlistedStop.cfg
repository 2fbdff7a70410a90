SPECIFICATION Spec
CONSTANTS
  Tools = {"bash", "nosuch"}
  KnownTools = {"bash"}
  Subjects = {"a", "b"}
  RuleFiles <- OneFile
  MaxTurns = 1
  MaxCalls = 1
  Faults = {}
INVARIANT UnlistedStopEndsTurn
CHECK_DEADLOCK FALSE
