SPECIFICATION Spec
CONSTANTS
  Tools = {"bash", "nosuch"}
  KnownTools = {"bash"}
  Subjects = {"a", "b"}
  RuleFiles <- OneFile
  MaxTurns = 2
  MaxCalls = 2
  Faults = {}
INVARIANTS LoopInv ConversationWellFormed SuspensionIsFinal DenialsCounted SummaryAgrees
PROPERTY ImplementsGovernedLoop
CHECK_DEADLOCK FALSE
