SPECIFICATION FairSpec
CONSTANTS
  Tools = {"bash", "nosuch"}
  KnownTools = {"bash"}
  Subjects = {"a", "b"}
  RuleFiles <- AllFiles
  MaxTurns = 2
  MaxCalls = 1
  Faults = {"cancel", "kill", "log"}
INVARIANTS DenialsExplained LogGapless AuditTrail ClosedOnce NeverOverstates
PROPERTY Terminates
CHECK_DEADLOCK FALSE
