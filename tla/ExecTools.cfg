SPECIFICATION ToolSpec
CONSTANTS
  MaxJobs = 2
  Codes = {0, 1, 2}
  MaxOut = 3
  OutputLimit = 4
PROPERTIES ResultIsOutcome ReturnsUnlessHeld AnswersTellTheOutcome
CHECK_DEADLOCK FALSE
