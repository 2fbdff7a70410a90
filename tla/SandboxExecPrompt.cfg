SPECIFICATION FairSpec
CONSTANTS
  MaxJobs = 1
  Codes = {0, 1, 2}
PROPERTY ReturnsPromptly
CHECK_DEADLOCK FALSE
