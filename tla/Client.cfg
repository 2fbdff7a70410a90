SPECIFICATION Spec
CONSTANTS
  MaxBlocks = 1
  TrimSlack = 1
  Events <- SomeEvents
  MaxEvents = 4
  Keys = {"scroll", "mode", "scene", "approve", "refuse", "quit"}
  Scenes <- DesignScenes
  Widths = {1, 2}
  Rows = {2}
  Gap = 1
INVARIANTS ClientInv Fresh TranscriptIsTheLog ArrivalDoesNotShow ShowsTheWindow
PROPERTY CostsWhatChanged
CHECK_DEADLOCK FALSE
