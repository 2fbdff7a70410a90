SPECIFICATION FairSpec
CONSTANTS
  MaxLines = 4
  Buffer = 2
  Damage = {"lost", "repeated", "torn", "unknown", "malformed", "refused"}
  Paced = TRUE
INVARIANT ReaderInv
PROPERTIES ImplementsFeed EverythingIsShown CancelEndsAWait
CHECK_DEADLOCK FALSE
