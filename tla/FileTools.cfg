SPECIFICATION FileSpec
CONSTANTS
  Root <- WRoot
  Paths <- Spellings
  Files <- InAndOut
  FileAt <- Linked
  Tokens = {"x"}
  MaxLen = 2
  Background = TRUE
INVARIANT EditsAreInformed
PROPERTIES NeverRefusedAlone Confined
