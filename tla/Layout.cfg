SPECIFICATION Spec
CONSTANTS
  CutLoss = 1
  Screens <- SomeScreens
  Terminals <- Sizes
INVARIANTS FrameIsTheTerminal WrapKeepsTheText
