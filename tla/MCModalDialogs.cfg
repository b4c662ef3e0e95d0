SPECIFICATION FairSpec
CONSTANTS
  d1 = d1
  d2 = d2
  d3 = d3
  Dialogs <- MCDialogs
  MAIN = MAIN
CHECK_DEADLOCK FALSE
INVARIANTS TypeOK QuitsAccounted CanBeQuit
PROPERTIES RefusedOutOfTurn ReturnsWhenQuit QuitReturns
