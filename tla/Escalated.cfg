SPECIFICATION FairSpec
CONSTANTS
  Node <- FourLevels
  MaxDepth = 4
  MaxParallel = 2
  MaxSteps <- DeepThenShort
  MaxAttempts = 2
  Crashes = TRUE
  MaxRuns = 2
CHECK_DEADLOCK FALSE
INVARIANTS TypeOK SuspendedHasCause NoneWedged
PROPERTY RunsEnd
