SPECIFICATION Spec
CONSTANTS
  Node <- FourLevels
  MaxDepth = 4
  MaxParallel = 2
  MaxSteps <- Deep
  MaxAttempts = 2
  Crashes = FALSE
  MaxRuns = 1
CHECK_DEADLOCK FALSE
INVARIANT ReplannedIsResumed
