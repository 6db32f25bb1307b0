SPECIFICATION Spec
CONSTANTS
  Node <- ThreeLevels
  MaxDepth = 3
  MaxParallel = 2
  MaxSteps <- Twice
  MaxAttempts = 2
  Crashes = TRUE
  MaxRuns = 2
CHECK_DEADLOCK FALSE
INVARIANT KilledIsResumed
