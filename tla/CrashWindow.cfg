SPECIFICATION Spec
CONSTANTS
  Node <- TwoLevels
  MaxDepth = 3
  Fp = {0}
  MaxParallel = 2
  MaxSteps = 6
  Verbs = {"split", "complete"}
  Interactive = FALSE
  Gated <- FirstLeaf
  GitFails = FALSE
  Conflicts = FALSE
  Crashes = TRUE
  Interrupts = FALSE
  MaxRuns = 2
  MaxRetries = 0
  MaxObservers = 0
CHECK_DEADLOCK FALSE
INVARIANT WorkSurvivesCrash
