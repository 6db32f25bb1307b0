SPECIFICATION Spec
CONSTANTS
  Node <- TwoLevels
  MaxDepth = 3
  Fp = {0}
  MaxParallel = 2
  MaxSteps = 4
  Verbs = {"split", "complete", "fail"}
  Interactive = TRUE
  Gated <- FirstLeaf
  GitFails = FALSE
  Conflicts = TRUE
  Crashes = FALSE
  Interrupts = FALSE
  MaxRuns = 1
  MaxRetries = 1
  MaxObservers = 1
CHECK_DEADLOCK FALSE
INVARIANTS AcceptedIsCommitted NoZombieRunning
