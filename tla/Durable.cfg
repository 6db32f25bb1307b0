SPECIFICATION Spec
CONSTANTS
  Node <- ThreeLevels
  MaxDepth = 3
  Fp = {0}
  MaxParallel = 2
  MaxSteps = 9
  Verbs = {"split", "complete", "reopen", "fail"}
  Interactive = FALSE
  Gated <- FirstLeaf
  GitFails = FALSE
  Conflicts = TRUE
  Crashes = FALSE
  Interrupts = TRUE
  MaxRuns = 2
  MaxRetries = 0
  MaxObservers = 0
CHECK_DEADLOCK FALSE
INVARIANTS DependenciesFirst AcceptedIsCommitted NoZombieRunning
