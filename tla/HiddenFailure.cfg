SPECIFICATION Spec
CONSTANTS
  Node <- ThreeLevels
  MaxDepth = 3
  Fp = {0}
  MaxParallel = 2
  MaxSteps = 12
  Verbs = {"split", "complete", "reopen", "fail"}
  Interactive = FALSE
  Gated <- FirstLeaf
  GitFails = FALSE
  Conflicts = FALSE
  Crashes = FALSE
  Interrupts = FALSE
  MaxRuns = 1
  MaxRetries = 0
  MaxObservers = 0
CHECK_DEADLOCK FALSE
INVARIANT FailureSurfaces
