SPECIFICATION Spec
CONSTANTS
  Node <- ThreeLevels
  MaxDepth = 3
  Fp = {0, 1}
  MaxParallel = 2
  MaxSteps = 8
  Verbs = {"split", "complete", "fail"}
  Interactive = FALSE
  Gated <- FirstLeaf
  GitFails = TRUE
  Conflicts = TRUE
  Crashes = TRUE
  Interrupts = TRUE
  MaxRuns = 2
  MaxRetries = 0
  MaxObservers = 0
CHECK_DEADLOCK FALSE
INVARIANTS TypeOK TreeWellFormed NoLeakedWorktree
PROPERTY DeliveryHolds
