SPECIFICATION FairSpec
CONSTANTS
  Node <- TwoLevels
  MaxDepth = 3
  Fp = {0, 1}
  MaxParallel = 2
  MaxSteps = 8
  Verbs = {"split", "complete", "reopen", "fail"}
  Interactive = FALSE
  Gated <- FirstLeaf
  GitFails = FALSE
  Conflicts = TRUE
  Crashes = TRUE
  Interrupts = FALSE
  MaxRuns = 2
  MaxRetries = 0
  MaxObservers = 0
CHECK_DEADLOCK FALSE
INVARIANT RootDelivered
PROPERTIES HeadlessEnds Resolved
