SPECIFICATION FairSpec
CONSTANTS
  Node <- TwoLevels
  MaxDepth = 3
  Fp = {0}
  MaxParallel = 2
  MaxSteps = 6
  Verbs = {"split", "complete"}
  Interactive = FALSE
  Gated <- FirstLeaf
  GitFails = FALSE
  Conflicts = FALSE
  Crashes = FALSE
  Interrupts = FALSE
  MaxRuns = 1
  MaxRetries = 0
  MaxObservers = 1
CHECK_DEADLOCK FALSE
PROPERTY DeliveryHolds
