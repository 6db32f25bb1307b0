SPECIFICATION FairSpec
CONSTANTS
  Worker <- Two
  Batches <- Mixed
  MaxAttempts <- SecondTry
  Allowance = 6
  SplitFee = 1
  CallTokens = 2
  Offers <- Allocations
  GitFails = TRUE
  LateVerbs = {"complete"}
  Leavers <- First
CHECK_DEADLOCK FALSE
INVARIANTS TypeOK CommitIsOwnWork FailedStaysOut SplitWithinAllowance
PROPERTY AttemptsEnd
