SPECIFICATION FairSpec
CONSTANTS
  Lines = 3
  Capacity = 2
  Limit = 2
  Server = {s1, s2}
  Ask = {a1}
  MaxTurns = 1
  Requests = 2
  Starts = 3
  Beside = FALSE
  Races = FALSE
  Walk <- Family
  ParentOf <- FamilyParent
  AtStart <- Alone
  Worker = {w1}
  Text = {x, y}
  Goal = {g}
  Commands = 1
  MidRun = FALSE
  Scribe = {h1, h2}
  MemoryLines = 3
  Notes = 2
  MidWrite = FALSE
  Given = {a, b}
  Spaces = FALSE
  Width = 2
  MaxKids = 3
CHECK_DEADLOCK FALSE
INVARIANTS
  TypeOK NothingLeftRunning PassIsProven OneAgent PlanIsOwn NoPhantom
  BranchConstrained GoalShown ForgeryShows EntryIsOwn Schedulable SameMeaning
PROPERTIES NeverBlockedByOutput WaitEnds SettledStays EveryTurnSettles
