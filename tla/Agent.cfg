SPECIFICATION FairSpec
CONSTANTS
  MaxSteps = 3
  MaxFailures = 1
  FinalResponse = TRUE
  MaxActions = 2
  WithInitial = TRUE
  WithFallback = TRUE
  MaxTasks = 2
  MaxDrops = 1
INVARIANT StepsNumbered
INVARIANT PerformedIsTold
INVARIANT DoneIsLast
PROPERTY OnlyDoneAfterCap
PROPERTY RunEnds
CHECK_DEADLOCK FALSE
