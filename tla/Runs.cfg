SPECIFICATION FairSpec
CONSTANTS
  Callers = {c1, c2}
  MaxRuns = 2
  MaxRows = 2
  MaxFaults = 1
  MaxCrashes = 2
  WithCli = TRUE
INVARIANT SingleFlight
INVARIANT OwnedUnlessFaulty
INVARIANT CountersAreOwn
PROPERTY FinishedIsFinal
PROPERTY ImplementsLedger
PROPERTY EveryRunEnds
PROPERTY RestartRecovers
CHECK_DEADLOCK FALSE
