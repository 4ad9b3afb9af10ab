SPECIFICATION FairSpec
CONSTANTS
  MaxAttempts = 3
  Overlap = FALSE
  MaxClients = 7
  MaxStarts = 3
INVARIANT Consistent
INVARIANT StoppedIsQuiet
PROPERTY HandlersReleased
PROPERTY StopCompletes
PROPERTY ImplementsConnStatus
CHECK_DEADLOCK FALSE
