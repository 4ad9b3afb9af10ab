SPECIFICATION FairSpec
CONSTANTS
  MaxTurns = 2
  MaxProcs = 2
  MaxCuts = 1
  MaxRubbish = 1
INVARIANT Consistent
 
PROPERTY RunEnds
CHECK_DEADLOCK FALSE
