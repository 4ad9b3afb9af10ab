SPECIFICATION FairSpec
CONSTANTS
  MaxTargets = 3
  MaxTasks = 2
  Doubled = {}
  MaxIframes = 1
  MaxPending = 1
INVARIANT Consistent
INVARIANT FocusTracked
INVARIANT OneRecovery
PROPERTY FocusRecovered
CHECK_DEADLOCK FALSE
