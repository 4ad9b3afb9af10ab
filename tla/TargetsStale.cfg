SPECIFICATION Spec
CONSTANTS
  MaxTargets = 3
  MaxTasks = 2
  Doubled = {}
  MaxIframes = 1
  MaxPending = 1
INVARIANT NoStaleSessions
CHECK_DEADLOCK FALSE
