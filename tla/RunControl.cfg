SPECIFICATION FairSpec
CONSTANTS
  MaxRuns = 2
  Slots = {1, 2, 3}
  MaxErrors = 1
  MaxUploads = 1
INVARIANT Consistent
INVARIANT ShownIsPolled
PROPERTY ButtonReturns
CHECK_DEADLOCK FALSE
