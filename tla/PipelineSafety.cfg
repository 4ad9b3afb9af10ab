SPECIFICATION Spec
CONSTANTS
  a1 = a1
  a2 = a2
  b = b
  Postings <- MCPostings
  KeyOf <- MCKeyOf
  DomainOf <- MCDomainOf
  RateCap <- MCRateCap
  Pipes = {api}
  Hour = 1
  MaxClock = 3
  MaxAborts = 2
INVARIANT RateLimited
INVARIANT SubmittedOnlyIfPassed
INVARIANT NothingDropped
CHECK_DEADLOCK FALSE
