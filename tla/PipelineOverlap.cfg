SPECIFICATION FairSpec
CONSTANTS
  a1 = a1
  a2 = a2
  b = b
  Postings <- TwoPostings
  KeyOf <- TwoKeyOf
  DomainOf <- TwoDomainOf
  RateCap <- MCRateCap
  Pipes = {api, cli}
  Hour = 1
  MaxClock = 0
  MaxAborts = 2
INVARIANT NoDoubleSubmission
PROPERTY SeenIsScreened
CHECK_DEADLOCK FALSE
