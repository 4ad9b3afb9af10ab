SPECIFICATION RoutingSpec
CONSTANTS
  Labels <- MCLabels
  BlockIds <- MCBlockIds
  MaxResumes = 3
  MaxBlocks = 2
INVARIANT SentAsRouted
INVARIANT AppliesWithScreenedIfDistinct
INVARIANT TailoredInFull
CHECK_DEADLOCK FALSE
