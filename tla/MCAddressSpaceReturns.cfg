CONSTANTS
  NULL = NULL
  PAGE = 2
  WORD = 16
  Starts = {2, 4, 6}
  Lengths = {2}
SPECIFICATION FairSpec
PROPERTIES CreateReturns
CHECK_DEADLOCK FALSE
