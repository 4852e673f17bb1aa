CONSTANTS
  NULL = NULL
  PAGE = 2
  WORD = 16
  Starts = {2, 4, 7, 8, 10, 12}
  Lengths = {0, 1, 2, 5}
SPECIFICATION Spec
INVARIANTS TypeOK ListMatchesTree TreeKept FindsContaining
CHECK_DEADLOCK FALSE
