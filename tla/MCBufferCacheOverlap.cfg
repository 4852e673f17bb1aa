CONSTANTS
  d1 = d1
  d2 = d2
  Device = {d1, d2}
  All = All
  Block <- MCBlock
  Thread = {t1, t2}
  Buf = {b1, b2}
  EvictMax = 2
  Overlap = TRUE
  NULL = NULL
SPECIFICATION Spec
SYMMETRY Symmetry
INVARIANT HeldNotFreed
