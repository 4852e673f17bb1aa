CONSTANTS
  Thread = {t1, t2}
  MaxDepth = 2
SPECIFICATION Spec
INVARIANTS MutualExclusion
