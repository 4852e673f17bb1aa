CONSTANTS
  l1 = l1
  l2 = l2
  l3 = l3
  Pool <- MCPool
  Owner = {p1, p2}
  File = {f1, f2}
  Ranges <- MCRanges
  Word = 8
  NULL = NULL
SPECIFICATION Spec
SYMMETRY Symmetry
INVARIANT ConflictFree
