CONSTANTS
  File = {f1, f2, f3, f4}
  Inode = {i1, i2, i3}
  Key = {k1, k2}
  NULL = NULL
SPECIFICATION Spec
SYMMETRY Symmetry
INVARIANTS TypeOK RefsExact HeldLive CachedHeld NoLeak
