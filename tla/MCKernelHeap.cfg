CONSTANTS
  Thread = {t1, t2}
  Frames = {12, 36}
  PMM_FRAME_SIZE = 12
  HEADER = 2
  WORD = 32
  Sizes = {1, 4, 11, 31}
  NULL = NULL
SPECIFICATION FairSpec
INVARIANTS TypeOK Tiles LiveKept InUseIsOwned Coalesced
PROPERTIES FreeEnds
CHECK_DEADLOCK FALSE
