CONSTANTS
  reader = reader
  both = both
  poller = poller
  Thread = {reader, both, poller}
  Program <- MCProgram
  SemInit = 1
  SemMax = 2
  MaxPosts = 3
SPECIFICATION FairSpec
INVARIANTS TypeOK RwExclusion RwAccounting SemConserved SemBounded
PROPERTIES RwProgress
