CONSTANTS
  Proc = {p1, p2}
  Msg = {m1, m2}
  NoMsg = NoMsg
  Receive = Receive
  MAX_MESSAGES_IN_QUEUE = 3
SPECIFICATION FairSpec
INVARIANTS TypeOK LockExclusion RingConsistent
PROPERTIES LockReleased ImplementsFifo
