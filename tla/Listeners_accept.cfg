SPECIFICATION FairSpec
CONSTANTS
  N = 2
  Conns = {c1, c2, c3}
  QueueCap = 2
  ChanCap = 1
  None = None
INVARIANT TypeOK
PROPERTIES KeepsEachQueue OfferedIsAccepted CancelEndsAccept CancelEndsForwarders
CHECK_DEADLOCK FALSE
