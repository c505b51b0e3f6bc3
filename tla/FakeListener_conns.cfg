SPECIFICATION FairSpec
CONSTANTS
  Keys = {k1}
  Conns = {c1, c2}
  ConnCap = 1
  RecvCap = 1
  Prompt = TRUE
  None = None
INVARIANTS TypeOK OpenIsRegistered OneOpenPerAddress
PROPERTIES ClosedMakesRoom 
CHECK_DEADLOCK FALSE
