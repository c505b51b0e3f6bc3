SPECIFICATION Spec
CONSTANTS
  None = None
  k1 = k1
  k2 = k2
  Keys <- TwoKeys
  Flows = {f1, f2}
  Socks = {s1, s2}
  Handles = {h1}
  IPv6Handles = {}
  Apps = {a1}
  Sharding = 2
  ShardOf <- OwnShards
  ChanCap = 1
  Prompt = FALSE
  Batch = TRUE
SYMMETRY PoolSymmetry
INVARIANTS TypeOK DeliveredNotOrphan TableHoldsOpenSockets CloseMissesAtMostOne
PROPERTY FlowsStayRemoved
CHECK_DEADLOCK FALSE
