SPECIFICATION Spec
CONSTANTS
  None = None
  k1 = k1
  k2 = k2
  Keys <- OneKey
  Flows = {f1, f2}
  Socks = {s1}
  Handles = {h1}
  IPv6Handles = {}
  Apps = {}
  Sharding = 1
  ShardOf <- SameShard
  ChanCap = 1
  Prompt = TRUE
  Batch = FALSE
INVARIANT AcceptedIsNotOrphan
CHECK_DEADLOCK FALSE
