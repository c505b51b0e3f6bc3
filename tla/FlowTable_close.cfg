SPECIFICATION FairSpec
CONSTANTS
  None = None
  k1 = k1
  k2 = k2
  Keys <- OneKey
  Flows = {f1, f2}
  Socks = {s1}
  Handles = {h1, h2}
  IPv6Handles = {h2}
  Apps = {}
  Sharding = 1
  ShardOf <- SameShard
  ChanCap = 1
  Prompt = FALSE
  Batch = FALSE
PROPERTY CloseEndsGoroutines
CHECK_DEADLOCK FALSE
