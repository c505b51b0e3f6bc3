SPECIFICATION Spec
CONSTANTS
  DataShards = 2
  ParityShards = 1
  SeqidMod = 64
  MaxSamples = 7
  maxShardSets = 1
  Sessions <- AllSessions
  MaxGroups = 3
INVARIANTS TypeOK EncoderAligned HeapsAreRecent EnoughShardsRecover
PROPERTIES InStepRecoversSent TunesToPeer
