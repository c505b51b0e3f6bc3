SPECIFICATION Spec
CONSTANTS
  DataShards = 3
  ParityShards = 2
  SeqidMod = 64
  RxLimit = 15
  Starts <- NearWrap
  MaxGroups = 2
INVARIANT EnoughShardsRecover
