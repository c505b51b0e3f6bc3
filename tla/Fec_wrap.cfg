SPECIFICATION Spec
CONSTANTS
  DataShards = 2
  ParityShards = 1
  SeqidMod = 64
  RxLimit = 3
  Starts <- NearWrap
  MaxGroups = 4
INVARIANTS TypeOK RxOrdered EnoughShardsRecover DataChHasRoom
PROPERTY IsDatagramService
