SPECIFICATION FairSpec
CONSTANTS
  Clients = {c1, c2}
  Servers = {}
  Where <- OneServer
  Batched = {c1}
  UseFec = {c1}
  IpPackets <- SomePackets
INVARIANTS TypeOK CopiesAreOwned RulesDoNotPileUp ResetsStayDropped FilterIsExact
PROPERTIES  ResetCompletes
