SPECIFICATION FairSpec
CONSTANTS
  k1 = k1
  k2 = k2
  t1 = t1
  t2 = t2
  Nobody = Nobody
  Publisher = Publisher
  Peers <- MCPeers
  Threads <- MCThreads
  MaxCommands <- TwoAndOneCommands
INVARIANTS
  ClientIdsUnique
  OneHandlerPerSession
  CommandsInOrder
PROPERTIES
  WalkUndisturbed
  CommandsShown
