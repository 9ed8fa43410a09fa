CONSTANTS
  NoBlock = NoBlock
  Threads = {"miner", "peer"}
  MaxMined = 1
  PeerLength = 2
  PeerStarts <- MCPeerStarts
  MinedUntil = 1
  BatchSize = 1
  MaxRetries = 2
  MaxWire = 1
SPECIFICATION FairSpec
INVARIANTS NoTipMissed RequestsTile
CHECK_DEADLOCK FALSE
PROPERTIES TemplateTaken ShutdownEnds
