CONSTANTS
  Garbled = Garbled
  NoBlock = NoBlock
  genesis = genesis
  child = child
  fork = fork
  Blocks = {genesis, child, fork}
  Conns <- MCConns
  Number <- MCNumber
  Messages <- MCMessages
  MaxMessages = 2
SPECIFICATION Spec
INVARIANTS StoppedServerIsEmpty PiecesAreIrrelevant AdvertisedIsHeld
PROPERTIES ClosedPeersLeave
CHECK_DEADLOCK FALSE
