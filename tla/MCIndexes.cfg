CONSTANTS
  x = x
  y = y
  Coins = {x, y}
  Numbers = {0, 1}
  Window = 0
  MaxLeaves = 3
  Blocks <- MCBlocks
  SuperLevel <- MCSuperLevel
  DifficultyWeight <- MCDifficultyWeight
  LevelsMax = 3
  LevelNodes = 1
  MaxLength = 6
  Base = 4
  Width = 2
  FirstBlocks = 2
  SpeedCalc = 2
  MedianCalc = 3
  TargetTime = 2
  MaxBound = 4
  Gaps <- MCGaps
  MaxChain = 9
  ZeroID = ZeroID
  g = g
  k = k
  a1 = a1
  a2 = a2
  b1 = b1
  TxPoWs <- MCTxPoWs
  SuperParent <- MCParent
  BlockNumber <- MCNumber
  Inputs <- MCInputs
  Outputs <- MCOutputs
  Named <- MCTxPoWs
  MaxDepth = 4
  PoolSize = 2
SPECIFICATION IndexSpec
INVARIANTS PruningOrderIsIrrelevant RetargetIsDue CoinsAreProved
PROPERTIES ImplementsLedger WeightLostIsBounded CallsSettle
CHECK_DEADLOCK FALSE
