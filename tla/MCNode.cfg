CONSTANTS
  g = g
  a1 = a1
  a2 = a2
  b1 = b1
  b2 = b2
  z = z
  t1 = t1
  t2 = t2
  x = x
  y = y
  NoBlock = NoBlock
  TxPoWs <- MCTxPoWs
  Parent <- MCParent
  Number <- MCNumber
  SuperLevel <- MCSuperLevel
  DifficultyWeight <- MCDifficultyWeight
  Coins = {x, y}
  Inputs <- MCInputs
  Outputs <- MCOutputs
  TxnList <- MCTxnList
  Ahead = {b1}
  KeepDepth = 1
  Capacity = 2
  CheckpointDepth = 1
  LevelsMax = 2
  LevelNodes = 1
  Batches <- MCBatches
  MaxQueue = 1
  Genesis = g
  DiskFails = TRUE
SPECIFICATION Spec
INVARIANTS AppliedOnce DiskMatchesMemory LongestChainSurvives
PROPERTIES LinearMeansExtension
