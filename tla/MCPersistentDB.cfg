CONSTANTS
  g = g
  a1 = a1
  a2 = a2
  b1 = b1
  b2 = b2
  x = x
  y = y
  NoBlock = NoBlock
  TxPoWs <- MCTxPoWs
  Parent <- MCParent
  Number <- MCNumber
  SuperLevel <- MCSuperLevel
  DifficultyWeight <- MCDifficultyWeight
  Coins = {x, y}
  Inputs <- MCInputs
  Outputs <- MCOutputs
  Capacity = 1
  CheckpointDepth = 1
  LevelsMax = 2
  LevelNodes = 1
  Genesis = g
  BlockTime <- MCBlockTime
  MaxAdds = 5
  MaxFailures = 2
SPECIFICATION Spec
INVARIANTS ViewsAgree SavedTogether DiskAnswersLikeMemory
