CONSTANTS
  Base = 4
  Width = 2
  FirstBlocks = 2
  SpeedCalc = 2
  MedianCalc = 3
  TargetTime = 2
  MaxBound = 4
  Gaps = {2, 3, 6}
  MaxChain = 9
SPECIFICATION DifficultySpec
INVARIANT SlowIsNotHarder
CHECK_DEADLOCK FALSE
