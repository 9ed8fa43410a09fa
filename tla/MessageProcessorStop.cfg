CONSTANTS
  Messages = {m1}
  MaxStarts = 1
SPECIFICATION FairSpec
PROPERTIES StopReturns
CHECK_DEADLOCK FALSE
