CONSTANTS
  Player = {1, 2}
  PadCount = 2
  PadMap <- TwoPads
  Batching = TRUE
  Targets = {0}
  MaxGame = 1
  MaxFrame = 1
  MaxAdjust = 0
  MaxStop = 2
  MaxDrop = 1
SPECIFICATION FairSpec
CONSTRAINT StopOrDrop
PROPERTIES CoreStopReturns WaitEnds
CHECK_DEADLOCK FALSE
