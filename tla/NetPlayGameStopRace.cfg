CONSTANTS
  Player = {1, 2}
  PadCount = 2
  PadMap <- TwoPads
  Batching = TRUE
  Targets = {0}
  MaxGame = 1
  MaxFrame = 1
  MaxAdjust = 0
  MaxStop = 1
  MaxDrop = 0
SPECIFICATION FairSpec
PROPERTY StopEndsWaiting
CHECK_DEADLOCK FALSE
