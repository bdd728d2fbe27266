CONSTANTS
  Player = {1, 2}
  PadCount = 2
  PadMap <- TwoPads
  Batching = TRUE
  Targets = {0, 1}
  MaxGame = 1
  MaxFrame = 3
  MaxAdjust = 1
  MaxStop = 0
  MaxDrop = 0
SPECIFICATION Spec
INVARIANTS TypeOK NoLostWakeup InputDelayBounded
PROPERTY InputsInOrder
CHECK_DEADLOCK FALSE
