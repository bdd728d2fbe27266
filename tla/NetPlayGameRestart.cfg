CONSTANTS
  Player = {1, 2}
  PadCount = 2
  PadMap <- TwoPads
  Batching = FALSE
  Targets = {0}
  MaxGame = 2
  MaxFrame = 1
  MaxAdjust = 0
  MaxStop = 1
  MaxDrop = 0
SPECIFICATION Spec
CONSTRAINT NoMissedStop
INVARIANT NoLostWakeup
PROPERTY InputsInOrder
CHECK_DEADLOCK FALSE
