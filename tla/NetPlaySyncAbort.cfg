CONSTANTS
  Player = {1, 2}
  Saves = 1
  MaxAttempt = 2
  MaxAbort = 1
  MaxFail = 1
  MaxLeave = 1
SPECIFICATION Spec
INVARIANT ChunkThreadAwake
CHECK_DEADLOCK FALSE
