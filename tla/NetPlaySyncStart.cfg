CONSTANTS
  Player = {1, 2, 3}
  Saves = 1
  MaxAttempt = 2
  MaxAbort = 0
  MaxFail = 0
  MaxLeave = 0
SPECIFICATION FairSpec
INVARIANT TypeOK
PROPERTIES SavesBeforeStart PendingEnds
CHECK_DEADLOCK FALSE
