CONSTANTS
  N = 2
  MaxPoll = 3
  MaxRequest = 1
SPECIFICATION FairSpec
PROPERTY WaitEnds
CHECK_DEADLOCK FALSE
