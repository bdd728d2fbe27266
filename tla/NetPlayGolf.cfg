CONSTANTS
  N = 2
  MaxPoll = 5
  MaxRequest = 2
SPECIFICATION Spec
CONSTRAINT NotEarly
INVARIANTS TypeOK OneGolfer InputsAgree NoKickInTime GolferFed StopWakes
CHECK_DEADLOCK FALSE
