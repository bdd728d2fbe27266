CONSTANTS
  N = 3
  None = none
  MaxFrame = 2
  MaxGame = 2
  MaxLeave = 1
  MaxDrift = 1
SPECIFICATION Spec
CONSTRAINT NotStale
INVARIANTS TypeOK NoFalseAlarm BlameIsRight DesyncFound
CHECK_DEADLOCK FALSE
