CONSTANTS
  Host = h
  Joiner = {j}
  None = none
  Tries = 2
  MaxFault = 1
  MaxPing = 1
SPECIFICATION FairSpec
INVARIANTS TypeOK ReadyMeansPunched AnsweredOnce ForgottenIsTrue RetriesSuffice
PROPERTY HelloAnswered
CHECK_DEADLOCK FALSE
