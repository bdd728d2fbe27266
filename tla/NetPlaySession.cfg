CONSTANTS
  Host = h
  Guest = {g1, g2}
  None = none
  MaxPlayers = 3
  PadCount = 2
  MaxEvent = 2
SPECIFICATION Spec
SYMMETRY Symmetry
INVARIANTS TypeOK PeerOwnsPlayer RosterAgrees PadMapAgrees NoGhostPad GoneIsRemoved
CHECK_DEADLOCK FALSE
