CONSTANTS
  Conns = {c1, c2}
  NumSlots = 1
  None = None
  SmartTurn = TRUE
SPECIFICATION ServiceFairSpec
INVARIANTS
  ServiceInv
  Released
  SessionsHaveRuntimes
PROPERTIES
  ShutdownEnds
  ExitRevokes
CHECK_DEADLOCK FALSE
