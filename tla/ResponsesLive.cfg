SPECIFICATION FairSpec
CONSTANTS
  MaxGens = 2
  MaxTurns = 1
  MaxPrefills = 2
  Interrupt = TRUE
  Faults = {}
INVARIANTS
  NewestKeepsToken
PROPERTIES
  EverythingEnds
CHECK_DEADLOCK FALSE
