SPECIFICATION Spec
CONSTANTS
  MaxGens = 2
  MaxTurns = 1
  MaxPrefills = 1
  Interrupt = TRUE
  Faults = {}
INVARIANTS
  CancelledOnlyOnRequest
CHECK_DEADLOCK FALSE
