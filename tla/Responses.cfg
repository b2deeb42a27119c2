SPECIFICATION Spec
CONSTANTS
  MaxGens = 2
  MaxTurns = 2
  MaxPrefills = 1
  Interrupt = TRUE
  Faults = {"dead"}
INVARIANTS
  ProducersInv
  BargeInSilences
  PendingCallIsCurrent
  DrainQuiesces
CHECK_DEADLOCK FALSE
