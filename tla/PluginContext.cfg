SPECIFICATION Spec
CONSTANTS
  MaxItems = 5
  MaxConns = 2
  MaxEvents = 2
  MaxMessages = 3
  BootUpdates = FALSE
  ManualTurns = FALSE
INVARIANTS
  ContextInv
  ContextAgrees
  PendingAgrees
CHECK_DEADLOCK FALSE
