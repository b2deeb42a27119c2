SPECIFICATION FairSpec
CONSTANTS
  MaxRetries = 1
  MaxConns = 2
  MaxRequests = 2
  MaxResponses = 2
  MaxOutbound = 1
  MaxEvents = 2
INVARIANTS
  SessionInv
  DisconnectIsClean
PROPERTIES
  NoStaleRequest
  EveryRequestAnswered
  CloseEnded
CHECK_DEADLOCK FALSE
