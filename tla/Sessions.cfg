CONSTANTS
  Conns = {c1, c2}
  NumSlots = 2
  None = None
SPECIFICATION FairSpec
INVARIANTS
  IInv
PROPERTIES
  QuarantineIsFinal
  ReleasedOnce
  ImplementsPool
  HandlersFinish
CHECK_DEADLOCK FALSE
