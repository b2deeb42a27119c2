SPECIFICATION HistorySpec
CONSTANTS
  NumSessions = 3
  MaxJobs = 2
  Partial = {1}
INVARIANTS
  IInv
  OvertakenByEarlierOnly
PROPERTIES
  FinalsAnswered
  ReleaseEnds
CHECK_DEADLOCK FALSE
