SPECIFICATION HistorySpec
CONSTANTS
  Sessions = {s1, s2}
  Workers = {w1, w2}
  MaxJobs = 3
  MaxGens = 2
  MaxQueue = 2
  Faults = {"runtime", "frame"}
INVARIANTS
  IInv
  NobodyOvertakesTwice
PROPERTIES
  FinalsBeforeFiller
  JobsServed
CHECK_DEADLOCK FALSE
