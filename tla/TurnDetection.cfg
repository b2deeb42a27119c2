SPECIFICATION FairSpec
CONSTANTS
  NumSessions = 2
  MaxJobs = 1
  Modes = {"fixed_silence", "smart_turn_v3"}
  MaxVerdicts = 2
  QueueSize = 1
  Window = 3
  MinSpeech = 3
  Continuation = 3
  MinSilence = 3
  Pad = 2
  MaxBuffered = 12
  Keep = 6
  MaxPartial = 6
  PartialEnabled = TRUE
  MaxSamples = 15
  MaxTurns = 2
INVARIANTS
  IInv
  FixedSilenceSlicesHold
  TurnsInOrder
  PartialIsCurrent
PROPERTIES
  EndedTurnsKept
  SilentTurnEnds
CHECK_DEADLOCK FALSE
