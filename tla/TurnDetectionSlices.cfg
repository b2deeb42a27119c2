SPECIFICATION Spec
CONSTANTS
  NumSessions = 1
  MaxJobs = 1
  Modes = {"smart_turn_v3"}
  MaxVerdicts = 2
  QueueSize = 1
  Window = 1
  MinSpeech = 1
  Continuation = 1
  MinSilence = 2
  Pad = 1
  MaxBuffered = 5
  Keep = 2
  MaxPartial = 2
  PartialEnabled = TRUE
  MaxSamples = 6
  MaxTurns = 2
INVARIANTS
  SlicesHold
CHECK_DEADLOCK FALSE
