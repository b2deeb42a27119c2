SPECIFICATION FairSpec
CONSTANTS
  Capacity = 8
  MaxText = 10
  MaxSpeak = 10
  TtsMayFail = TRUE
INVARIANTS
  SpeechInv
PROPERTIES
  ResponsesEnd
CHECK_DEADLOCK FALSE
