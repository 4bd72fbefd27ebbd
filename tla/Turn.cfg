SPECIFICATION FairSpec
CONSTANTS
  NoCall = NoCall
  Calls = {k1, k2, u, b}
  Known = {k1, k2, b}
  BadJson = {b}
  Tts = TRUE
  MaxToolSteps = 2
  HistoryWindow = 3
  MaxCalls = 2
  MaxStored = 5
INVARIANTS
  TypeOK
  NoRepeat
  ReplySawResults
PROPERTIES
  ImplementsStream
  TurnEnds
CHECK_DEADLOCK FALSE
