SPECIFICATION DesktopFairSpec
CONSTANTS
  MaySignal = TRUE
  Voice = Voice
  Typed = Typed
  Proactive = Proactive
  MaxTyped = 1
  MaxUnderWay = 1
INVARIANTS
  DesktopTypeOK
  ReadyMeansAnswered
  EndsWithModel
  PageRests
  InterruptedIsGone
PROPERTIES
  SetupEnds
  ShutdownEnds
  PendingEnds
CHECK_DEADLOCK FALSE
