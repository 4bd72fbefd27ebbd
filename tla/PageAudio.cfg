SPECIFICATION AudioSpec
CONSTANTS
  MaxChunks = 2
  MaxSeq = 1
  MaxId = 3
  MaxTime = 3
  Durations = {1, 2}
  MaxAwaits = 2
INVARIANTS
  AudioTypeOK
  NoGap
  NoOverlap
  OffMeansSilent
  ShownIsTold
  StopIsComing
PROPERTIES
  ImplementsPlayer
CHECK_DEADLOCK FALSE
