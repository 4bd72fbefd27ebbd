SPECIFICATION FairSpec
CONSTANTS
  Conns = {c1}
  NoConn = NoConn
  Tasks = {t1, t2}
  NoTask = NoTask
  MaxTts = 1
  MaxHeard = 1
  QLen = 1
  MaxChunks = 1
  AllowText = FALSE
  DecodeMayFail = FALSE
  MayReload = FALSE
INVARIANTS
  NoStrandedMute
  MuteInv
PROPERTIES
  MuteReleased
  StopCompletes
CHECK_DEADLOCK FALSE
