SPECIFICATION Spec
CONSTANTS
  Conns = {c1, c2}
  NoConn = NoConn
  Tasks = {t1, t2}
  NoTask = NoTask
  MaxTts = 0
  MaxHeard = 1
  QLen = 1
  MaxChunks = 0
  AllowText = FALSE
  DecodeMayFail = FALSE
  MayReload = TRUE
SYMMETRY TaskSymmetry
INVARIANTS
  AwaitedIsCancelled
CHECK_DEADLOCK FALSE
