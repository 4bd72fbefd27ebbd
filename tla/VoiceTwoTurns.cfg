SPECIFICATION Spec
CONSTANTS
  Conns = {c1}
  NoConn = NoConn
  Tasks = {t1, t2}
  NoTask = NoTask
  MaxTts = 1
  MaxHeard = 2
  QLen = 2
  MaxChunks = 1
  AllowText = FALSE
  DecodeMayFail = FALSE
  MayReload = FALSE
SYMMETRY TaskSymmetry
INVARIANTS
  OneTurnAtATime
CHECK_DEADLOCK FALSE
