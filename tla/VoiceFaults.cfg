SPECIFICATION Spec
CONSTANTS
  Conns = {c1}
  NoConn = NoConn
  Tasks = {t1, t2}
  NoTask = NoTask
  MaxTts = 1
  MaxHeard = 1
  QLen = 2
  MaxChunks = 1
  AllowText = TRUE
  DecodeMayFail = TRUE
  MayReload = FALSE
SYMMETRY TaskSymmetry
INVARIANTS
  TypeOK
  LostReportNotMissed
CHECK_DEADLOCK FALSE
