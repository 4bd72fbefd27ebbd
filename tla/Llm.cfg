SPECIFICATION FairSpec
CONSTANTS
  Streams = {g1, g2, g3, g4, g5}
  NoStream = NoStream
  Turns = {t1, t2}
  Others = {o1}
  MayAbandon = TRUE
INVARIANTS
  LockInv
  NoOrphanStream
PROPERTIES
  ImplementsSerial
  EveryCallServed
