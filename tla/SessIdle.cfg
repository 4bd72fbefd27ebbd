SPECIFICATION FairSpec
CONSTANTS
  MaxSessions = 3
  MaxMsgs = 2
  MaxFaults = 1
  Turns = {t1}
  Closers = {c1, c2}
  Drivers = {}
  Watcher = Watcher
  ExitHook = ExitHook
  MayExit = FALSE
INVARIANTS
  OlderIsClosing
PROPERTIES
  IdleIsClosed
CHECK_DEADLOCK FALSE
