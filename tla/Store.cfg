SPECIFICATION StoreSpec
CONSTANTS
  MaxSessions = 2
  MaxMsgs = 2
  MaxFaults = 2
  Turns = {t1, t2}
  Closers = {c1}
  Drivers = {p1, b1}
  Parsable = {p1}
  Watcher = Watcher
  ExitHook = ExitHook
  MayExit = TRUE
SYMMETRY StoreSymmetry
INVARIANTS
  StoreTypeOK
  RegisteredIsScheduled
  IndexFollowsRow
PROPERTIES
  CoverageGrows
CHECK_DEADLOCK FALSE
