SPECIFICATION FairSpec
CONSTANTS
  MaySignal = FALSE
PROPERTIES
  ModelEndsWithApp
CHECK_DEADLOCK FALSE
