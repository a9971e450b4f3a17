SPECIFICATION Spec
CONSTANTS
  Timeout = 2
  MaxQueue = 1
INVARIANTS
  CopiesOnOpenConns
PROPERTIES
  TimeoutMeansQuiet
  SessionEnds
CHECK_DEADLOCK FALSE
