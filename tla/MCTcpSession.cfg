\* One TCP session, every step of both goroutines and both peers.
SPECIFICATION Spec
CONSTANTS
  MaxBytes = 2
INVARIANTS TypeOK CopiesOnOpenConns
PROPERTIES ImplementsDuplex HalfClosedEnds
CHECK_DEADLOCK FALSE
