CONSTANTS
  MaxRecord = 2
  MaxBytes = 5
SPECIFICATION Spec
INVARIANT StreamIntact
PROPERTY AllDelivered
CHECK_DEADLOCK FALSE
