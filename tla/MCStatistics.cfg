\* Two sessions that count and are closed by a request while a second passes.
SPECIFICATION ManagerSpec
CONSTANTS
  Sessions = {s1, s2}
  MaxBytes = 2
INVARIANTS NoByteShownTwice TotalsAgree OpenIsListed
SYMMETRY Interchangeable
CHECK_DEADLOCK FALSE
