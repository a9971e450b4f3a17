\* One request at a time, each of which may be refused, fail or be cut short.
SPECIFICATION Spec
CONSTANTS
  Threads = {t1, t2}
  Apps = {a1, a2}
  Overlap = FALSE
  Faults = TRUE
INVARIANT TypeOK
 
SYMMETRY Symmetric
