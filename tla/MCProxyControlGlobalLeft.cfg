\* A start request that overlaps a launch leaves the global proxy in the tunnel.
SPECIFICATION Spec
CONSTANTS
  Threads = {t1, t2}
  Proxies = {p1}
  Supported = {p1}
  Pids = {q1}
  NoThread = NoThread
  NoProxy = NoProxy
  NoPid = NoPid
  Overlap = TRUE
  MaxRequests = 2
  MaxEpoch = 2
INVARIANT UnrelatedGoDirectAtRest
CHECK_DEADLOCK FALSE
