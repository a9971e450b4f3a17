\* Launch and exit requests never overlap another request.
SPECIFICATION Spec
CONSTANTS
  Threads = {t1, t2}
  Proxies = {p1, p2, bad}
  Supported = {p1, p2}
  Pids = {q1, q2}
  NoThread = NoThread
  NoProxy = NoProxy
  NoPid = NoPid
  Overlap = FALSE
  MaxRequests = 4
  MaxEpoch = 4
SYMMETRY Symmetric
INVARIANTS TypeOK UnrelatedGoDirect RegisteringBound NoProxyLoop RoutesTracked RunningIsSo
CHECK_DEADLOCK FALSE
