\* Any three requests may overlap, two at a time; every one is answered.
SPECIFICATION FairSpec
CONSTANTS
  Threads = {t1, t2}
  Proxies = {p1}
  Supported = {p1}
  Pids = {q1}
  NoThread = NoThread
  NoProxy = NoProxy
  NoPid = NoPid
  Overlap = TRUE
  MaxRequests = 3
  MaxEpoch = 3
INVARIANTS NoStaleRouter StacksHaveDevices GlobalOnlyByDoubleStart
PROPERTIES RequestsAnswered
CHECK_DEADLOCK FALSE
