\* Two launches of a browser, VS Code or a plain application, and a shutdown.
SPECIFICATION FairSpec
CONSTANTS
  Apps = {web, code, app}
  Browsers = {web}
  Code = {code}
  Proxies = {p1, p2}
  Closers = {c1}
  MaxLaunches = 2
INVARIANTS TypeOK TrackedBridgeOpen NoBridgeLeak TrackedHasMonitor
PROPERTIES TrackedWhileAlive EntriesRemoved
CHECK_DEADLOCK FALSE
