\* Connections of process trees; no pid is given twice.
SPECIFICATION Spec
CONSTANTS
  Pids = {l, q1, q2, q3, q4}
  Launcher = l
  Proxies = {p1, p2}
  Conns = {c1}
  MaxDepth = 2
  Reuse = FALSE
  Direct = Direct
  NoPid = NoPid
SYMMETRY Symmetric
INVARIANTS TypeOK NeverAnothersProxy LivingTreeIsProxied
CHECK_DEADLOCK FALSE
