SPECIFICATION Spec
CONSTANTS
  c1 = c1
  t1 = t1
  t2 = t2
  k1 = k1
  k2 = k2
  NoThread = NoThread
  NoCpu = NoCpu
  Cpus = {c1}
  Threads = {t1, t2}
  Callers = {k1, k2}
  Prios = {0}
  Band = {0}
  Workloads = {{"suspend", "terminate"}}
  MaxSuspend = 1
INVARIANT ReclaimedForGood
CHECK_DEADLOCK FALSE
