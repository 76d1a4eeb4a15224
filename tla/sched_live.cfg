SPECIFICATION FairSpec
CONSTANTS
  c1 = c1
  t1 = t1
  t2 = t2
  k1 = k1
  NoThread = NoThread
  NoCpu = NoCpu
  Cpus = {c1}
  Threads = {t1, t2}
  Callers = {k1}
  Prios = {0, 1}
  Band = {0}
  Workloads = {{"suspend", "watchdog"}, {"block", "wake", "watchdog"},
               {"levels", "exit", "watchdog"}, {"block", "terminate", "watchdog"}}
  MaxSuspend = 1
PROPERTY ReadyRuns
PROPERTY FibersComply
CHECK_DEADLOCK FALSE
