SPECIFICATION MCSpec
CONSTANTS
  c1 = c1
  c2 = c2
  t1 = t1
  t2 = t2
  k1 = k1
  NoThread = NoThread
  NoCpu = NoCpu
  Cpus = {c1, c2}
  Threads = {t1, t2}
  Callers = {k1}
  Prios = {0, 1}
  Band = {0}
  Workloads = {{"block", "affinity"}, {"yield", "affinity"}, {"affinity", "suspend"},
               {"terminate", "block"},
               {"alone", "priority", "yield", "watchdog", "background", "wake"},
               {"alone", "suspend", "block", "hardwait"},
               {"alone", "suspend", "terminate", "exit"},
               {"alone", "terminate", "exit", "block", "hardwait", "crash"}}
  MaxSuspend = 1
 
INVARIANT NoSleepThroughWork
INVARIANT NoStrandedThread
INVARIANT FreedForGood
SYMMETRY Sym
CHECK_DEADLOCK FALSE
