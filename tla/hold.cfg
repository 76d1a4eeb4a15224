SPECIFICATION FairSpec
CONSTANTS
  c1 = c1
  c2 = c2
  t1 = t1
  t2 = t2
  NoThread = NoThread
  NoCpu = NoCpu
  Cpus = {c1, c2}
  Threads = {t1, t2}
  Workloads = {{"freeze", "pause"}, {"freeze", "shutdown"}, {"start", "pause", "shutdown", "watchdog"}}
INVARIANT FrozenAlone
INVARIANT QuietWhilePaused
 
CHECK_DEADLOCK FALSE
