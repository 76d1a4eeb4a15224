SPECIFICATION MCSpec
CONSTANTS
  sem = sem
  mut = mut
  c1 = c1
  c2 = c2
  t1 = t1
  t2 = t2
  t3 = t3
  k1 = k1
  NoThread = NoThread
  Cpus = {c1, c2}
  Threads = {t1, t2, t3}
  Callers = {k1}
  Kinds = {"mutant"}
  Ops = {"timeout", "apc"}
  MaxPermits = 1
  MaxDepth = 2
  SetThreads = {t1, t2}
  SetCpuOf <- CpuOfEach
  Objects = {sem, mut}
  KindOf <- KindOfEach
  Waits <- EveryShape
  SetOps = {"signal", "release", "timeout"}
INVARIANT MutantHeldByOne
PROPERTY ImplementsFifoMutex
INVARIANT SetsServed
