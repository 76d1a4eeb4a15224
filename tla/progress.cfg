SPECIFICATION MCSpec
CONSTANTS
  a = a
  b = b
  d1 = d1
  d2 = d2
  d3 = d3
  f1 = f1
  f2 = f2
  f3 = f3
  f4 = f4
  k1 = k1
  p1 = p1
  p2 = p2
  t1 = t1
  t2 = t2
  t3 = t3
  Dpcs = {d1, d2, d3}
  Fibers = {f1, f2}
  Hosts = {}
  Worker = worker
  Cpus = {p1, p2}
  None = None
  Desired <- DesiredOfEach
  CpuOf <- CpuOfEach
  MaxRequests = 3
  Ops = {"guest", "remove", "timer", "interrupt"}
INVARIANT DeferredHasRunner
 
PROPERTY RequestsEnd
PROPERTY WaitsEnd
PROPERTY StreamsEnd
CHECK_DEADLOCK FALSE
