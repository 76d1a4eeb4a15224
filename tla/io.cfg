SPECIFICATION MCSpec
CONSTANTS
  f1 = f1
  h1 = h1
  p1 = p1
  p2 = p2
  e1 = e1
  t1 = t1
  t2 = t2
  w1 = w1
  w2 = w2
  Serial = Serial
  NoCall = NoCall
  NoEvent = NoEvent
  Fibers = {f1}
  Hosts = {h1}
  PoolWorkers = {p1, p2}
  Events = {e1}
  Workloads = {{"pool", "shutdown"}, {"serial", "shutdown"}}
  MaxPosts = 4
  Issuers = {t1, t2}
  FileWorkers = {w1, w2}
  FileOps = {"cancel", "shutdown"}
INVARIANT FrameOutlivesCall
INVARIANT WorkersSuffice
PROPERTY RequestsInOrder
PROPERTY CallsEnd
CHECK_DEADLOCK FALSE
