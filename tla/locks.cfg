SPECIFICATION MCSpec
CONSTANTS
  f1 = f1
  f2 = f2
  f3 = f3
  p1 = p1
  p2 = p2
  l1 = l1
  a1 = a1
  a2 = a2
  a3 = a3
  Fibers = {f1, f2, f3}
  Hosts = {h1}
  None = None
  Dispatchers = {p1, p2}
  DispatchOf <- DispatchOfEach
  Locks = {l1, a1, a2, a3}
  Rank <- RankOfEach
  ApcLockOf <- ApcLockOfEach
  Ops = {"host", "shutdown"}
INVARIANT Exclusive
INVARIANT IrqlIsOwn
PROPERTY HeadersAgree
CHECK_DEADLOCK FALSE
