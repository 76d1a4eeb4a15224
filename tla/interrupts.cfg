SPECIFICATION MCSpec
CONSTANTS
  Heap = {h1}
  Owned = {o1}
  Special = {s1, s2}
  Normal = {n1}
  ApcSettings <- KernelOrUser
  None = None
  Queue = Queue
  Timers = {t1, t2}
  Threads = {a1, a2}
  Items = {i1, i2}
  RingSize = 1
  Dues = {1}
  Intervals = {0, 1}
  Lag = 0
  Ops = {"close", "all"}
SYMMETRY Sym
INVARIANT CancelIsOver
INVARIANT OneArmed
INVARIANT CallbackIsOwn
INVARIANT ApcsSound
CHECK_DEADLOCK FALSE
