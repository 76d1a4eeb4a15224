SPECIFICATION ObjectsSpec
CONSTANTS
  a1 = a1
  a2 = a2
  a3 = a3
  b1 = b1
  b2 = b2
  d1 = d1
  n1 = n1
  none = none
  Users = {a1, a2, a3}
  Slots = {1, 2, 3}
  HostSlots = {101}
  Hosts = {1, 2, 3}
  Bodies = {b1, b2, d1}
  Dispatchers = {d1}
  ObjectNames = {n1}
  MaxHeld = 1
  MaxOpens = 2
  ObjectSettings <- FiveSettings
  NoThread = NoThread
  Cpus = {c1, c2}
  Threads = {t1, t2}
  Callers = {k1}
  Kinds = {"mutant", "semaphore"}
  Ops = {"timeout", "apc", "terminate", "signal"}
  MaxPermits = 2
  MaxDepth = 1
SYMMETRY ObjectsSym
 
INVARIANT PermitMovesEpoch
INVARIANT ObjectsExact
INVARIANT BodiesFreedOnce
CHECK_DEADLOCK FALSE
