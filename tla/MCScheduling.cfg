SPECIFICATION FairSpec
CONSTANTS
  None = None
  Task = {1, 2, 3}
  Cpu = {c1, c2}
  Node = {n1, n2}
  Cpus = 2
  MAX_TIME_SLICE = 2
  MaxOverrun = 1
  MaxVruntime = 2
  Waiter = {t1, t2}
  Waker = {w1}
  Key = {2, 4}
  Size = 2
  MaxQueue = 1
  Bits = {1}
INVARIANTS
  Ownership
  RefCount
  BlockedHasWaker
  OkIffWoken
PROPERTIES
  NoOvertaking
  Picked
  ImplementsBase
  
CHECK_DEADLOCK FALSE
