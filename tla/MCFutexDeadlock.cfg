SPECIFICATION Spec
CONSTANTS
  None = None
  Waiter = {t1, t2}
  Waker = {w1, w2}
  Key = {1, 2}
  Size = 2
  MaxQueue = 2
  Bits = {}
  Requeues <- BothWays
INVARIANTS
  NoDeadlock
SYMMETRY Symmetry
CHECK_DEADLOCK FALSE
