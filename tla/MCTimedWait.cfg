SPECIFICATION Spec
CONSTANTS
  None = None
  Task = {t1, t2}
  Cpu = {c1, c2}
  Programs <- Mixed
  MaxTime = 2
  MaxNodes = 2
INVARIANTS
  OneAlarm
  Wakeable
PROPERTIES
  SleepsEnough
  UsesTaskLayer
SYMMETRY Symmetry
CHECK_DEADLOCK FALSE
