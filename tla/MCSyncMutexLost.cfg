SPECIFICATION Spec
CONSTANTS
  None = None
  Task = {t1, t2, t3}
  c1 = c1
  c2 = c2
  Cpu = {c1, c2}
  Machines <- Two
INVARIANTS
  HandOver
CHECK_DEADLOCK FALSE
