SPECIFICATION FairSpec
CONSTANTS
  None = None
  Task = {t1, t2, t3}
  c1 = c1
  c2 = c2
  Cpu = {c1, c2}
  Machines <- OneOrTwo
INVARIANTS
  MutualExclusion
PROPERTIES
  WaiterWoken
  UsesTaskLayer
CHECK_DEADLOCK FALSE
