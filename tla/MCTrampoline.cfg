SPECIFICATION FairSpec
CONSTANTS
  Task = {t1, t2, t3}
  Cpu = {c1, c2}
  None = None
  Node = {n1}
  User = {t1}
INVARIANTS
  CurrentExclusive
  CurrAlive
PROPERTIES
  
  
  ImplementsTaskLayer
CHECK_DEADLOCK FALSE
