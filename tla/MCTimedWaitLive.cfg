SPECIFICATION FairSpec
CONSTANTS
  None = None
  Task = {t1, t2}
  Cpu = {c1, c2}
  Programs <- Plain
  MaxTime = 2
  MaxNodes = 4
PROPERTIES
  SleepEnds
CHECK_DEADLOCK FALSE
