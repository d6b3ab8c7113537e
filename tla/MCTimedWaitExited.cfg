SPECIFICATION Spec
CONSTANTS
  None = None
  Task = {t1, t2}
  Cpu = {c1}
  Programs <- Notified
  MaxTime = 2
  MaxNodes = 3
PROPERTIES
  ExitedNotWoken
CHECK_DEADLOCK FALSE
