SPECIFICATION MCSpec
CONSTANTS
  None = None
  Task = {1, 2, 3}
  c1 = c1
  c2 = c2
  Cpu = {c1, c2}
  Machines <- OneOrTwo
  Process = {1, 2}
  UserStart = 11
  FileSize = 6
  LQ_NUM = 2
INVARIANTS
  JoinCode
  
PROPERTIES
  JoinReturns
  UsesTaskLayer
  
CHECK_DEADLOCK FALSE
