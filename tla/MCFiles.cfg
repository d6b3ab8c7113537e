SPECIFICATION MCSpec
CONSTANTS
  Parts = {"files", "names"}
  Tasks = {1, 2}
  ProcessOf <- MCProcessOf
  FirstProcess = 1
  Programs <- MCAll
  RING_BUFFER_SIZE = 2
  FdLimit = 5
  MaxValue = 3
  MaxLooks = 1
  SignalsTo = {2}
INVARIANTS
  PipesCorrect
  LinksCounted
PROPERTIES
  CallsEnd
  
CHECK_DEADLOCK FALSE
