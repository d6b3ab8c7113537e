SPECIFICATION FairSpec
CONSTANTS
  Tasks = {1, 2}
  Port = {1, 2, 10, 11, 12}
  PORT_START = 10
  PORT_END = 12
  LISTEN_QUEUE_SIZE = 2
  FdLimit = 4
  Sockets = {1, 2, 3, 4, 5, 6}
  Handles = {1, 2, 3, 4, 5, 6, 7, 8}
  TxLen = 2
  Signalled = {2}
INVARIANTS StreamsCorrect  AllWritten 
PROPERTIES StreamsEnd ImplementsFile
CHECK_DEADLOCK FALSE
