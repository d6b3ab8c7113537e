SPECIFICATION FairSpec
CONSTANTS
  None = None
  Pid = {1, 2, 3}
  Tid = {1, 2, 3}
  Machines <- MCMachines
  Code = {1}
INVARIANTS
  WaitReports
  Kin
  ThreadsGone

  
CHECK_DEADLOCK FALSE
