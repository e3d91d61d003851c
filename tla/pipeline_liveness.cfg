SPECIFICATION Spec
CONSTANTS
  MaxFd = 7
  MaxFile = 2
  MaxChild = 3
  MaxStages = 3
  Capacity = 1
  Redirections = {"none"}
PROPERTIES
  GobbleReturns
  WaitEnds
  EndReaches
CHECK_DEADLOCK FALSE
