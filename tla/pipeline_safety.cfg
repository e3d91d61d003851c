SPECIFICATION Spec
CONSTANTS
  MaxFd = 7
  MaxFile = 3
  MaxChild = 3
  MaxStages = 3
  Capacity = 1
  Redirections = {"none", "file", "bad"}
INVARIANTS
  TypeOK
  HoldsOnlyItsEnds
  Connected
  NoStrayDescriptor
CHECK_DEADLOCK FALSE
