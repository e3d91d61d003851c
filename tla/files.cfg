SPECIFICATION Spec
CONSTANTS
  MaxFd = 6
  MaxFile = 3
  MaxObject = 3
  MaxRefs = 2
INVARIANTS
  TypeOK
  KeepsItsFile
  NoDescriptorLost
  RunConnects
CHECK_DEADLOCK FALSE
