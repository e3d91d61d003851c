SPECIFICATION Spec
CONSTANTS
  MaxScript = 5
  MaxLine = 4
  MaxString = 4
  Scripts <- MCScripts
  CmdLines <- MCCmdLines
  Strings <- MCStrings
  FirstLen = 4
  NUL = NUL
  Junk = Junk
INVARIANTS
  TypeOK
  StaysInside
  LeavesTheRest
  ReadsWholeText
PROPERTIES
  ReadsAsWritten
