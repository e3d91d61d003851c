\* Two processes are enough for the race of two steps and one handler.
CONSTANTS
  Pid = {p1, p2}
  Shell = Shell
  ExitCodes = {200}
  Signalled = Signalled
  Stopped = Stopped
  Junk = Junk
  None = None
  MaxStages = 2
  MaxStops = 1
SPECIFICATION Spec
INVARIANT ShownOnce
CHECK_DEADLOCK FALSE
