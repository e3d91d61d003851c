\* Two processes are one pipeline with a survivor, or two jobs.
CONSTANTS
  Pid = {p1, p2}
  Shell = Shell
  ExitCodes = {200}
  Signalled = Signalled
  Stopped = Stopped
  Junk = Junk
  None = None
  MaxStages = 2
  MaxStops = 1
SPECIFICATION FairSpec
PROPERTIES
  ForegroundReturns
  PendingChildIsReaped
  ScriptCollects
CHECK_DEADLOCK FALSE
