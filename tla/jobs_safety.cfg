\* Three processes: a pipeline of two and a second job, or three jobs.
CONSTANTS
  Pid = {p1, p2, p3}
  Shell = Shell
  ExitCodes = {200}
  Signalled = Signalled
  Stopped = Stopped
  Junk = Junk
  None = None
  MaxStages = 2
  MaxStops = 1
SPECIFICATION Spec
SYMMETRY Symmetry
INVARIANTS
  TypeOK
  DeadMeansLastReaped
  DeadJobIsHungUp
  GroupComplete
  NoDanglingJob
  WaitIsExclusive
  StrayTerminalOnlyAfterDeath
PROPERTIES
  ForegroundWaits
  ForegroundValue
  ImplementsTable
\* The shell crashes or waits for a stopped process for ever.
CHECK_DEADLOCK FALSE
