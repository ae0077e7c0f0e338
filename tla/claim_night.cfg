\* A schedule that runs over midnight every day.
SPECIFICATION Spec
CONSTANTS
  UnitSecs = 1
  UnitsPerMinute = 2
  UnitsPerFile = 2
  FilesPerDay = 2
  StartWindow = 1
  StopWindow = 2
  UploadSecs = 1
  ExitSecs = 1
  BufBlocks = 2
  MaxTimes = 1
  Types = {"RECORDER_COMMON"}
  DaysPerWeek = 2
  Schedules <- Nights
  Events = {}
  Faults = {}
  MaxClock = 5
  MaxLag = 1
  MaxBlocks = 3
  MaxMsgs = 1
  MaxUpsets = 0
PROPERTIES
  PeriodRunsOn
\* The clock stops at its bound, and a process that ended is not always started again.
CHECK_DEADLOCK FALSE
