\* Recording all day or part of it, the schedule changed at any time, over midnight, one crash.
SPECIFICATION Spec
CONSTANTS
  UnitSecs = 1
  UnitsPerMinute = 2
  UnitsPerFile = 3
  FilesPerDay = 2
  StartWindow = 1
  StopWindow = 2
  UploadSecs = 1
  ExitSecs = 1
  BufBlocks = 2
  MaxTimes = 1
  Types = {"RECORDER_COMMON"}
  DaysPerWeek = 2
  Schedules <- DayOrNight
  Events = {"config", "boot"}
  Faults = {"crash"}
  MaxClock = 7
  MaxLag = 1
  MaxBlocks = 1
  MaxMsgs = 1
  MaxUpsets = 1
INVARIANTS
  TypeOK
  FileWindow
  IndexOrdered
  MarkedMeansRecorded
  IndexComplete
PROPERTIES
  KeepsArchive
  StartsInPeriod
\* The clock stops at its bound, and a process that ended is not always started again.
CHECK_DEADLOCK FALSE
