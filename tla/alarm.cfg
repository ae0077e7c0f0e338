\* Alarm recording on a card that may be full or refuse to create a file.
SPECIFICATION Spec
CONSTANTS
  UnitSecs = 1
  UnitsPerMinute = 2
  UnitsPerFile = 2
  FilesPerDay = 3
  StartWindow = 1
  StopWindow = 2
  UploadSecs = 1
  ExitSecs = 1
  BufBlocks = 2
  MaxTimes = 0
  Types = {"RECORDER_ALARM"}
  DaysPerWeek = 2
  Schedules <- AllDay
  Events = {"alarm"}
  Faults = {"full", "create"}
  MaxClock = 4
  MaxLag = 1
  MaxBlocks = 1
  MaxMsgs = 1
  MaxUpsets = 0
PROPERTIES
  AlarmKeepsFile
  IndexOnlyGrows
\* The clock stops at its bound, and a process that ended is not always started again.
CHECK_DEADLOCK FALSE
