\* Reboots, formats, exits, crashes, restarts, pulled cards, two of them in a run.
SPECIFICATION Spec
CONSTANTS
  UnitSecs = 1
  UnitsPerMinute = 2
  UnitsPerFile = 2
  FilesPerDay = 2
  StartWindow = 1
  StopWindow = 2
  UploadSecs = 1
  ExitSecs = 1
  BufBlocks = 2
  MaxTimes = 0
  Types = {"RECORDER_COMMON"}
  DaysPerWeek = 2
  Schedules <- AllDay
  Events = {"reboot", "format", "exit", "boot"}
  Faults = {"card", "crash", "ipc"}
  MaxClock = 3
  MaxLag = 1
  MaxBlocks = 2
  MaxMsgs = 1
  MaxUpsets = 2
INVARIANTS
  RecFdNeedsDisk
  RebootQuiesces
  IndexInFile
  CurLenIsFileSize
PROPERTIES
  IndexOnlyGrows
\* The clock stops at its bound, and a process that ended is not always started again.
CHECK_DEADLOCK FALSE
