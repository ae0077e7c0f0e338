\* A reboot, formats, recording switched off and on, under the fairness of the task's event loop.
SPECIFICATION FairSpec
CONSTANTS
  UnitSecs = 1
  UnitsPerMinute = 2
  UnitsPerFile = 2
  FilesPerDay = 2
  StartWindow = 1
  StopWindow = 2
  UploadSecs = 1
  ExitSecs = 1
  BufBlocks = 2
  MaxTimes = 1
  Types = {"RECORDER_COLSED", "RECORDER_COMMON"}
  DaysPerWeek = 2
  Schedules <- AllDay
  Events = {"config", "reboot", "format"}
  Faults = {}
  MaxClock = 2
  MaxLag = 1
  MaxBlocks = 1
  MaxMsgs = 1
  MaxUpsets = 2
PROPERTIES
  RebootEndsRecording
  RecordingResumes
\* The clock stops at its bound, and a process that ended is not always started again.
CHECK_DEADLOCK FALSE
