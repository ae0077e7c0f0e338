\* A start does not replace what a client has saved.
CONSTANTS
  LastDay = 1
  allday = allday
  night = night
  bad = bad
  NoFile = NoFile
  NoCfg = NoCfg
  AllDay = allday
  Times <- MCTimes
  BadTimes <- MCBadTimes
  Options = 6
  Requests <- MCRequests
  Factories <- MCVersioned

SPECIFICATION Spec
PROPERTY
  ReplacedAfterUpgrade
