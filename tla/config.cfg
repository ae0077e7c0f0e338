\* The configuration a client sets, through failing writes, restarts and upgrades.
CONSTANTS
  LastDay = 2
  allday = allday
  night = night
  bad = bad
  NoFile = NoFile
  NoCfg = NoCfg
  AllDay = allday
  Times <- MCTimes
  BadTimes <- MCBadTimes
  Options = 6
  Requests <- MCRequests
  Factories <- MCFactories

SPECIFICATION Spec
INVARIANTS
  InForce
  SavedSurvives
