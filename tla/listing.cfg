\* Two days of two slots, pages of one segment, up to the first unit of the second day.
SPECIFICATION Spec
CONSTANTS
  Days = {1, 2}
  UnitsPerDay = 4
  UnitsPerFile = 2
  FilesPerHour = 1
  PageLen = 1
  Faults = {"card"}
  LastUnit = 0
INVARIANTS
  TypeOK
  PageExact
  ListingSound
  ListingComplete
\* The calendar ends.
CHECK_DEADLOCK FALSE
