\* A card that is nearly full of recordings of three months, while the process starts.
SPECIFICATION CheckSpec
CONSTANTS
  Places <- FewDays
  OnCard = {"common", "alarm"}
  Capacity = 6
  Reserved = 4
  Foreigns = {0, 1}
  Tolerance = 0
  MaxDays = 3
INVARIANTS
  TypeOK
  SuccessMeansRoom
  VerdictIsRight
PROPERTIES
  DeletesWhenNeeded
  OldestFirst
  RoomIsMade
\* The calendar ends.
CHECK_DEADLOCK FALSE
