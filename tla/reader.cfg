\* Reading a file that tears, grows and is jumped in.
CONSTANTS
  HeadLen = 2
  LenOf <- MCLenOf
  MaxLen = 5
  TornLen = 8
  Chunk = 2
  BufLen = 3
  TryLimit = 0
  Step = 4
  ReadBuf = 3
  Times <- MCTimes
  Secs = {0, 2, 4}
  MaxCrashes = 1

SPECIFICATION Spec
CHECK_DEADLOCK FALSE
INVARIANTS
  TypeOK
  TearCostsItsFrame
  JumpIsRight
