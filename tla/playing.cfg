\* One session alone, over the files of a day, one of them missing.
SPECIFICATION FairSpec
CONSTANTS
  NSlots = 1
  Clients = {"a"}
  NFiles = 3
  Recorded = {0, 2}
  Order <- OneLate
  Fds = {3, 4, 5}
  ListLen = 2
  WriteTries = 1
  Zero = "ZERO"
  Requests <- OneSlot
  Faults = {"shm", "noframe", "dir", "full"}
INVARIANTS
  SeekForgets
  ReadsOwnFile
  DescriptorsClosed
PROPERTIES
  SentInOrder
  SessionEnds
\* The requests are bounded, and a session that has ended leaves nothing to do.
CHECK_DEADLOCK FALSE
