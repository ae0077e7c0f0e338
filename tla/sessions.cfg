\* Two sessions of two clients, stopped, moved and abandoned at any time.
SPECIFICATION Spec
CONSTANTS
  NSlots = 2
  Clients = {"a"}
  NFiles = 2
  Recorded = {1}
  Order <- OneFrame
  Fds = {3, 4, 5}
  ListLen = 1
  WriteTries = 1
  Zero = "ZERO"
  Requests <- TwoSessions
  Faults = {"other","full","dir"}
INVARIANTS
  TypeOK
  NoSecondThread
  StreamLives
PROPERTIES
  Implements
\* The requests are bounded, and a session that has ended leaves nothing to do.
CHECK_DEADLOCK FALSE
