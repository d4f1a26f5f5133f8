SPECIFICATION FairSpec
CONSTANTS
  Kinds = {"receiver", "bluetooth"}
  Paths <- TwoPaths
  MaxUnplugs = 1
  MaxRequests = 1
  MaxOpenFaults = 1
  MaxWriteFaults = 1
INVARIANTS
  TypeOK
  ConnectedHasTransport
  AnnouncedIsTrue
PROPERTIES
  Reconnects
  CloseEndsThread
CHECK_DEADLOCK FALSE
