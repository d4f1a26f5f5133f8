SPECIFICATION BleFairSpec
CONSTANTS
  MaxLeaves = 3
  MaxBleFaults = 2
  MaxFailures = 2
INVARIANTS
  BleTypeOK
  AnnouncedUpIsReal
PROPERTIES
  ComesUp
  CloseEndsThreads
CHECK_DEADLOCK FALSE
