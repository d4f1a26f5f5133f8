SPECIFICATION Spec
CONSTANTS
  Devices = {"keyboard", "mouse"}
  Keyboards = {"keyboard"}
  MaxCrashes = 1
  MaxFailures = 1
  MaxClears = 1
INVARIANTS
  TypeOK
  NothingMissed
  RestIsSaved
  RejectionRearms
PROPERTIES
  FinishedStays
CHECK_DEADLOCK FALSE
