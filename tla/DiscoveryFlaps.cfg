SPECIFICATION Spec
CONSTANTS
  Followed <- KeysAndFriendlyName
  FeatureIndex <- Colliding
  DeviceRole = "keyboard"
  ReportedType = "keyboard"
  Named = TRUE
  Armable = TRUE
  InitiallyCached = {TRUE, FALSE}
  MaxAttempts = 2
  MaxReports = 3
  MaxLosses = 1
  MaxFaults = 0
  MaxReaders = 1
INVARIANTS
  TypeOK
  TasksBounded
  DependentsAfterFeature
CHECK_DEADLOCK FALSE
