SPECIFICATION Spec
CONSTANTS
  Followed <- KeysOnly
  FeatureIndex <- Ordinary
  DeviceRole = "keyboard"
  ReportedType = "keyboard"
  Named = TRUE
  Armable = TRUE
  InitiallyCached = {FALSE}
  MaxAttempts = 2
  MaxReports = 3
  MaxLosses = 1
  MaxFaults = 1
  MaxReaders = 2
INVARIANTS
  ArmedWhenQuiet
CHECK_DEADLOCK FALSE
