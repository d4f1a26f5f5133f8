SPECIFICATION FairSpec
CONSTANTS
  Followed <- WithoutFriendlyName
  FeatureIndex <- Ordinary
  DeviceRole = "keyboard"
  ReportedType = "none"
  Named = TRUE
  Armable = TRUE
  InitiallyCached = {TRUE, FALSE}
  MaxAttempts = 2
  MaxReports = 1
  MaxLosses = 0
  MaxFaults = 1
  MaxReaders = 2
INVARIANTS
  NobodyForgets
  AnnouncedHasName
PROPERTIES
  DiscoverySettles
  KeyboardGetsArmed
CHECK_DEADLOCK FALSE
