SPECIFICATION BleSpec
CONSTANTS
  MaxLeaves = 1
  MaxBleFaults = 0
  MaxFailures = 0
INVARIANT WaitsConnected
CHECK_DEADLOCK FALSE
