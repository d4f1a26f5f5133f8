SPECIFICATION FairSpec
CONSTANTS
  Devices = {"keyboard", "mouse"}
  Keyboards = {"keyboard"}
  HookNames <- TwoHooks
  RawConfigs <- Files
  Workers = {"w1", "w2"}
  MaxEvents = 3
INVARIANTS
  TypeOK
  HooksFollowReports
PROPERTIES
  HooksEnd
CHECK_DEADLOCK FALSE
