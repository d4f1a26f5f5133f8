SPECIFICATION FairSpec
CONSTANTS
  Hosts = {desk, laptop}
  NoHost = NoHost
  Registered <- Desk
  Gateway <- TwoGateways
  Relayed = {"keyboard", "mouse"}
  Keyboards = {"keyboard"}
  Modes = {"divert", "analytics", "announce"}
  MaxPresses = 3
  MaxNaps = 1
INVARIANTS
  TypeOK
  MovesOncePerPress
  TogetherWhenQuiet
PROPERTIES
  Together
CHECK_DEADLOCK FALSE
