SPECIFICATION FairSpec
CONSTANTS
  Registered <- TwoKeyboards
  Pid <- OwnReceiver
  Slot <- SameSlot
  ReprogIndex <- SameIndex
  Claiming <- Both
  Accepting <- OnlySecond
  Divertable <- Both
  Cids = {209}
  MaxEvents = 2
  MaxUnplugs = 2
INVARIANTS
  TypeOK
  ReportsWhenQuiet
  
  LostMeansOffline
PROPERTIES
  ComesToRest
CHECK_DEADLOCK FALSE
