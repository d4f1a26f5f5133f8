SPECIFICATION FairSpec
CONSTANTS
  p1 = p1
  p2 = p2
  Publishers <- TwoPublishers
  Subscriptions = {s1, s2}
  UNSUBSCRIBE = UNSUBSCRIBE
  MaxEvents <- TwoAndOne
INVARIANTS
  TypeOK
PROPERTIES
  ImplementsMailbox
  EventuallyDelivered
  DrainEnds
CHECK_DEADLOCK FALSE
