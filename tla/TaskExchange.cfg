SPECIFICATION FairSpec
CONSTANTS
  Workers = {1, 2}
  Unsettled = {{"name"}, {"feature"}}
  NameLens = {0, 2}
  Overlong = 3
  MaxTroubles = 2
INVARIANTS
  TypeOK
  OutcomesAreTrue
PROPERTIES
  StepsSettle
CHECK_DEADLOCK FALSE
