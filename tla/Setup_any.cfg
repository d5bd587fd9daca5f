SPECIFICATION FairSpec
CONSTANTS
  MaxConfigs = 3
  MaxWifi = 2
  MaxWork = 3
  MaxTimers = 2
INVARIANTS
  TypeOK
  AttemptIsTimed
  RadioOffAfterwards
PROPERTIES
  ImplementsAttempts
  SetupEnds
CHECK_DEADLOCK FALSE
