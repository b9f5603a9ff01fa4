SPECIFICATION FairSpec
CONSTANTS
  SeriesSets <- MCSeriesSets
INVARIANTS
  TypeOK
PROPERTIES
  QuietWithinCooldown
  AckMutesIncident
  
  GoodStopsFiring
CHECK_DEADLOCK FALSE
