SPECIFICATION FairSpec
CONSTANTS
  SeriesSets <- MCServices
PROPERTIES
  FailingServiceMailed
CHECK_DEADLOCK FALSE
