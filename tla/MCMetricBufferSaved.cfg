SPECIFICATION Spec
CONSTANTS
  Cap = 2
  MaxBatch = 3
  MaxBoots = 2
  Torn = Torn
PROPERTIES
  SavedBatchSurvives
CHECK_DEADLOCK FALSE
