SPECIFICATION Spec
CONSTANTS
  Cap = 3
  BatchMax = 2
  WalMax = 2
  Torn = Torn
  MaxEntry = 3
  MaxBoots = 1
  MaxFaults = 1
PROPERTIES
  SuccessMeansStored
CHECK_DEADLOCK FALSE
