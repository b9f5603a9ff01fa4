SPECIFICATION Spec
CONSTANTS
  Cap = 2
  MaxBatch = 4
  MaxBoots = 3
  Torn = Torn
INVARIANTS
  TypeOK
  NoSilentLoss
  DeliveriesBounded
  BufferInOrder
  FileMirrorsBuffer
PROPERTIES
  EvictsOldest
  OnlyInFlightOrphaned
CHECK_DEADLOCK FALSE
