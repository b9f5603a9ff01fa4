SPECIFICATION FairSpec
CONSTANTS
  Cap = 3
  BatchMax = 2
  WalMax = 2
  Torn = Torn
  MaxEntry = 4
  MaxBoots = 2
  MaxFaults = 2
INVARIANTS
  TypeOK
  OrderKept
  StoredBounded
  
PROPERTIES
  LossHasCause
  GivesUpOldest
  EventuallyDrained
  LedgerSpec
CHECK_DEADLOCK FALSE
