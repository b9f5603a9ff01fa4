SPECIFICATION Spec
CONSTANTS
  k1 = k1
  k2 = k2
  Scenes <- MCScenes
  Keys = {k1, k2}
  FirstKey = k1
INVARIANTS
  TypeOK
  ListCatchesUp
  NothingUndone
  InputKept
  OrphansExplained
PROPERTIES
  PolledListsCatchUp
CHECK_DEADLOCK FALSE
