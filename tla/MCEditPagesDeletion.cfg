SPECIFICATION Spec
CONSTANTS
  k1 = k1
  k2 = k2
  Scenes <- MCDeletions
  Keys = {k1, k2}
  FirstKey = k1
INVARIANTS
  DeletedStopsBoth
CHECK_DEADLOCK FALSE
