SPECIFICATION Spec
CONSTANTS
  r1 = r1
  r2 = r2
  q1 = q1
  q2 = q2
  Rules = {r1, r2}
  Requests = {q1, q2}
  Batch <- MCBatch
  InitRules <- MCInitRules
  Thresholds = {0, 2}
  MaxEvents = 2
  MaxFaults = 0
INVARIANTS
  CooldownIsMinimum
CHECK_DEADLOCK FALSE
