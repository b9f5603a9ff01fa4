SPECIFICATION Spec
CONSTANTS
  r1 = r1
  r2 = r2
  n80 = n80
  n90 = n90
  Tabs = {"left", "right"}
  Scenes <- MCScenes
  Recipients = {r1, r2}
  Thresholds = {n80, n90}
  FirstSettings <- MCFirstSettings
INVARIANTS
  TypeOK
  
  
  ShownIsSent
PROPERTIES
  SessionSettles
CHECK_DEADLOCK FALSE
