SPECIFICATION Spec
CONSTANTS
  f1 = f1
  f2 = f2
  FirstWindow <- MCFirstWindow
  Moving = {f1}
  PanelsSeen = {"logs", "explain", "summary", "report"}
  Filters = {f1, f2}
  LastPage = 1
  LastLine = 3
  LastGone = 1
  Topics = {t1, t2}
  MaxCalls = 3
  MaxFaults = 1
SYMMETRY TopicSymmetry
INVARIANTS
  TypeOK
  PageReachable
  
  AnswerOfQuestion
  SentWasShown
CHECK_DEADLOCK FALSE
