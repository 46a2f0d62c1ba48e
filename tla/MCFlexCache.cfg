SPECIFICATION FairSpec
CONSTANTS
  NoReport = NoReport
  c1 = c1
  c2 = c2
  f1 = f1
  f2 = f2
  File = {f1, f2}
  Client = {c1, c2}
  MaxVersion = 2
CHECK_DEADLOCK FALSE
INVARIANTS
  FreshReports
PROPERTIES
  EveryRequestEnds
