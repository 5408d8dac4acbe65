SPECIFICATION FairSpec
CONSTANTS
  Process = {p1}
  Request = {r1, r2}
  Path = {f1, f2, f3}
  Covered = {f1, f2}
  Image = {a}
  p1 = p1
  r1 = r1
  r2 = r2
  f1 = f1
  f2 = f2
  f3 = f3
  a = a
  Missing = Missing
  None = None
  User = User
  MaxRequests = 2
  MaxImages = 8
  MaxCalls = 1
  Keeps = {1}
  MaxFaults = 1
  MaxEdits = 1
CHECK_DEADLOCK FALSE
PROPERTY RestoresOwnResults
PROPERTY OperationsEnd
