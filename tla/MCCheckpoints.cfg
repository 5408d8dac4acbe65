SPECIFICATION Spec
CONSTANTS
  Process = {p1, p2}
  Request = {r1, r2, r3}
  Path = {f1}
  Covered = {f1}
  Image = {a, b}
  p1 = p1
  p2 = p2
  r1 = r1
  r2 = r2
  r3 = r3
  f1 = f1
  a = a
  b = b
  Missing = Missing
  None = None
  User = User
  MaxRequests = 2
  MaxImages = 2
  MaxCalls = 2
  Keeps = {1}
  MaxFaults = 1
  MaxEdits = 0
SYMMETRY Symmetry
CHECK_DEADLOCK FALSE
INVARIANT TypeOK
INVARIANT ImagesRetained
INVARIANT Recoverable
INVARIANT OriginalKept
INVARIANT RequestLimit
PROPERTY ReplacementsAnnounced
PROPERTY OthersSpared
