SPECIFICATION ComposerSpec
CONSTANTS
  MaxPrompts = 3
  QueueLimit = 2
  KeepRecords = TRUE
  MaxQueued = 2
  Requests = {"new_session"}
  Texts = {a, b}
  Nothing = Nothing
  EarlyLimit = 2
INVARIANT DisplayExact
INVARIANT LatestKept
SYMMETRY Symmetry
CONSTRAINT Bounded
