SPECIFICATION ConversationSpec
CONSTANTS
  Session = {s1}
  Offered = {}
  MaxPrompts = 2
  MaxWire = 1
  MaxSteps = 1
  MaxCalls = 0
  QueueLimit = 1
  Providers = {"other"}
  SaveMayFail = FALSE
  Filling = {1, 2}
  KeepRecords = TRUE
  MaxQueued = 1
  Requests = {}
INVARIANT ComposerMeansIdle
