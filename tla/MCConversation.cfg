SPECIFICATION FairConversation
CONSTANTS
  Session = {s1}
  Offered = {}
  MaxPrompts = 3
  MaxWire = 1
  MaxSteps = 1
  MaxCalls = 0
  QueueLimit = 1
  Providers = {"other"}
  SaveMayFail = FALSE
  Filling = {1}
  KeepRecords = TRUE
  MaxQueued = 1
  Requests = {"compact", "switch_session"}
INVARIANT LeftAtRest
INVARIANT ReturnedNotRun
PROPERTY ImplementsSubmissions
PROPERTY ExchangeEnds
