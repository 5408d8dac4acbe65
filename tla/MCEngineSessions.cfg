SPECIFICATION Spec
CONSTANTS
  Session = {s1, s2}
  Offered = {"compact", "extension_command", "new_session", "switch_session", "set_model", "get_state"}
  MaxPrompts = 2
  MaxWire = 1
  MaxSteps = 1
  MaxCalls = 1
  QueueLimit = 1
  Providers = {"rooxcode", "other"}
  SaveMayFail = TRUE
  Filling = {1, 2}
  KeepRecords = FALSE
INVARIANT ActOnSaved
PROPERTY HistoryRetained
PROPERTY SessionStable
