SPECIFICATION Spec
CONSTANTS
  Session = {s1}
  Offered = {"compact"}
  MaxPrompts = 2
  MaxWire = 1
  MaxSteps = 2
  MaxCalls = 1
  QueueLimit = 1
  Providers = {"other"}
  SaveMayFail = TRUE
  Filling = {1, 2}
  KeepRecords = FALSE
PROPERTY CompactionKeeps
