SPECIFICATION Spec
CONSTANTS
  Session = {s1}
  Offered = {"abort", "compact"}
  MaxPrompts = 2
  MaxWire = 1
  MaxSteps = 2
  MaxCalls = 2
  QueueLimit = 1
  Providers = {"rooxcode"}
  SaveMayFail = TRUE
  Filling = {}
  KeepRecords = FALSE
INVARIANT CallsAnswered
