SPECIFICATION FairSpec
CONSTANTS
  Session = {s1}
  Offered = {"abort", "clear_queue", "compact"}
  MaxPrompts = 4
  MaxWire = 1
  MaxSteps = 1
  MaxCalls = 1
  QueueLimit = 3
  Providers = {"other"}
  SaveMayFail = FALSE
  Filling = {1}
  KeepRecords = FALSE
INVARIANT TypeOK
INVARIANT SteersFirst
INVARIANT DeliveredOnce
PROPERTY WaitingTaken
PROPERTY CancelStops
