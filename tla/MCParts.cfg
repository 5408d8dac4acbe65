SPECIFICATION Spec
CONSTANTS
  MaxContinuations = 2
  Indices = {0, 1}
  MaxDeltas = 2
  MaxPieces = 2
  Source <- Sources
  MaxTurns = 3
  MaxBuffer = 5
  MaxStream = 6
  Widths = {1, 2, 3, 4}
  MaxText = 5
  Budget = 12
  Fixed = 2
  SummaryBytes = {0, 1, 4}
  MaxRequests = 3
  Process = {p1, p2}
  Account = {a1, a2}
  Nobody = Nobody
  MaxTokens = 3
  KeyProvider = {k1, k2}
  NoProvider = NoProvider
  MaxKeyChanges = 4
  OutputLimit = 1
  Label = {l1, l2}
  MaxSteps = 2
  MaxCalls = 2
  Byte = {"a", "b", "n"}
  MaxContent = 4
  MaxPart = 2
  Command <- Commands
  Submitted <- Drafts
  Entry <- Entries
  MaxImages = 1
  PasteLimit = 1
  MaxDraft = 3
  Saved = {s1, s2, s3}
  Setting = {d, e}
  Configured = d
  SessionFile = {f1}
  Title = {"a", "b"}
  Scanner = {w1, w2}
  MaxAge = 1
  MaxTick = 2
  MaxInode = 1
  Labels <- Lists
  Term = {"a", "b"}
  MaxQuery = 2
  MaxVisible = 3
  Size <- Sizes
  DraftLimit = 3
  Pasted <- Pastes
  Kind = {"read", "bash", "edit"}
  Height = {1, 2}
  MaxTranscript = 3
  MaxEvents = 5
INVARIANT RequestsKept
INVARIANT MessagesWhole
INVARIANT ToolCallsEnd
PROPERTY CredentialsKept
PROPERTY ComposerTrue
PROPERTY ChatTrue
CHECK_DEADLOCK FALSE
