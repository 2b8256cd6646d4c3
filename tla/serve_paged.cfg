SPECIFICATION Spec
CONSTANTS
  None = None
  Requests <- Two
  Kind <- HTTPKinds
  ClockIDs = {}
  PromptLen <- Prompts21
  Limit <- Limits32
  MaxTokens = 0
  MaxBatchSize = 2
  ChanCap = 3
  CacheMode = "paged"
  BlockSize = 2
  MaxBlocks = 2
  ArenaTokens = 3
  Hidden = 1
  Inter = 1
  KVWords = 4
  Vocab = 1
  MaxClients = 2
  Cancellable <- Two
INVARIANTS
  TypeOK
  NoPanic
  KVInv
  StreamFaithful
  ContextComplete
  RegisteredKeepsKV
  BlocksConserved
PROPERTIES
  FatalCause
CHECK_DEADLOCK FALSE
