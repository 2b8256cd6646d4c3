SPECIFICATION FairSpec
CONSTANTS
  None = None
  Requests <- Two
  Kind <- StreamKinds
  ClockIDs = {}
  PromptLen <- Prompts10
  Limit <- Limits41
  MaxTokens = 0
  MaxBatchSize = 1
  ChanCap = 1
  CacheMode = "paged"
  BlockSize = 2
  MaxBlocks = 4
  ArenaTokens = 5
  Hidden = 1
  Inter = 1
  KVWords = 4
  Vocab = 1
  MaxClients = 2
  Cancellable = {}
INVARIANTS
  StreamInOrder
  RunSurvives
PROPERTIES
  ImplementsStream
  EventuallyServed
CHECK_DEADLOCK FALSE
