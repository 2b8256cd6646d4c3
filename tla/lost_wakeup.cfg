SPECIFICATION FairSpec
CONSTANTS
  None = None
  Requests <- Two
  Kind <- StreamKinds
  ClockIDs = {}
  PromptLen <- Prompts10
  Limit <- Limits22
  MaxTokens = 0
  MaxBatchSize = 2
  ChanCap = 3
  CacheMode = "paged"
  BlockSize = 2
  MaxBlocks = 4
  ArenaTokens = 5
  Hidden = 1
  Inter = 1
  KVWords = 4
  Vocab = 1
  MaxClients = 2
  Cancellable = {}
PROPERTIES
  ReliableWakeup
CHECK_DEADLOCK FALSE
