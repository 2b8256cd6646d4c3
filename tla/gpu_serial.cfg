SPECIFICATION Spec
CONSTANTS
  None = None
  Requests <- Three
  Kind <- GRPCThree
  ClockIDs = {"t1", "t2"}
  PromptLen <- Prompts214
  Limit <- Limits011
  MaxTokens = 2
  MaxBatchSize = 1
  ChanCap = 3
  CacheMode = "gpu"
  BlockSize = 2
  MaxBlocks = 0
  ArenaTokens = 2
  Hidden = 1
  Inter = 1
  KVWords = 2
  Vocab = 6
  MaxClients = 1
  Cancellable <- Three
INVARIANTS
  TokenBudget
PROPERTIES
  OwnContext
CHECK_DEADLOCK FALSE
