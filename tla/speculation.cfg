SPECIFICATION Spec
CONSTANTS
  Vocab = {0, 1, 2}
  StopTokens = {2}
  Prompts <- MCPrompts
  Target <- MCTarget
  Drafters = {"model", "tree", "heads"}
  Caches = {"gpu", "paged"}
  Limit = 6
  MaxSeqLen = 8
  MaxContext = 9
  InitialDraft = 2
  MinDraft = 1
  MaxDraft = 2
  WindowSize = 2
  NumHeads = 2
  AcceptWindow = 2
  ProbeInterval = 1
  MaxSequences = 2
  None = None
INVARIANTS TargetContext DraftNeverAhead WriteAhead EndsOnTime TreeLossless HiddenFresh
PROPERTY EventuallyFinished
