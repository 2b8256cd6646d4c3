SPECIFICATION Spec
CONSTANTS
  Vocab = {0, 1, 2}
  StopTokens = {2}
  Prompts <- MCPrompts
  Target <- MCTarget
  Drafters = {"tree"}
  Caches = {"gpu"}
  Limit = 6
  MaxSeqLen = 9
  MaxContext = 9
  InitialDraft = 2
  MinDraft = 1
  MaxDraft = 2
  WindowSize = 2
  NumHeads = 2
  AcceptWindow = 2
  ProbeInterval = 1
  MaxSequences = 1
  None = None
INVARIANTS SpeculationLossless
