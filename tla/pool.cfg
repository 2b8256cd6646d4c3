SPECIFICATION Spec
CONSTANTS
  None = None
  Seqs = {1, 2}
  NumLayers = 2
  MaxBlocks = 3
  BlockSize = 2
  MaxLen = 5
  Chunks = {1, 2, 3}
  ShareLens = {2, 4}
INVARIANTS
  RefCountsExact
  FreeListExact
  LayersAgree
PROPERTIES
  AttendsOwnKV
CHECK_DEADLOCK FALSE
