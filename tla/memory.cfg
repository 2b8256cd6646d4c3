SPECIFICATION Spec
CONSTANTS
  Uses = {"f16", "f32", "blocks", "cpupaged", "train"}
  ScratchOn = {FALSE, TRUE}
  NumLayers = 2
  Dims <- MCDims
  Rank = 8
  MaxSeq = 64
  Lengths <- MCLengths
  MaxPasses = 3
INVARIANTS PoolSound TempsDisjoint SurvivesPasses
CHECK_DEADLOCK FALSE
