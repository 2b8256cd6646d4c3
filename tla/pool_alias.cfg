SPECIFICATION Spec
CONSTANTS
  Uses = {"f16"}
  ScratchOn = {FALSE}
  NumLayers = 2
  Dims <- MCDims
  Rank = 8
  MaxSeq = 64
  Lengths <- MCAliasLengths
  MaxPasses = 2
INVARIANT RetainedSurvive
CHECK_DEADLOCK FALSE
