CONSTANTS
  Configs <- MCConfigs
  NumHeads = 2
  Capacity = 3
  WarmupSamples = 2
  BatchSize = 2
  MinSteps = 1
  MaxPairs = 6
  MaxSteps = 2
  None = None
SPECIFICATION Spec
INVARIANTS TypeOK RingIsSuffix GPUSafe
PROPERTIES PhaseForward Progress
CHECK_DEADLOCK FALSE
