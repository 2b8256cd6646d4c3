SPECIFICATION Spec
CONSTANTS
  Files <- AllFiles
  Followed <- MixedFiles
  Size <- Sizes
  Caches = {"f32", "f16", "q8"}
  Adapters = {TRUE, FALSE}
  Paths = {"gpu", "paged", "cpupaged", "plain"}
  Passes = 2
INVARIANTS   WeightsExact
CHECK_DEADLOCK FALSE
