CONSTANTS
  Configs <- BothConfigs
  MaxSeqs = 2
  Chunks = {1, 2}
  Cancellable <- BothLeave
  Disciplined = TRUE
SPECIFICATION Spec
INVARIANTS BlocksAccounted RefCountsExact AttendsOwnKV RoPEMatchesPosition
CHECK_DEADLOCK FALSE
