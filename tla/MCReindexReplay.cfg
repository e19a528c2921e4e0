CONSTANTS
  ENTRY_LEN = 6
  CHUNK_ENTRIES_BITS = 1
  SIZE_TIERS_BITS = 1
  PK_BITS = 3
  START_BITS = 1
  COMPRESSED_MASK = 128
  MAX_REBALANCE_BATCH = 2
  MaxBits = 3
  HISTOGRAM_BUCKETS = 2
  HISTOGRAM_BUCKET_BITS = 1
  STAT_BITS = 6
  Treshold = 3
  Keys <- MCKeys
  Values <- MCValues
  Size <- MCSize
  Packed <- MCPacked
  Preimage <- MCPreimage
  TierSizes <- MCTierSizes
  Scenarios <- MCInterrupted
SPECIFICATION Spec
INVARIANT CanBeReopened
CHECK_DEADLOCK FALSE
