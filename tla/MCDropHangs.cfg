SPECIFICATION FairSpec
CONSTANTS
  None = None
  Committers = {c1}
  Sizes = {1, 2}
  MAX_COMMIT_QUEUE_BYTES = 1
  MAX_LOG_QUEUE_BYTES = 2
  MIN_LOG_SIZE = 1
  IoErrors = FALSE
  Drops = TRUE
  MaxCommits = 3
PROPERTY DropReturns
CHECK_DEADLOCK FALSE
