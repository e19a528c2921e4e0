SPECIFICATION Spec
CONSTANTS
  a = a
  b = b
  Cells <- MCCells
  None = None
  SyncWal = TRUE
  SyncData = TRUE
  KEEP_LOGS = 0
  MIN_LOG_SIZE = 0
  MAX_LOG_POOL_SIZE = 1
  CrashPlans <- MCAnyCrash
  InOrder = TRUE
  Tears = {"short", "partial"}
  MaxRecords = 3
  MaxLogs = 3
INVARIANTS TypeOK LogOrder
PROPERTIES WriteAhead RecoveryIsPrefix CleanupAfterSync
SYMMETRY MCSymmetry
CHECK_DEADLOCK FALSE
