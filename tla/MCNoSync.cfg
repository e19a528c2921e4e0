SPECIFICATION FairSpec
CONSTANTS
  a = a
  b = b
  Cells <- MCCells
  None = None
  SyncWal = FALSE
  SyncData = FALSE
  KEEP_LOGS = 1
  MIN_LOG_SIZE = 0
  MAX_LOG_POOL_SIZE = 1
  CrashPlans <- MCOneKill
  InOrder = TRUE
  Tears = {"partial"}
  MaxRecords = 3
  MaxLogs = 3
PROPERTIES RecoveryIsPrefix 
