SPECIFICATION Spec
CONSTANTS
  a = a
  b = b
  Cells <- MCCells
  None = None
  SyncWal = TRUE
  SyncData = TRUE
  KEEP_LOGS = 0
  MIN_LOG_SIZE = 0
  MAX_LOG_POOL_SIZE = 1
  CrashPlans <- MCTwoTears
  InOrder = TRUE
  Tears = {"partial"}
  MaxRecords = 3
  MaxLogs = 3
PROPERTY RecoveryIsConsistent
SYMMETRY MCSymmetry
