SPECIFICATION Spec
CONSTANTS
  Task = {control, wifi}
  MAX_LOG_BUFF = 2
  BLOCK = 2
  SO_SNDBUF = 3
  MayFail = {}
  MaxLogs = 2
  MaxTransfers = 1
INVARIANTS
  SavedIsACopy
CHECK_DEADLOCK FALSE
