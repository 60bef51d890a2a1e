SPECIFICATION FairSpec
CONSTANTS
  Task = {control, wifi}
  MAX_LOG_BUFF = 2
  BLOCK = 2
  SO_SNDBUF = 3
  MayFail = {"write", "stat", "open", "seek", "copy", "reopen", "send"}
  MaxLogs = 2
  MaxTransfers = 2
INVARIANTS
  LogTypeOK
  QueueBeforeUse
  CopyIsConsistent
  SavedIsTheLog
PROPERTIES
  EveryEntryIsWritten
  HostThreadEnds
CHECK_DEADLOCK FALSE
