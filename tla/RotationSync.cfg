CONSTANTS
  PerWriteSize = 2
  PerSyncSize = 3
  MaxSize = 3
  MaxBackups = 1
  PerSecond = 1
  MaxLen = 3
  MaxBytes = 12
  MaxClock = 4
  MaxFiles = 6
  MaxFails = 1
  MaxCrashes = 1
SPECIFICATION Spec
INVARIANT SyncFlushesAll
CHECK_DEADLOCK FALSE
