CONSTANTS
  PerWriteSize = 2
  PerSyncSize = 4
  MaxSize = 3
  MaxBackups = 1
  PerSecond = 1
  MaxLen = 3
  MaxBytes = 24
  MaxClock = 8
  MaxFiles = 10
  MaxFails = 1
  MaxCrashes = 0
SPECIFICATION Spec
INVARIANT RotatesAfterFailure
CHECK_DEADLOCK FALSE
