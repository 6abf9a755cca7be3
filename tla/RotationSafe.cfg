CONSTANTS
  PerWriteSize = 2
  PerSyncSize = 3
  MaxSize = 3
  MaxBackups = 2
  PerSecond = 2
  MaxLen = 3
  MaxBytes = 10
  MaxClock = 6
  MaxFiles = 5
  MaxFails = 1
  MaxCrashes = 1
  MaxInt = 2047
  kb = 3
  mb = 12
  pageSize = 4
  defaultMaxSize = 48
  defaultMaxBackups = 4
  defaultPerWriteSize = 12
  defaultPerSyncSize = 24
  GivenConfigs <- SomeConfigs
  MaxNews = 2
SPECIFICATION MCSpec
INVARIANTS TypeOK InOrder NoGap CountersMatch SizeBound BackupBound
INVARIANTS NamesByAge SizesAsAsked HintCoversWrites AdjustedOnce
PROPERTIES RemovesOldest ImplementsLogStream CallsReturn
CHECK_DEADLOCK FALSE
