CONSTANTS
  p1 = p1
  p2 = p2
  b1 = b1
  b2 = b2
  b3 = b3
  NIL = NIL
  Producers = {p1, p2}
  Bodies = {b1, b2, b3}
  N = 2
  W = 8
  MaxCalls <- TwoAndOne
  LevelOf <- DebugPanicFatal
  Levels <- TwoLevels
  Texts <- SomeTexts
  MaxSets = 1
SPECIFICATION CallersFairSpec
INVARIANTS LoggerTypeOK NoSilentDrop CrashIsLogged
PROPERTIES QuietAfterClose TextSetsLevel PushNeverWaits CloseReturns PoppedFatalEnds
CHECK_DEADLOCK FALSE
