CONSTANTS
  p1 = p1
  p2 = p2
  b1 = b1
  b2 = b2
  NIL = NIL
  Producers = {p1, p2}
  Bodies = {b1, b2}
  N = 2
  W = 8
  MaxCalls <- OneEach
  LevelOf <- PanicFatal
  Levels <- TwoLevels
  Texts <- SomeTexts
  MaxSets = 1
SPECIFICATION LoggerFairSpec
PROPERTIES FatalEnds
CHECK_DEADLOCK FALSE
