CONSTANTS
  p1 = p1
  b1 = b1
  b2 = b2
  b3 = b3
  b4 = b4
  NIL = NIL
  Producers = {p1}
  Bodies = {b1, b2, b3, b4}
  N = 2
  W = 16
  MaxCalls <- FiveCalls
SPECIFICATION FloodSpec
INVARIANT OrderOutsideFlood
CHECK_DEADLOCK FALSE
