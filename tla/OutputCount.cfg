CONSTANTS
  g1 = g1
  g2 = g2
  b1 = b1
  b2 = b2
  b3 = b3
  e1 = e1
  e2 = e2
  NIL = NIL
  Goroutines = {g1, g2}
  Files = {"a", "b"}
  Mutexes = {"m1", "m2", "m3"}
  Buffers = {b1, b2, b3}
  Encoders = {e1, e2}
  Built <- SomeBuilt
  Setups <- SomeSetups
  MaxFails = 1
  MaxCalls = 2
SPECIFICATION Spec
INVARIANT SmallestCount
CHECK_DEADLOCK FALSE
