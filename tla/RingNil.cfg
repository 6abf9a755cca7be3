CONSTANTS
  p1 = p1
  p2 = p2
  b1 = b1
  b2 = b2
  b3 = b3
  b4 = b4
  b5 = b5
  NIL = NIL
  Producers = {p1, p2}
  Bodies = {b1, b2, b3, b4, b5}
  N = 2
  W = 8
  MaxCalls <- ThreeAndOne
SPECIFICATION Spec
PROPERTIES NilMeansNoData
