CONSTANTS
  p1 = p1
  p2 = p2
  b1 = b1
  b2 = b2
  b3 = b3
  NIL = NIL
  Producers = {p1, p2}
  Bodies = {b1, b2, b3}
  N = 2
  W = 16
  MaxCalls <- ThreeAndOne
SPECIFICATION FairSpec
INVARIANTS TypeOK OneOwner AtMostOnce FifoUntilFlood
PROPERTIES AllButNewestDelivered AllDeliveredIfPolledFirst ImplementsLossyFifo
