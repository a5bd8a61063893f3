SPECIFICATION Spec
CONSTANTS
  m1 = m1
  m2 = m2
  k1 = k1
  a1 = a1
  a2 = a2
  j1 = j1
  Messages = {m1, m2}
  Keys = {k1}
  Asks = {a1, a2}
  Jobs = {j1}
  Skew = 1
  TTL = 2
  MaxNonce = 1
  MaxStep = 1
  MaxTime = 3
  MaxDeliveries = 2
SYMMETRY Interchangeable
CHECK_DEADLOCK FALSE
INVARIANT TypeOK
INVARIANT NoReplay
INVARIANT QueuedAsAsked
INVARIANT NoJobForgotten
