CONSTANTS
  None = None
  x1 = x1
  x2 = x2
  k1 = k1
  b1 = b1
  b2 = b2
  Actor = {x1}
  Attempt = {a1, a2}
  Key = {k1}
  Body = {b1}
  Request <- ElectionRequests
  MaxEpoch = 1
  MaxClock = 2
SPECIFICATION Spec
SYMMETRY Symmetry
INVARIANTS Recognised AlarmIsKnown
PROPERTIES FreshWrite
