CONSTANTS
  None = None
  x1 = x1
  x2 = x2
  k1 = k1
  b1 = b1
  b2 = b2
  Actor = {x1, x2}
  Attempt = {a1, a2}
  Key = {k1}
  Body = {b1}
  Request <- EitherActors
  MaxEpoch = 0
  MaxClock = 1
SPECIFICATION FairSpec
INVARIANTS RetryNeverCollides DoneIsDone
PROPERTIES PromiseKept Answered
