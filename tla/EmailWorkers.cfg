CONSTANTS
  None = None
  Intent = {c1, n}
  Verification = {c1}
  Notice = {n}
  Person = {p}
  Recipient <- AllToOne
  Address = {a1}
  Worker = {w1, w2}
  Lease = {l1, l2, l3}
  MaxAttempts = 2
  Capacity = 2
  Reserve = 1
  ChallengesPerDay = 2
  LeaseTime = 1
  RetryTime = 1
  ChallengeTime = 3
  ResendTime = 1
  RetentionTime = 1
  DayLength = 2
  PassLimit = 1
  External = TRUE
  SendCrashBound = 0
SPECIFICATION Spec
SYMMETRY Symmetry
INVARIANTS SoleSender AcceptedOnce
PROPERTIES PromiseKept
