CONSTANTS
  None = None
  Intent = {c1, n}
  Verification = {c1}
  Notice = {n}
  Person = {p}
  Recipient <- AllToOne
  Address = {a1}
  Worker = {w1}
  Lease = {l1, l2}
  MaxAttempts = 2
  Capacity = 2
  Reserve = 1
  ChallengesPerDay = 2
  LeaseTime = 1
  RetryTime = 1
  ChallengeTime = 2
  ResendTime = 1
  RetentionTime = 1
  DayLength = 2
  PassLimit = 1
  External = FALSE
  SendCrashBound = 0
SPECIFICATION FairSpec
PROPERTIES EveryIntentEnds UncertaintyEnds DeadCodeErased
