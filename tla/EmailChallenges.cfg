CONSTANTS
  None = None
  Intent = {c1, c2}
  Verification = {c1, c2}
  Notice = {}
  Person = {p}
  Recipient <- AllToOne
  Address = {a1, a2}
  Worker = {w1}
  Lease = {l1, l2}
  MaxAttempts = 1
  Capacity = 2
  Reserve = 2
  ChallengesPerDay = 2
  LeaseTime = 1
  RetryTime = 1
  ChallengeTime = 2
  ResendTime = 1
  RetentionTime = 1
  DayLength = 2
  PassLimit = 1
  External = TRUE
  SendCrashBound = 1
SPECIFICATION Spec
SYMMETRY Symmetry
PROPERTIES ReplacedNeverSent VerifiedByInbox
