CONSTANTS
  m1 = m1
  m2 = m2
  s1 = s1
  s2 = s2
  Members = {m1, m2}
  Founder = m1
  Coordinators = {m1}
  Seats = {s1, s2}
  Arrangements = {{s1}, {s1, s2}}
  Dates = {0, 3}
  LastTime = 6
  MaxVersions = 2
  MaxRequests = 2
SPECIFICATION Spec
INVARIANTS TermsApart StrayIsLate DroppedUnseen
PROPERTIES PromiseKept
CHECK_DEADLOCK FALSE
