CONSTANTS
  m1 = m1
  m2 = m2
  Members = {m1, m2}
  Coordinators = {m1}
  Policy = "C"
  Permanent = FALSE
  Dates = {0, 2, 4}
  LastTime = 7
  MaxVersions = 2
  MaxNominations = 2
SPECIFICATION Spec
INVARIANTS HeldByConsent OutlivesByReturnOnly RetiredIsUnheld
CHECK_DEADLOCK FALSE
