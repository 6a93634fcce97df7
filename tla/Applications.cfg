CONSTANTS
  p1 = p1
  c1 = c1
  c2 = c2
  Applicants = {p1}
  Coordinators = {c1, c2}
  Dates = {0, 4, 5}
  LastTime = 8
  MaxApplications = 2
  MaxFindings = 2
SPECIFICATION Spec
INVARIANTS StatusReadable OneHolder DecidedByHolder OneStanding PeriodsApart
SYMMETRY Alike
CHECK_DEADLOCK FALSE
