CONSTANTS
  None = None
  Caller = {c1, c2}
  MaxClock = 2
  Supplied = {0}
  MaxLog = 5
SPECIFICATION Spec
SYMMETRY Symmetry
INVARIANTS LineageIsHistory
PROPERTIES PromiseKept
