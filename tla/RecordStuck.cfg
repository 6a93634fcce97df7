CONSTANTS
  None = None
  Caller = {c1, c2}
  MaxClock = 2
  Supplied = {}
  MaxLog = 5
SPECIFICATION Spec
SYMMETRY Symmetry
INVARIANT LineageOpen
