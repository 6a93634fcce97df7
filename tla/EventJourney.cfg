CONSTANTS
  None = None
  p = p
  q = q
  k = k
  t0 = t0
  x = x
  Participant = {p, q}
  Caller = {c1, c2}
  Key = {k}
  MaxRows = 3
  Offered <- ForOne
  Attendee = p
  Staff = {s}
  Desk = {d1, d2}
  Time = {t0}
  Content = {x, y}
  MaxTrail = 4
  Asked <- AtTheDesk
SPECIFICATION Spec
SYMMETRY Symmetry
CONSTRAINT EitherScene
INVARIANTS OneLine LedgerTellsRows RetriesConverge TrailIsALife RequestConflictIsTrue
PROPERTIES RestsOnStanding PromiseKept
