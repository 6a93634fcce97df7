CONSTANTS
  s1 = s1
  s2 = s2
  a1 = a1
  a2 = a2
  v1 = v1
  Sessions = {s1, s2}
  Identities = {1, 2, 3, 4}
  Activities = {a1, a2}
  Services = {v1}
  Commands <- TwoLives
  Changing = {2}
  MaxEpoch = 3
SPECIFICATION Spec
INVARIANTS CirclesApart ReadStaysSo RefusedReplay
PROPERTY EligibleWhenRecorded
SYMMETRY Alike
CONSTRAINT OneLifeLong
