CONSTANTS
  p1 = p1  p2 = p2  u1 = u1  u2 = u2
  Postings = {p1, p2}
  Candidates = {p1}
  Legacy = {p1}
  Users = {u1, u2}
  User = u1
  Sponsor = u2
  Workers = 2
  Tokens <- OnlyTwo
  RunCap = 3
  DailyCap = 3
  MonthlyCap = 9
  PerCallCap = 2
  Days = 1
  MaxBlind = 0
  MaxUnrecorded = 1
SPECIFICATION Spec
INVARIANTS
  CapsHold
  ReadingsKept
PROPERTIES
  NoDoubleSpend
CHECK_DEADLOCK FALSE
