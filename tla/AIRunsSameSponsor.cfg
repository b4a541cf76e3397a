CONSTANTS
  p1 = p1  p2 = p2  u1 = u1  u2 = u2
  Postings = {p1, p2}
  Candidates = {p1}
  Legacy = {p1}
  Users = {u1}
  User = u1
  Sponsor = u1
  Workers = 1
  Tokens <- OnlyTwo
  RunCap = 4
  DailyCap = 4
  MonthlyCap = 9
  PerCallCap = 4
  Days = 1
  MaxBlind = 0
  MaxUnrecorded = 1
SPECIFICATION Spec
INVARIANTS DocumentedDailyCap
CHECK_DEADLOCK FALSE
