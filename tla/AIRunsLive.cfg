CONSTANTS
  p1 = p1  p2 = p2  u1 = u1  u2 = u2
  Postings = {p1}
  Candidates = {p1}
  Legacy = {p1}
  Users = {u1, u2}
  User = u1
  Sponsor = u2
  Workers = 1
  Tokens <- OnlyTwo
  RunCap = 1
  DailyCap = 3
  MonthlyCap = 5
  PerCallCap = 2
  Days = 2
  MaxBlind = 0
  MaxUnrecorded = 1
SPECIFICATION LiveSpec
INVARIANTS
  MonthlyCapHolds
  LimitBlamedRightly
PROPERTIES
  RunsEnd
CHECK_DEADLOCK FALSE
