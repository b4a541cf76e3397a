SPECIFICATION PartsSpec
CONSTANTS
  Proc = {p1, p2, p3}
  Nobody = Nobody
  MaxLease = 3
  u1 = u1
  u2 = u2
  today = today
  bookmarks = bookmarks
  Users <- MCUsers
  Surfaces <- MCSurfaces
  Today <- today
  MaxEntries = 2
  MaxRuns = 4
  Callers = {c1, c2}
  Spacing = 2
  Forever = Forever
  Patience <- MCPatience
INVARIANTS
  GateSound
  EntriesExact
PROPERTIES
  ImplementsFairGate
  VerdictsStand
  RunsReported
  CallsEnd
