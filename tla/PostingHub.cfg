SPECIFICATION EitherSpec
CONSTANTS
    u1 = u1
    l1 = l1
    User = {u1}
    Lock = {l1}
    LockOf <- OneLock
    Writer = {w1}
    Stream = {s1, s2}
    UserOf <- SameAccount
    MaxListeners = 2
    MaxPerUser = 2
    MaxReads = 1
    MaxUserReads = 1
    MaxWrites = 2
    MaxClock = 3
    Contexts = {"profile", "changed"}
    NoContext = NoContext
    MaxWire = 1
    MaxRevision = 3
    MaxChanges = 1
    MaxFaults = 1
SYMMETRY TabSymmetry
INVARIANTS
    NoNoticeLost
    PendingContextCurrent
    RecordsExact
    ViewCurrent
    PageSound
PROPERTIES
    NoticesBind
