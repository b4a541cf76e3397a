SPECIFICATION FairSpec
CONSTANTS
    u1 = u1
    l1 = l1
    User = {u1}
    Lock = {l1}
    LockOf <- OneLock
    Writer = {w1, w2}
    Stream = {s1}
    UserOf <- SameAccount
    MaxListeners = 1
    MaxPerUser = 1
    MaxReads = 1
    MaxUserReads = 1
    MaxWrites = 1
    MaxClock = 1
PROPERTIES
    WriterFinishes
    EventuallyTold
