SPECIFICATION FairSpec
CONSTANTS
    User = {u1}
    Session = {s1, s2}
    Request = {r1, r2}
    Stream = {t1}
    Viewer = {v1}
    NoUser = NoUser
    NoSession = NoSession
    MaxPassword = 2
    MaxData = 1
    MaxBusy = 2
INVARIANTS
    SessionsProveThePassword
    NothingAfterTheEnd
PROPERTIES
    ChangesWhatWasVerified
    StreamsOfEndedSessionsEnd
