\* A process that dies during the third attempt.
SPECIFICATION FairSpec
CONSTANTS
    p1 = p1
    p2 = p2
    v1 = v1
    v2 = v2
    v3 = v3
    Proc = {p1}
    Viewer = {v1}
    Home <- HomeAlone
    Key = {k1}
    Token = {t1, t2, t3}
    NoToken = NoToken
    NoKey = NoKey
    NoProc = NoProc
    Workers = 1
    Cap = 1
    Lease = 1
    Retry = 1
    MaxAttempts = 3
    Budget = 1
    Hangs = TRUE
    Faults = {}
    MaxCrashes = 1
PROPERTIES
    AbandonedClaimsRecover
