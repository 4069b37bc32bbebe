\* The read after a lost claim raises.
SPECIFICATION Spec
CONSTANTS
    p1 = p1
    p2 = p2
    v1 = v1
    v2 = v2
    v3 = v3
    Proc = {p1}
    Viewer = {v1, v2}
    Home <- HomeTogether
    Key = {k1, k2, k3}
    Token = {t1, t2, t3, t4, t5, t6, t7, t8, t9}
    NoToken = NoToken
    NoKey = NoKey
    NoProc = NoProc
    Workers = 1
    Cap = 2
    Lease = 1
    Retry = 1
    MaxAttempts = 3
    Budget = 1
    Hangs = TRUE
    Faults = {"reread"}
    MaxCrashes = 0
INVARIANTS
    QueueWithinCap
