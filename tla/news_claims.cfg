\* Two processes share the table, two requests run in one of them. Workers may
\* outlive their lease, every storage call may raise, one process may crash.
SPECIFICATION Spec
CONSTANTS
    p1 = p1
    p2 = p2
    v1 = v1
    v2 = v2
    v3 = v3
    Proc = {p1, p2}
    Viewer = {v1, v2, v3}
    Home <- HomeMixed
    Key = {k1}
    Token = {t1, t2, t3, t4}
    NoToken = NoToken
    NoKey = NoKey
    NoProc = NoProc
    Workers = 1
    Cap = 2
    Lease = 1
    Retry = 1
    MaxAttempts = 3
    Budget = 1
    Hangs = TRUE
    Faults = {"claim", "claim_commit", "reread", "save", "save_commit"}
    MaxCrashes = 1
INVARIANTS
    TypeOK
    AttemptsCountClaims
    OverlapOnlyAfterLease
    ResultFromOwner
