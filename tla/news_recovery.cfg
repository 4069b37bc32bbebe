\* An article that keeps being looked at is settled through a crash, failed saves
\* and workers that outlive their lease, and what is ready stays ready.
SPECIFICATION FairSpec
CONSTANTS
    p1 = p1
    p2 = p2
    v1 = v1
    v2 = v2
    v3 = v3
    Proc = {p1, p2}
    Viewer = {v1, v2}
    Home <- HomeApart
    Key = {k1}
    Token = {t1, t2, t3, t4}
    NoToken = NoToken
    NoKey = NoKey
    NoProc = NoProc
    Workers = 1
    Cap = 1
    Lease = 1
    Retry = 1
    MaxAttempts = 3
    Budget = 1
    Hangs = TRUE
    Faults = {"claim_commit", "save"}
    MaxCrashes = 1
INVARIANTS
    LeaseProtectsClaim
PROPERTIES
    ReadyIsFinal
    AssessmentSpec
    EventuallySettled
