\* No worker hangs: a full queue drains before the lease of its last job ends.
\* Lease is exactly (Cap / Workers) * Budget; three articles compete for two slots.
SPECIFICATION Spec
CONSTANTS
    p1 = p1
    p2 = p2
    v1 = v1
    v2 = v2
    v3 = v3
    Proc = {p1}
    Viewer = {v1, v2}
    Home <- HomeTogether
    Key = {k1, k2, k3}
    Token = {t1, t2, t3, t4, t5, t6}
    NoToken = NoToken
    NoKey = NoKey
    NoProc = NoProc
    Workers = 1
    Cap = 2
    Lease = 2
    Retry = 1
    MaxAttempts = 2
    Budget = 1
    Hangs = FALSE
    Faults = {"claim"}
    MaxCrashes = 0
SYMMETRY KeySymmetry
INVARIANTS
    NoConcurrentCalls
    SlotsConserved
    QueueWithinCap
