\* Three requests at once, of one component or of several, on two connections.
\* The server is idle when all are answered.
SPECIFICATION Spec
CONSTANTS
    t1 = t1
    t2 = t2
    t3 = t3
    f1 = f1
    n1 = n1
    s1 = s1
    s2 = s2
    Thread = {t1, t2, t3}
    Nobody = Nobody
    Startup = Startup
    MaxConns = 2
    MaxChats = 2
    MaxRuns = 1
    JobTtl = 2
    StaleAfter = 1
    LookupTtl = 2
    SnapshotTtl = 3
    MaxTrades = 1
    CoverageTtl = 2
    Founder = {f1, f2}
    Newcomer = {n1}
    Backfill = Backfill
    Stock = {s1, s2}
    Cash = "cash"
    Etf = "etf"
    Price <- Prices
    Opening <- OpeningBook
    Workloads <- Everything
    LastTime <- Clocks
    ColdStarts <- ColdLoads
CHECK_DEADLOCK FALSE
INVARIANTS
    TypeOK
    ConnectionsConserved
    ChatsCounted
    WorkersBounded
    AnswersKept
    FreshWithinLifetime
    LastKnownGood
    CoverageWithinTtl
    TourAtMostOnce
    MembersNeverSeeTour
    NewcomersSeeTour
    PositionsPositive
PROPERTIES
    RefusedForYoungJobs
    CommitMatchesLedger
    EveryRequestAnswered
