CONSTANTS
    Positions = {x, y}
    MaxJobs   = 3
    MaxStarts = 2

    Browsers    = {b1, b2}
    Limit       = 1
    MaxSubs     = 1
    Minute      = 1
    KeyLife     = 2
    MaxClock    = 3
    MaxRequests = 3
    MaxBoots    = 2

    Requests = {r1, r2}
    MaxIds   = 2

    MaxChunks = 2

    Silence  = 1
    MaxHours = 3

    Crews    = {c1, c2}
    MaxCalls = 3

    Threads    = {t1, t2}
    Arguments  = {a, b}
    CallCap    = 3
    Repeats    = 3
    Quota      = 2
    PoorQuota  = 1
    MaxInvoked = 4
    MaxDays    = 1

    MaxVersions = 3

    MaxReportRetries  = 2
    GateWarnThreshold = 1

SPECIFICATION MCSpec

INVARIANTS
    StatusTruthful
    ClosedStays
    LimitKept
    AckKept
    HoldingsAsAnswered
    ChunksAccounted
    SilenceKept
    GapsExplained
    RunawaysStopped
    QuotaExact
    LastWeightsKept
    DeliverableIsWhole
    ObedientWriterDelivers
    
    RefusalsAreTheWriters

PROPERTY LockGivenBack

\* The scenarios end: runs, requests, hours and calls are bounded, and a
\* report is sent once.
CHECK_DEADLOCK FALSE
