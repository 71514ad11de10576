\* Two or three threads in each component; a ring of two slots, four buckets.
CONSTANTS
    t1 = t1
    t2 = t2
    t3 = t3
    MinCapacity = 2
    BatchSize = 2
    MaxPushes = 5
    Recorders = {t1, t2}
    Latencies <- LatencySamples
    NumBuckets = 4
    MaxRecords = 3
    MaxResets = 1
    Waiters = {t1, t2, t3}
    Wants = {1, 2}
    CreditLimit = 3
    MaxCredits = 4
    MaxRequests = 4
    Callers = {t1, t2, t3}
    MaxConcurrent = 2
    BucketCapacity = 2
    TokenUnits = 2
    RatePerTick = 1
    MaxBatch = 3
    MaxTicks = 5
    MaxGrants = 5
    Lockers = {t1, t2, t3}
    Resources = {"a", "b", "c"}
    Free = Free
    Requests = {t1, t2}
    DefaultAdmin = "admin"
    DefaultAuditor = "auditor"
    Others = {"other"}
    MaxBindings = 3
    Clients = {t1, t2}
    Parties = {"p", "q"}
    MaxIdentifiers = 4
    CoaIds = {"x", "y", "z"}
    Root = "root"
    MaxAdds = 4
    Reporters = {t1, t2}
    Durations <- DurationSamples
    ErrorKinds = {"timeout"}
    MaxSamples = 2
    RateMax = 40
    P99Max = 50
    IncidentThreshold = 2
    MaxSignals = 3
    MaxClears = 1
SPECIFICATION Spec
SYMMETRY Symmetry
INVARIANTS DeliveredInOrder HistogramTruthful NobodySleepsThrough LimitsHold
           DeadlocksReported NoEscalation IdentityTraceable HierarchyEnds SignalsTruthful
\* Every component stops when its bounds are used up.
CHECK_DEADLOCK FALSE
