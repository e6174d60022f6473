SPECIFICATION OperationsSpec
CONSTANTS
    Scenes = {"view", "ctl", "codec", "client", "sql", "request", "bodies",
              "creds", "object", "config", "attest", "stall"}
    None = None
    MaxDeviations = 2
    MaxTurns = 1
    MaxSegment = 1
    MaxCalls = 3
    BatchRows = 3
    MaxAttempts = 3
    SegmentRecords = 3
    BatchSizes = {1, 2}
    MaxSends = 4
    MaxTime = 6
    Lifetime = 3
    RefreshMargin = 1
    MaxCounter = 3
    MaxSeals = 2
    MaxMishaps = 2
    HealthPoll = 1
    CommitTimeout = 1
    GrowthWarnInterval = 1
    MaxAge = 3
CONSTRAINT AttestBudget
INVARIANTS
    StatusNeverFlatters
    ReportIsTrue
    CodecIsExact
    ClientIsHonest
    SqlIsTrue
    SinksTellTheTruth
    
    ConfigurationIsTrue
    ChainIsSound
PROPERTIES
    WedgeIsTrue
CHECK_DEADLOCK FALSE
