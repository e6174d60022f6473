SPECIFICATION BudgetSpec
CONSTANTS
    Conns = {p1, p2}
    MaxRecs = 2
    NShards = 2
    NWorkers = 2
    PartCap = 1
    BatchSize = 2
    ChanCap = 1
    MaxPanics = 1
    MaxConns = 2
    FrameMax = 2
    MaxSent = 3
CHECK_DEADLOCK FALSE
INVARIANTS NoFalseReply IngestedIsSettled
PROPERTIES OrderIsKept NothingIsLeftWaiting IngestCloses
