SPECIFICATION BudgetSpec
CONSTANTS
    Segs = {1}
    Replay = {1}
    SegLen = 3
    BatchSize = 2
    DlCap = 1
    CarryMax = 1
    StrandLimit = 1
    ChannelCap = 1
    MaxRetries = 1
    MaxDrainRespawns = 2
    MaxFaults = 2
    MaxPauses = 1
    MaxTickets = 1
CHECK_DEADLOCK FALSE
INVARIANTS ProgressIsCovered NothingLostOrTwice
