SPECIFICATION Spec
CONSTANTS
    Segs = {1}
    Replay = {1}
    SegLen = 2
    BatchSize = 1
    DlCap = 1
    CarryMax = 1
    StrandLimit = 1
    ChannelCap = 1
    MaxRetries = 1
    MaxDrainRespawns = 2
    MaxFaults = 1
    MaxPauses = 1
    MaxTickets = 0
INVARIANTS PausedGaugeTruthful
CHECK_DEADLOCK FALSE
