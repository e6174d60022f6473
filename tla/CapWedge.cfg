SPECIFICATION ServicesSpec
CONSTANTS
    Scenes = {"cap"}
    Connections = {c1}
    Poll = poll
    CapShards = {s1}
    Caps = {20}
    SegmentMax = 10
    RecordSize = 9
    MaxSealed = 2
    MaxRetired = 1
    Backlog = 0
    RetryBudget = 1
    MaxBreaks = 0
    MaxHiccups = 0
    Peers = {}
    HeadSlots = 1
    ScrapeSlots = 1
    ProbeSlots = 1
    MaxAcceptErrors = 0
    Producers = {}
    MaxConnections = 1
    WarnInterval = 1
    MaxClock = 0
    MaxAcceptFaults = 0
PROPERTIES CapNeverWedges
CHECK_DEADLOCK FALSE
