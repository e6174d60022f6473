SPECIFICATION ServicesSpec
CONSTANTS
    Scenes = {"cap", "errors", "http", "listeners"}
    Connections = {c1}
    Poll = poll
    CapShards = {s1, s2}
    Caps = {20, 30}
    SegmentMax = 10
    RecordSize = 9
    MaxSealed = 2
    MaxRetired = 1
    Backlog = 2
    RetryBudget = 2
    MaxBreaks = 2
    MaxHiccups = 1
    Peers = {p1, p2}
    HeadSlots = 1
    ScrapeSlots = 1
    ProbeSlots = 1
    MaxAcceptErrors = 1
    Producers = {k1, k2}
    MaxConnections = 1
    WarnInterval = 1
    MaxClock = 1
    MaxAcceptFaults = 1
PROPERTIES
    CapWorks
    
    HttpServes
    ListenersAreSound
CHECK_DEADLOCK FALSE
