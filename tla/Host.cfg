SPECIFICATION HostSpec
CONSTANTS
    Scenes = {"daemon", "requeue", "reload", "admin"}
    Daemons = {d1, d2}
    MaxInodes = 2
    MaxTampers = 1
    MaxNumbers = 2
    MaxStarts = 2
    Admins = {a1, a2}
    QueueDepth = 1
    MaxRotations = 1
    MaxSignals = 1
    MaxPanics = 1
    MaxConnections = 2
    MaxDrainPanics = 1
    Operators = {o1, o2}
    MaxRuns = 2
SYMMETRY Interchangeable
CONSTRAINT AdminBudget
INVARIANTS
    OneDaemon
    ReloadCatchesUp
    AdminIsHonest
    RequeueIsSafe
PROPERTIES
    StartsAreSafe
CHECK_DEADLOCK FALSE
