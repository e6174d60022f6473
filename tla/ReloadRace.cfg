SPECIFICATION ReloadSpec
CONSTANTS
    Admins = {}
    QueueDepth = 1
    MaxRotations = 1
    MaxSignals = 1
    MaxPanics = 0
INVARIANTS NoopIsAccurate
CHECK_DEADLOCK FALSE
