SPECIFICATION MCSpec
CONSTANTS
    d1 = d1
    d2 = d2
    b1 = b1
    x1 = x1
    DurableTier = {d1, d2}
    BufferedTier = {b1}
    Unwritable = {x1}
    MaxSegments = 2
    SegmentMax = 2
    MaxFaults = 1
    ChannelCap = 1
    MaxRespawns = 1
    MaxDrainRespawns = 2
    MaxRestarts = 1
CHECK_DEADLOCK FALSE
INVARIANTS AckSurvivesCrash DurableAckSafe CounterIsFresh SidecarMeansHandled AddressUniqueUnlessQuarantined
PROPERTIES ImplementsDurableBuffer AckedIsDelivered EveryPushAnswered StopEnds NeverRedeliverConfirmed NeverDropUnhandled
