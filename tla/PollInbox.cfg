CONSTANTS
    Messages = {k1, u1}
    Keyed = {k1}
    Files = {f1}
    Limit = 1
    TTL = 2
    AckRetention = 1
    Retention = 2
    Hold = 1
    Horizon = 0
    MaxTime = 3
    MaxFaults = 1
CHECK_DEADLOCK FALSE
SPECIFICATION FairSpec
INVARIANTS SkippedOnlyInFlight KeyedToldOnce AnnouncedReadable
PROPERTY RowsReach
