SPECIFICATION MCSpec
CONSTANTS
    AlarmActor = {a}
    Scheduler = {p1, p2}
    Slot = {k1}
    AttemptTimeout = 1
    RetryDelay = 1
    MaxAttempts = 2
    QueuedTimeout = 6
    ClaimDelay = 1
    MaxOffset = 1
    MaxRevision = 2
    MaxAhead = 1
    MaxCrashes = 1
    Idle = Idle
    Gateway = {g1}
    Socket = {s1, s2}
    MaxConnections <- Connections
    Response = {r}
    Unset = Unset
    Budget = {}
    MaxLogVersions = 2
    MinLogBytes = 3
    LiveRecords = 2
    BatchBytes = 2
    PageLimit = 2
    NoKey = NoKey
CHECK_DEADLOCK FALSE
INVARIANTS
    OneDelivery
PROPERTIES
    OnlyHandledIsCleared
    AlarmsSettle
    SocketsLeave
    CheckpointsCatchUp
