SPECIFICATION MCSpec
CONSTANTS
    Spare = {n1, n2}
    Launch = {l1}
    IdleSpares = 1
    FleetMaximum = 1
    MaxStarting = 2
    MaxRestarts = 1
    Absent = Absent
    Session = {h1, h2}
    MaxActive = 1
    Burst = 1
    MaxSequence = 3
    Never = Never
    Gateway = {g1, g2}
    Socket = {s1, s2}
    MaxConnections <- Connections
    Response = {r}
    Unset = Unset
    Budget = {}
    Caller = {c1, c2}
    MaxCalls = 3
    MaxLogVersions = 2
    MinLogBytes = 3
    LiveRecords = 2
    BatchBytes = 2
    PageLimit = 2
    NoKey = NoKey
    Answers = {"live"}
    StaleAfter = 1
    EventLimit = 3
    MaxEpoch = 2
    MaxReports = 4
    MaxTime = 2
ACTION_CONSTRAINT FewReports
SYMMETRY Symmetry
CHECK_DEADLOCK FALSE
INVARIANTS
    NoOrphan
    NoActiveDeleted
    UsageConverges
    QuotaHeld
    NoGap
    AnswerCovers
    AutoResponseFresh
    RepliedIsQuiet
    RestoresExactly
    ProgressTruthful
    PeriodsAsReported
    ViewsAgree
PROPERTIES
    InspectsHistory
