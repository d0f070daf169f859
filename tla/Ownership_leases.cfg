SPECIFICATION LeasesSpec
CONSTANTS
    Session = {s1, s2, s3}
    Third = s3
    NoSession = none
    Duration = 3
    Margin = 1
    MaxSkew = 1
    LogFences = FALSE
    DrainCompletes = TRUE
    MaxTime = 4
    MaxGen = 5
    MaxVersion = 1
ACTION_CONSTRAINT Asked
SYMMETRY Symmetry
CHECK_DEADLOCK FALSE
INVARIANTS
    AckedSurvives
    ExclusiveAuthority
    ReleaseTriesSuffice
PROPERTIES
    ReleasedNotRevived
