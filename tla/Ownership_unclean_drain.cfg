SPECIFICATION Spec
CONSTANTS
    Session = {s1}
    NoSession = none
    Duration = 2
    Margin = 0
    MaxSkew = 0
    LogFences = TRUE
    DrainCompletes = FALSE
    MaxTime = 2
    MaxGen = 0
    MaxVersion = 2
CHECK_DEADLOCK FALSE
INVARIANTS
    AckedSurvives
