SPECIFICATION RapidSpec
CONSTANTS
    Session = {s1, s2}
    NoSession = none
    Duration = 1
    Margin = 0
    MaxSkew = 1
    LogFences = TRUE
    DrainCompletes = TRUE
    MaxTime = 2
    MaxGen = 2
    MaxVersion = 2
SYMMETRY Symmetry
CHECK_DEADLOCK FALSE
INVARIANTS
    Inv
    OneHistory
PROPERTIES
    VisibleGrows
