SPECIFICATION Spec
CONSTANTS
    Attempt = {a1, a2}
    NoAttempt = none
    Requests = {x, noid}
    NoId = noid
    Modes = {"serial", "interleaving"}
    MaxLog = 2
    MaxHosts = 2
SYMMETRY Symmetry
CHECK_DEADLOCK FALSE
INVARIANTS
    CompletedIsDurable
    UnavailableNeverRan
PROPERTIES
    CompletedOnce
    DrainedIsQuiet
