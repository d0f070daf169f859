SPECIFICATION Spec
CONSTANTS
    Attempt = {a1, a2, a3}
    NoAttempt = none
    Requests = {x}
    NoId = noid
    Modes = {"interleaving"}
    MaxLog = 2
    MaxHosts = 1
SYMMETRY Symmetry
CHECK_DEADLOCK FALSE
INVARIANTS
    CompletedIsDurable
    SerialUnlessGranted
    InstanceMatchesDatabase
