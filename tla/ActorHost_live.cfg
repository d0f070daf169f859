SPECIFICATION LiveSpec
CONSTANTS
    Attempt = {a1, a2}
    NoAttempt = none
    Requests = {x, noid}
    NoId = noid
    Modes = {"serial", "interleaving"}
    MaxLog = 1
    MaxHosts = 1
CHECK_DEADLOCK FALSE
PROPERTIES
    EveryRequestAnswered
