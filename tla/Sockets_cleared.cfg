SPECIFICATION MCSpec
CONSTANTS
    Gateway = {g1}
    Socket = {s1, s2}
    MaxConnections <- Connections
    Response = {r}
    Unset = Unset
    Budget = {}
CHECK_DEADLOCK FALSE
INVARIANTS
    ClearedDoesNotReturn
