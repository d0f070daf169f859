SPECIFICATION MCSpec
CONSTANTS
    Request = {r1, r2}
    Alarm = {r2}
    Hosts = 2
    Config = {c1, c2}
    Regions = 2
    Retries = 1
    MaxOps = 1
    None = None
ACTION_CONSTRAINT Asked
SYMMETRY Symmetry
CHECK_DEADLOCK FALSE
INVARIANTS
    OutcomeTruthful
    NoStaleRoute
    NoSuspendedRoute
    NoRevivedRoute
