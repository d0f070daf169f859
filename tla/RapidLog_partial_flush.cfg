SPECIFICATION Spec
CONSTANTS
    Zone = {z1, z2}
    Recoverer = {r1, r2}
    MaxFrames = 2
SYMMETRY Symmetry
CHECK_DEADLOCK FALSE
INVARIANTS
    RemainsRecoverable
