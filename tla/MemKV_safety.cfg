SPECIFICATION Spec
CONSTANTS
    Keys = {k1, k2}
    Clients = {c1, c2}
    Lens = {1, 2}
    TTLs = {0, 1, 2}
    Jitter = 0
    MaxBytes = 3
    MaxTime = 3
    MaxOps = 4
    None = None
INVARIANT TTLTracked
INVARIANT KeysAccounted
INVARIANT BytesAccounted
INVARIANT HardLimit
PROPERTY OnlyDueEvicted
SYMMETRY Symmetry
CHECK_DEADLOCK FALSE
