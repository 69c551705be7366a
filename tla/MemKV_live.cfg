SPECIFICATION FairSpec
CONSTANTS
    Keys = {k1}
    Clients = {c1, c2}
    Lens = {1}
    TTLs = {0, 1}
    Jitter = 1
    MaxBytes = 0
    MaxTime = 4
    MaxOps = 3
    None = None
PROPERTY OverdueRemoved
PROPERTY CloseReturns
CHECK_DEADLOCK FALSE
