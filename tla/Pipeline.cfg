SPECIFICATION PSpec
CONSTANTS
    s1 = s1
    s2 = s2
    pipe = pipe
    local = local
    w1 = w1
    w2 = w2
    w3 = w3
    destA = destA
    destB = destB
    Sessions = {s1, s2}
    PeerOf <- Peers
    Forwarders = {pipe, local}
    Pipes = {pipe}
    FwdOf <- Uses
    Workers = {w1, w2, w3}
    WorkerOf <- WorksAt
    Dests = {destA, destB}
    Msgs = {1, 2, 3}
    From <- Arrives
    Msg <- Mail
    Rate = 4
    Capacity = 2
    Second = 4
    MaxInt64 = 7
    MaxFails = 1
    MaxTime = 3
    NoDest = NoDest
    NoMsg = NoMsg
    NoBucket = NoBucket
INVARIANTS Conserved Conforms
SYMMETRY Symmetry
CHECK_DEADLOCK FALSE
