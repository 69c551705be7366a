SPECIFICATION QSpec
CONSTANTS
    Producers = {p1, p2}
    Workers = {w1, w2}
    Dests = {peerA, peerB}
    peerA = peerA
    peerB = peerB
    Items <- MixItems
    ClassOf <- MixClass
    DestOf <- MixDest
    SizeOf <- MixSize
    MaxStale = 1
    NoOne = NoOne
    NoItem = NoItem
INVARIANT FlowFIFO
INVARIANT DeficitBounded
INVARIANT FlowsScheduled
INVARIANT RoundRobin
PROPERTY ImplementsFlows
SYMMETRY Symmetry
CHECK_DEADLOCK FALSE
