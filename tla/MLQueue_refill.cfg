SPECIFICATION QSpec
CONSTANTS
    Producers = {p1}
    Workers = {w1}
    Dests = {peerA}
    peerA = peerA
    peerB = peerB
    Items <- PairItems
    ClassOf <- PairClass
    DestOf <- PairDest
    SizeOf <- PairSize
    MaxStale = 1
    NoOne = NoOne
    NoItem = NoItem
PROPERTY NextLoopRefills
CHECK_DEADLOCK FALSE
