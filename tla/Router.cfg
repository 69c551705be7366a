SPECIFICATION MCSpec
CONSTANTS
    me = me
    x = x
    y = y
    z = z
    Peers = {me, x, y, z}
    Local = me
    Kinds = {"mem"}
    Extras = {0, 400}
    MaxChanges = 4
    Targets = {y, z}
    MayLink <- Graph
    NoPeer = NoPeer
    NoSession = NoSession
    RouteTargets = {t1}
    Neighbours = {n1, n2}
    Sources = {"gossip"}
    Metrics = {0, 2}
    PathLens = {1}
    Healths = {"unknown", ""}
    TTLs = {0, 1}
    DefaultTTL = 2
    Callers = {c1, c2}
    MaxClock = 1
    MaxOps = 3
    NoPath = NoPath
INVARIANTS ShortestRoute FreshRoute OneCandidatePerSource
PROPERTIES CallReturns BestIsBest VisitedIsFinal
CHECK_DEADLOCK FALSE
