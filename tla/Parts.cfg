SPECIFICATION PSpec
CONSTANTS
    Workers = {1, 2, 3}
    Handlers = {h1, h2}
    TaskKeys = {k1}
    Names = {n1, n2}
    Labels = {}
    PageSizes = {0, 1}
    MaxOps = 3
    MaxPages = 3
    NoRecord = NoRecord
    NoTask = NoTask
    NoToken = NoToken
    FrameKinds = {"tcp", "quic", "mem", "winpipe"}
    Writers = {w1, w2}
    PrefixLen = 2
    BufLen = 3
    FrameSizes = {0, 2, 5}
    FrameLimit = 4
    MaxFrames = 2
    Msgs = {m1, m2}
    Sizes = {2, 3, 5}
    Chunks = {2, 8}
    Priorities = {257}
    FragWidth = 3
    ByteWidth = 256
    LenWidth = 5
    LenLimit = 2
    BodyKinds = {"invoke", "none"}
    MaxBodies = 1
INVARIANTS UniqueTasks RecordIndexed WalkComplete FramesIntact MessagesIntact AllDelivered
CHECK_DEADLOCK FALSE
