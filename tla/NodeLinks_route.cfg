SPECIFICATION LSpec
CONSTANTS
    Sessions = {s1, s3}
    s1 = s1
    s2 = s2
    s3 = s3
    addr1 = addr1
    addr2 = addr2
    keyA = keyA
    keySelf = keySelf
    Ids <- AllIds
    Kind <- TwoKinds
    FirstId <- Addresses
    Key <- OnePeer
    Acks <- NoAcks
    MaxTime = 1
    Shared = {}
    NoSession = NoSession
    Local = keySelf
    Dialled = {s1, s2}
INVARIANT DirectPeersRoutable
CHECK_DEADLOCK FALSE
