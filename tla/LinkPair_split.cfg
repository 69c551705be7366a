SPECIFICATION PSpec
CONSTANTS
    Links = {1, 2}
    Sessions <- Ends
    Ids <- EndIds
    Kind <- AllTCP
    FirstId <- OwnAddr
    Key <- FarKey
    Acks <- FarIds
    MaxTime = 1
    Shared = {}
    NoSession = NoSession
    Other <- FarEnd
    Diallers <- Dialled
INVARIANT DedupLeavesOneLink
CHECK_DEADLOCK FALSE
