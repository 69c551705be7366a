SPECIFICATION ToFairSpec
CONSTANTS
    ToolKinds = {"worker", "client", "ctl"}
    Nets = {"stream", "quic", "datagram"}
    Skews = {1, 2}
    MaxSkew = 1
    MaxReads = 2
    MaxFaults = 1
INVARIANTS RepliesInOrder
PROPERTIES ToolEnds AcksDieOut
CHECK_DEADLOCK FALSE
