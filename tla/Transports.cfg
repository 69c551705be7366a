SPECIFICATION FairSpec
CONSTANTS
    Addrs = {a1, a2}
    Kinds = {"udp", "tcp", "quic", "mem", "winpipe"}
    AcceptCap = 1
    InCap = 2
    OutCap = 1
    MaxSends = 2
    MaxArrivals = 3
INVARIANTS NoneAltered FirstKept OneSession
PROPERTIES WaitingIsAccepted CloseEndsLoops DialledIsServed
CHECK_DEADLOCK FALSE
