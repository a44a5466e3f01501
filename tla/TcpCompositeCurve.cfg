CONSTANTS
    Plans <- Steeper
    SegmentSize = 2
    Scale = 4
    Wrap = 65536
    InitialCwnd = 12
    InitialSsThresh = 40
    LowWindow = 4
    CntClamp = 20
    FastConvergence = TRUE
    TcpFriendliness = TRUE
    HyStart = TRUE
    DupAckThresh = 3
    MaxAcked = 2
    MaxAbove = 2
    MaxCwnd = 12
    MaxAcks = 3
    Flights = {0, 8}
    MaxFlight = 8
SPECIFICATION Spec
INVARIANT TargetIsBelowOrigin
