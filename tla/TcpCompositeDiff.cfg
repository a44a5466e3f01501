CONSTANTS
    Plans <- Shrinking
    SegmentSize = 2
    Scale = 4
    Wrap = 65536
    InitialCwnd = 4
    InitialSsThresh = 10
    LowWindow = 4
    CntClamp = 20
    FastConvergence = TRUE
    TcpFriendliness = TRUE
    HyStart = TRUE
    DupAckThresh = 3
    MaxAcked = 2
    MaxAbove = 2
    MaxCwnd = 6
    MaxAcks = 5
    Flights = {0, 6, 16}
    MaxFlight = 16
SPECIFICATION Spec
PROPERTY SwitchChangesByDiff
