CONSTANTS
    Plans <- BothWays
    SegmentSize = 2
    Scale = 4
    Wrap = 65536
    InitialCwnd = 4
    InitialSsThresh = 10
    LowWindow = 4
    CntClamp = 20
    FastConvergence = TRUE
    TcpFriendliness = TRUE
    HyStart = TRUE
    DupAckThresh = 2
    MaxAcked = 2
    MaxAbove = 1
    MaxCwnd = 6
    MaxAcks = 4
    Flights = {0, 8, 16}
    MaxFlight = 16
SPECIFICATION Spec
INVARIANTS TypeOK DelayIsKnown TargetIsBelowOrigin UpdateTerminates PlateauWasReached SlowStartIsWatched
PROPERTY SwitchChangesByDiff
