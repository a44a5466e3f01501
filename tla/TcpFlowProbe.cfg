CONSTANTS
    StreamLen = 5
    SegmentSize = 2
    DupAckThresh = 2
    MaxBuffer = 5
    SackModes = {TRUE}
    LimitedTransmit = TRUE
    NoDelay = TRUE
    RcvBufSize = 3
    Windows = {2}
    DataRetries = 1
    Writes = {2, 3}
    NetCapacity = 2
    DelAckMaxCount = 2
SPECIFICATION FlowSpec
INVARIANT ProbeSendsAByte
CHECK_DEADLOCK FALSE
