CONSTANTS
    StreamLen = 4
    SegmentSize = 2
    DupAckThresh = 2
    MaxBuffer = 4
    SackModes = {TRUE}
    LimitedTransmit = TRUE
    NoDelay = TRUE
    RcvBufSize = 3
    Windows = {2}
    DataRetries = 1
    Writes = {4}
    NetCapacity = 2
    DelAckMaxCount = 2
SPECIFICATION FairFlowSpec
PROPERTY NoStall
CHECK_DEADLOCK FALSE
