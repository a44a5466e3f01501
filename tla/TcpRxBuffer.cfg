SPECIFICATION FairSpec
CONSTANTS
    StreamLen = 7
    MaxSegment = 3
    BufferSizes = {3, 6}
    MaxSackBlocks = 2
INVARIANTS
    TypeOK
    InOrderDelivery
    AckedBytesAreHeld
    OccupancyBounded
    SackReportsHeldBytes
PROPERTIES
    EdgeNeverRetreats
    ImplementsInOrderStream
    LoopsAgree
    EventuallyDelivered
CHECK_DEADLOCK FALSE
