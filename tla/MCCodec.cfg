SPECIFICATION FairSpec
CONSTANTS
    kPacketHeaderSize = 2
    kMaxPacketSize = 4
    UInt32 = 16
    Fields = {0, 1, 2, 4, 5, 15}
    MaxFrames = 3
INVARIANTS
    TypeOK
    DeliveredAsSent
    StreamAligned
    LengthHeaderDrains
PROPERTY
    LengthHeaderDelivers
CHECK_DEADLOCK FALSE
