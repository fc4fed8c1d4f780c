SPECIFICATION Spec
CONSTANTS
    Threads = {t1}
    Lengths = {1, 2}
    SndBuf = 2
    UInt32 = 16
    MaxSends = 3
    MaxInbound = 1
INVARIANT
    RemainingWithinData
CHECK_DEADLOCK FALSE
