SPECIFICATION FairSpec
CONSTANTS
    Threads = {t1, t2}
    Lengths = {1, 2}
    SndBuf = 2
    UInt32 = 16
    MaxSends = 2
    MaxInbound = 1
INVARIANTS
    TypeOK
    WritingIffBuffered
    StreamIntact
    SendsOrdered
    FreedIsQuiescent
    OnlySendsGoStale
    ClosedOnce
PROPERTY
    NothingAfterClosed
    BufferedIsFlushed
    PeerEndIsNoticed
CHECK_DEADLOCK FALSE
