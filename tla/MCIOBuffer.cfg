SPECIFICATION Spec
CONSTANTS
    Byte = {0, 1}
    Zero = 0
    kCheapPrepend = 1
    kInitialSize = 1
    InitialSizes = {1}
    ExtraBuf = 2
    IntSizes = {1, 2}
    MaxSize = 4
    MaxData = 2
    Data <- MCData
INVARIANTS
    TypeOK
    IndicesOrdered
    SpaceChecksHold
PROPERTIES
    ImplementsByteQueue
    TransfersExact
