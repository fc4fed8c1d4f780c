SPECIFICATION FairSpec
CONSTANTS
    PoolSize = 3
    MaxConns = 4
    MaxFailures = 1
INVARIANTS
    TypeOK
    HandedToRunningLoop
PROPERTIES
    CallbacksReachServer
    PoolShutdownEnds
CHECK_DEADLOCK FALSE
