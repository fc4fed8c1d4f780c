SPECIFICATION FairSpec
CONSTANTS
    Callers = {c1, c2}
    MaxFds = 3
    MaxHandlers = 2
    MaxCalls = 3
INVARIANTS
    TypeOK
    OneAttempt
    StateMatchesSocket
PROPERTIES
    HandlersStartUp
    ZEngineConnectingEnds
CHECK_DEADLOCK FALSE
