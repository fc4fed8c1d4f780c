SPECIFICATION FairSpec
CONSTANTS
    Callers = {c1, c2}
    MaxFds = 3
    MaxHandlers = 2
    MaxCalls = 2
PROPERTY
    LostIsRetried
CHECK_DEADLOCK FALSE
