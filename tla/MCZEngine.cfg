SPECIFICATION FairSpec
CONSTANTS
    Threads = {t1, t2}
    Main = Main
    TimerIds = {1}
    Undefined = Undefined
    Null = Null
    None = None
    MaxPending = 1
INVARIANTS
    TypeOK
    ContextsOutliveTheirUse
    TimersConsistent

    
CHECK_DEADLOCK FALSE
