SPECIFICATION FairSpec
CONSTANTS
    MaxPosters = 2
    Controllers = {c1, c2}
    PipeSize = 1
    MaxTasks = 2
    MaxDelay = 1
    MaxTime = 2
    MaxInputs = 4
INVARIANTS
    TypeOK
    NoLostWakeup
    TimerMatchesSleep
    StopDrains
PROPERTIES
    CallbacksReachWatchers
    ImplementsTaskRunner
    PostedTaskHandled
CHECK_DEADLOCK FALSE
