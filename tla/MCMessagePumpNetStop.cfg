SPECIFICATION Spec
CONSTANTS
    MaxPosters = 1
    Controllers = {c1}
    PipeSize = 1
    MaxTasks = 2
    MaxDelay = 1
    MaxTime = 2
    MaxInputs = 4
INVARIANTS
    PendingTasksComplete
CHECK_DEADLOCK FALSE
