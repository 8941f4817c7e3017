SPECIFICATION Spec
CONSTANTS
    t1 = t1
    t2 = t2
    Tasks <- TwoTasks
    Requests <- TwoTasks
    NULL = NULL
    MayReturn = TRUE
    QueueLength = 2
INVARIANT StopComesBack
CHECK_DEADLOCK FALSE
