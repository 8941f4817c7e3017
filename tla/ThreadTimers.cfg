SPECIFICATION FairSpec
CONSTANTS
    t1 = t1
    t2 = t2
    Tasks <- TwoTasks
    Requests <- TwoTasks
    NULL = NULL
    MayReturn = TRUE
    QueueLength = 2
INVARIANTS TypeOK NoOrphan HandleLive ContextLive FreedTimersUnused
PROPERTIES OneShotSpec StopNotRevoked StopReturns ContextsFreed
CHECK_DEADLOCK FALSE
