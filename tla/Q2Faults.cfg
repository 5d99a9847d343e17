SPECIFICATION Q2Spec
CONSTANTS
    m1 = m1
    m2 = m2
    m3 = m3
    l1 = l1
    l2 = l2
    u1 = u1
    d = d
    Messages <- MCMessages
    Tasks <- MCTasks
    Loops <- MCTwoLoops
    FirstLoop = l1
    Calls <- MCCalls
    DisposeCall = d
    Concurrency = 2
    Overlap = TRUE
    WatchersThrow = FALSE
    Malformed <- MCMalformed
    MaxDrops = 1
INVARIANTS
    OnePlace
    Fifo
    AsManyGoneAsDone
    WithinConcurrency
CHECK_DEADLOCK FALSE
