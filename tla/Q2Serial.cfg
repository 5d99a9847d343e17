SPECIFICATION Q2FairSpec
CONSTANTS
    m1 = m1
    m2 = m2
    m3 = m3
    l1 = l1
    l2 = l2
    u1 = u1
    d = d
    Messages <- MCMessages
    Tasks <- MCNoTasks
    Loops <- MCTwoLoops
    FirstLoop = l1
    Calls <- MCCalls
    DisposeCall = d
    Concurrency = 1
    Overlap = FALSE
    WatchersThrow = TRUE
    Malformed <- MCMalformed
    MaxDrops = 0
INVARIANTS
    NoLoss
    VerdictIsTrue
PROPERTIES
    SentIsTaken
    LedgerSpec
CHECK_DEADLOCK FALSE
