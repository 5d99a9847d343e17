SPECIFICATION MCSpec
CONSTANTS
    m1 = m1
    m2 = m2
    l1 = l1
    l2 = l2
    u1 = u1
    d = d
    c1 = c1
    c2 = c2
    c3 = c3
    mail = mail
    report = report
    bill = bill
    main = main
    q1 = q1
    app = app
    p1 = p1
    p2 = p2
    end = end
    none = none
    Messages <- MCTwoMessages
    Tasks <- MCTasks
    Loops <- MCLoops
    FirstLoop = l1
    Calls <- MCCalls
    DisposeCall = d
    Concurrency = 2
    Overlap = FALSE
    WatchersThrow = TRUE
    RateCallers <- MCRateCallers
    RateConcurrency = 2
    RateLimit = 2
    WindowCallers <- MCWindowCallers
    WindowLength = 4
    WindowLimit = 2
    LowestFrame = 1
INVARIANTS
    Quiescent
    StartsAreBounded
PROPERTIES
    WaitersGoOn
CHECK_DEADLOCK FALSE
