SPECIFICATION FairSpec
CONSTANTS
    mail = mail
    report = report
    t1 = t1
    t2 = t2
    t3 = t3
    narrow = narrow
    shared = shared
    Processes <- MCTwo
    Tasks = {t1, t2, t3}
    Source <- MCTwoSource
    Limiters <- MCLimiters
    LimitersOf <- MCTwoLimitersOf
    Limit <- MCLimit
    Retries <- MCTwoRetries
    Polling = TRUE
    Claims = TRUE
    Faults <- MCNoFaults
    MaxAgain = 0
    MaxRuns = 6
INVARIANTS
    HandleIsComplete
    RunsAreCounted
PROPERTIES
    RunnerGoesOn
CHECK_DEADLOCK FALSE
