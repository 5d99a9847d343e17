SPECIFICATION Spec
CONSTANTS
    mail = mail
    report = report
    t1 = t1
    t2 = t2
    t3 = t3
    narrow = narrow
    shared = shared
    Processes <- MCPair
    Tasks = {t1, t2}
    Source <- MCPairSource
    Limiters = {shared}
    LimitersOf <- MCPairLimitersOf
    Limit <- MCSharedLimit
    Retries <- MCPairRetries
    Polling = FALSE
    Claims = FALSE
    Faults <- MCAllFaults
    MaxAgain = 1
    MaxRuns = 4
SYMMETRY MCAlike
INVARIANTS
    IteratorsAreReleased
    WithinLimit
CHECK_DEADLOCK FALSE
