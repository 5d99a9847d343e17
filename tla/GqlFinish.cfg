SPECIFICATION FairSpec
CONSTANTS
    Ids = {orders, users}
    Reuse = FALSE
    MaxMessages = 1
    MaxCalls = 2
PROPERTIES
    RunEnds
CHECK_DEADLOCK FALSE
