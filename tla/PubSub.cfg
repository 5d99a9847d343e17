SPECIFICATION MCSpec
CONSTANTS
    c1 = c1
    c2 = c2
    i1 = i1
    i2 = i2
    i3 = i3
    i4 = i4
    Channels = {c1, c2}
    Iterators = {i1, i2, i3, i4}
    ChannelOf <- MCChannelOf
    None = None
    Throwing <- MCThrowing
    MaxPublished = 2
    MaxBreaks = 1
INVARIANTS
    ServerFollows
    MessagesArrive
PROPERTIES
    CallsSettle
CHECK_DEADLOCK FALSE
