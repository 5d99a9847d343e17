SPECIFICATION MCSpec
CONSTANTS
    Types <- MCTypes
    Payloads <- MCPayloads
    Length <- MCLength
    Number <- MCNumber
    Matching <- MCMatching
    Parse <- MCParse
    Members <- MCMembers
    Inherited <- MCInherited
    u1 = u1
    u2 = u2
    u3 = u3
    s1 = s1
    s2 = s2
    s3 = s3
    value = value
    own = own
    base = base
    d1 = d1
    caller1 = caller1
    caller2 = caller2
    region1 = region1
    Default = Default
    None = None
    NoBucket = NoBucket
    NoObject = NoObject
    NoPolicy = NoPolicy
    NoUnit = NoUnit
    p1 = p1
    p2 = p2
    End = End
    main = main
    Main = main
    q1 = q1
    q2 = q2
    app = app
    queue = queue
    MaxSteps = 3
    Units <- MCUnits
    ContextOf <- MCContextOf
    Lineage <- MCLineage
    Declared <- MCDeclared
    Held <- MCHeld
    Services <- MCServices
    Plain <- MCPlain
    Disposable <- MCDisposable
    Lower <- MCLower
    Policies <- MCPolicies
    Asked <- MCAsked
    RouteTable <- MCRoutes
    OwnHeaders <- MCOwn
    ServerHeaders <- MCServer
    CookieNames <- MCCookies
    MaxCookies = 2
    Transports <- MCTransports
    Severities <- MCSeverities
    Accepts <- MCAccepts
    Disposers <- MCDisposers
    MaxLogs = 2
    MaxAdds = 3
    FileCallers <- MCFileCallers
    Regions <- MCRegions
    MaxWrites = 3
    Consumers <- MCCallers
    MaxBuffer = 2
    MaxPushed = 4
    Pullers <- MCCallers
    MaxEmitted = 4
    Falsy <- MCFalsy
    Lists <- MCLists
    MaxSent = 2
    Malformed <- MCMalformed
    Tasks <- MCTasks
    MaxBreaks = 1
    DisposeCalls <- MCDisposeCalls
    Disposed <- MCDisposed
INVARIANTS
    StatesAreValid
    ContextsAreShared
    HeadersAreKept
    FilesAreStored
    EveryValueIsDelivered
    HandledInOrder
    ShutdownIsClean
PROPERTIES
    LogsAreFlushed
CHECK_DEADLOCK FALSE
